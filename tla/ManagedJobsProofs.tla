-------------------------- MODULE ManagedJobsProofs -------------------------
(* Theorems of ManagedJobs for any number of runners, recoveries, crashes    *)
(* and failing writes; those about what the job does are for one manager     *)
(* process, the case the run managed_jobs checks (with two,                  *)
(* managed_jobs_two_managers finds main steps that run twice).               *)
(* Each action has two lemmas: X_Effect says what it changes, X_Keeps that   *)
(* the invariant survives it.                                                *)
EXTENDS ManagedJobs, FiniteSetTheorems, TLAPS

(* A runner that has confirmed its claim. *)
Past == {"reap", "handoff", "plan", "gate", "spawn", "own", "wait",
         "result", "status", "scrub"}

(* A manager that acts on a status it has read. *)
Deciding == {"recheck", "clear", "spawn", "publish", "commit"}

(* Outcomes of a job that was never launched. *)
BeforeStart == {"cancelled_before_start", "expired_before_start"}

(* Outcomes that say the finally steps were reached. *)
Reached == {"succeeded", "failed", "cancelled", "recovered"}

(* No runner is at work, and the claim names no live one. *)
NobodyPast == \A r \in Runners : runner[r].pc \notin Past
DeadClaim == claim # None => ~Live(claim.run)

(* A runner at work holds the exact claim. *)
ClaimHeld ==
    \A r \in Runners :
        runner[r].pc \in Past => claim = [run |-> r, phase |-> "exact"]

(* While a manager decides, the job is as it read it and nobody is at work:  *)
(* what the locks and runnerProcessIsCurrent are for.                        *)
ManagerAlone ==
    \A m \in Managers :
        /\ mgr[m].pc \in Deciding =>
             /\ job = mgr[m].seen /\ job.st \in Active /\ result = None /\ NobodyPast
        /\ mgr[m].pc \in Deciding \ {"commit"} => DeadClaim
        /\ mgr[m].pc \in {"publish", "commit"} =>
             runner[mgr[m].run].rec = (mgr[m].mode = "recover")
        /\ mgr[m].pc = "commit" => claim = [run |-> mgr[m].run, phase |-> "provisional"]
        /\ mgr[m].pc \in Deciding \ {"recheck"} /\ mgr[m].mode # "recover" => starts = 0

(* A manager past its launch knows its runner; a recovery is within its      *)
(* limit.                                                                    *)
ManagerShape ==
    \A m \in Managers :
        /\ mgr[m].pc \in {"publish", "commit", "handoff"} => mgr[m].run \in Runners
        /\ mgr[m].pc = "clear" => mgr[m].seen.att < MaxRecoveries

(* What phase a runner can be in where. *)
ShapeOf(x) ==
    /\ x.pc \in {"status", "scrub"} => x.phase \in Terminal
    /\ x.pc \notin {"status", "scrub", "dead"} => x.phase \in {"main", "finally"}
    /\ x.pc \in {"unborn", "boot", "claim", "reap", "handoff", "plan", "gate"} => x.phase = "main"
    /\ x.pc \in {"reap", "handoff"} => x.rec
    /\ x.pc = "gate" => ~x.rec
    /\ x.pc \in {"spawn", "own", "wait"} /\ x.rec => x.phase = "finally"
RunnerShape == \A r \in Runners : ShapeOf(runner[r])

(* The claimant that can still start the main steps. *)
MayStart(r) ==
    /\ claim # None /\ claim.run = r /\ ~runner[r].rec
    /\ \/ runner[r].pc \in {"boot", "claim", "plan", "gate"}
       \/ runner[r].pc = "spawn" /\ runner[r].phase = "main"

(* Main steps start once: a claimant that may start them finds none started, *)
(* and a status that lets a job be launched anew (none, staged, queued) is   *)
(* left for good before they start.                                          *)
StartsOnce ==
    /\ starts <= 1
    /\ starts > 0 => job.st \notin {"none", "staged", "queued"}
    /\ job.waiting => job.st = "queued"
    /\ \A r \in Runners : MayStart(r) => starts = 0

(* The files agree with the live claimant: the job is active until it writes *)
(* the end, and the result is what it is about to say.                       *)
ClaimantWorks ==
    \A r \in Runners : claim # None /\ claim.run = r /\ Live(r) =>
        /\ runner[r].pc # "scrub" => job.st \in Active
        /\ runner[r].pc \notin {"status", "scrub"} => result = None
        /\ runner[r].pc \in {"status", "scrub"} =>
             /\ runner[r].phase \in Terminal \ BeforeStart
             /\ result = IF runner[r].err = "unsaved" THEN None ELSE runner[r].phase
        /\ runner[r].pc = "scrub" =>
             /\ job.st = runner[r].phase /\ job.pending
             /\ job.saved => runner[r].err # "unsaved"

(* A claim names a process that was spawned. *)
ClaimBorn ==
    /\ claim # None => runner[claim.run].pc # "unborn"
    /\ \A m \in Managers : mgr[m].pc \in {"publish", "commit"} =>
          runner[mgr[m].run].pc # "unborn"

(* An ended job that needs no more cleanup has no claim. *)
NoClaimLeft == job.st \in Terminal /\ ~job.pending => claim = None

(* A job that is staged or ended before its start was touched by nobody. *)
Untouched ==
    /\ job.st \in {"none", "staged"} \cup BeforeStart \/ result \in BeforeStart =>
         /\ starts = 0 /\ \A r \in Runners : runner[r].pc = "unborn"
         /\ \A m \in Managers : mgr[m].pc = "idle"
    /\ result \in BeforeStart => job.st \in {"staged"} \cup BeforeStart
    /\ job.st = "none" => result = None

(* A finally step was started after the last main step. *)
Cleaned == starts > 0 => cleaned

(* Whoever is about to say that the finally steps were reached, or has said  *)
(* so, reached them.                                                         *)
CleanupTold ==
    /\ job.st \in Terminal /\ job.saved => result = job.st
    /\ job.st \in Reached \/ result \in Reached => Cleaned
    /\ \A r \in Runners :
         /\ runner[r].pc \in {"own", "wait"} /\ runner[r].phase = "finally" => Cleaned
         /\ runner[r].pc = "result" /\ ~runner[r].dirty /\ runner[r].err # "fatal" => Cleaned
         /\ runner[r].pc \in {"status", "scrub"} /\ runner[r].phase \in Reached => Cleaned

(* A live child that was claimed is the one the claim file names. *)
ChildrenClaimed == \A r \in owned : proc[r] \in {"main", "finally"} => child = r

(* Types and shapes: inductive for any number of managers. *)
Shaped == TypeOK /\ ManagerShape /\ RunnerShape

(* The invariant: inductive with one manager. *)
IInv == /\ Shaped /\ ClaimHeld /\ ManagerAlone /\ StartsOnce /\ ClaimantWorks
        /\ ClaimBorn /\ NoClaimLeft /\ Untouched /\ CleanupTold /\ ChildrenClaimed

(* A status that is written has its fields. *)
LEMMA WriteTyped ==
    ASSUME NEW st \in {"none", "staged"} \cup Active \cup Terminal, NEW w \in BOOLEAN,
           NEW att \in 0 .. MaxRecoveries, NEW pid \in {0} \cup Runners
    PROVE  /\ Write(st, w, att, pid) \in Status
           /\ Write(st, w, att, pid).st = st /\ Write(st, w, att, pid).waiting = w
           /\ Write(st, w, att, pid).att = att /\ Write(st, w, att, pid).saved
           /\ ~Write(st, w, att, pid).pending
  BY DEF Write, NoJob, Status

(* A manager that has returned. *)
LEMMA IdleTyped == Idle \in ManagerState /\ Idle.pc = "idle"
<1>1. NoJob \in Status
  BY BoundsAssumption DEF NoJob, Status
<1> QED BY <1>1 DEF Idle, ManagerState

(* persistManagedJobTerminal by a manager: the status stays, or it is the    *)
(* outcome and says whether the result was saved and the artifacts are left. *)
LEMMA PersistEffect ==
    ASSUME TypeOK, NEW old \in Status, NEW outcome \in Terminal,
           PersistTerminal(old, outcome)
    PROVE  /\ job' \in Status /\ result' \in {result, outcome}
           /\ claim' \in {claim, None} /\ plan' \in BOOLEAN /\ cancel' \in BOOLEAN
           /\ faults' \in 0 .. MaxWriteFaults
           /\ \/ job' = job /\ claim' = claim
              \/ /\ job'.st = outcome /\ ~job'.waiting
                 /\ job'.saved => result' = outcome
                 /\ ~job'.pending => claim' = None
<1> USE BoundsAssumption
<1>0. PICK lost \in SUBSET {"result", "status", "artifacts"} :
        /\ faults + Cardinality(lost) <= MaxWriteFaults
        /\ faults' = faults + Cardinality(lost)
        /\ result' = IF "result" \in lost THEN result ELSE outcome
        /\ job' = IF "status" \in lost THEN job
                  ELSE [Write(outcome, FALSE, old.att, old.pid) EXCEPT
                   !.saved = "result" \notin lost, !.pending = "artifacts" \in lost]
        /\ IF lost \cap {"status", "artifacts"} = {}
           THEN Scrub
           ELSE UNCHANGED <<plan, claim, cancel>>
  BY DEF PersistTerminal
<1>1. Cardinality(lost) \in Nat
  <2>1. IsFiniteSet({"result", "status", "artifacts"})
    <3>1. IsFiniteSet({} \cup {"result"})
      BY FS_AddElement, FS_EmptySet
    <3>2. IsFiniteSet(({} \cup {"result"}) \cup {"status"})
      BY <3>1, FS_AddElement
    <3>3. IsFiniteSet((({} \cup {"result"}) \cup {"status"}) \cup {"artifacts"})
      BY <3>2, FS_AddElement
    <3>4. ((({} \cup {"result"}) \cup {"status"}) \cup {"artifacts"})
            = {"result", "status", "artifacts"}
      OBVIOUS
    <3> QED BY <3>3, <3>4
  <2> QED BY <2>1, FS_Subset, FS_CardinalityType
<1>2. faults' \in 0 .. MaxWriteFaults
  BY <1>0, <1>1 DEF TypeOK
<1>3. /\ claim' \in {claim, None} /\ plan' \in BOOLEAN /\ cancel' \in BOOLEAN
      /\ result' \in {result, outcome}
  BY <1>0 DEF TypeOK, Scrub
<1>4. CASE "status" \in lost
  <2>1. claim' = claim
    BY <1>0, <1>4
  <2> QED BY <1>0, <1>2, <1>3, <1>4, <2>1 DEF TypeOK
<1>5. CASE "status" \notin lost
  <2> DEFINE w == Write(outcome, FALSE, old.att, old.pid)
  <2>1. /\ w \in Status /\ w.st = outcome /\ ~w.waiting
    <3>1. old.att \in 0 .. MaxRecoveries /\ old.pid \in {0} \cup Runners
      BY DEF Status
    <3>2. outcome \in {"none", "staged"} \cup Active \cup Terminal /\ FALSE \in BOOLEAN
      OBVIOUS
    <3> QED BY <3>1, <3>2 DEF Write, NoJob, Status
  <2>2. job' = [w EXCEPT !.saved = "result" \notin lost, !.pending = "artifacts" \in lost]
    BY <1>0, <1>5
  <2> HIDE DEF w
  <2>3. job' \in Status /\ job'.st = outcome /\ ~job'.waiting
        /\ (job'.saved => "result" \notin lost) /\ (~job'.pending => "artifacts" \notin lost)
    <3> DEFINE s == "result" \notin lost
               p == "artifacts" \in lost
    <3>1. s \in BOOLEAN /\ p \in BOOLEAN
      OBVIOUS
    <3>2. (s => "result" \notin lost) /\ (~p => "artifacts" \notin lost)
      OBVIOUS
    <3>3. job' = [w EXCEPT !.saved = s, !.pending = p]
      BY <2>2
    <3> HIDE DEF s, p
    <3>4. job' \in Status /\ job'.st = outcome /\ ~job'.waiting /\ job'.saved = s /\ job'.pending = p
      BY <2>1, <3>1, <3>3 DEF Status
    <3> QED BY <3>2, <3>4
  <2>4. "artifacts" \notin lost => claim' = None
    BY <1>0, <1>5 DEF Scrub
  <2> QED BY <1>0, <1>2, <1>3, <2>3, <2>4
<1> QED BY <1>4, <1>5

(* scrubTerminalJobArtifacts keeps the outcome and removes the claim. *)
LEMMA ScrubEffect ==
    ASSUME NEW status \in Status, ScrubTerminalArtifacts(status)
    PROVE  /\ job' \in Status /\ claim' = None /\ plan' = FALSE /\ cancel' = FALSE
           /\ job'.st = status.st /\ job'.waiting = status.waiting
           /\ job'.saved = status.saved
           /\ child' = IF ChildReady THEN None ELSE child
<1>1. ChildReady \in BOOLEAN
  BY DEF ChildReady
<1> QED BY <1>1 DEF ScrubTerminalArtifacts, Scrub, Status

(* Runner r alone moves, to pc.                                              *)
Becomes(r, pc, phase, err, dirty) ==
    /\ mgr' = mgr /\ runner' \in [Runners -> RunnerState]
    /\ \A q \in Runners : q # r => runner'[q] = runner[q]
    /\ runner'[r].rec = runner[r].rec /\ runner'[r].pc = pc
    /\ runner'[r].phase = phase /\ runner'[r].err = err /\ runner'[r].dirty = dirty
Goes(r, pc) == Becomes(r, pc, runner[r].phase, runner[r].err, runner[r].dirty)

(* The record of an active job is replaced. *)
Writes(st, waiting) == job' \in Status /\ job'.st = st /\ job'.waiting = waiting

(* Runner r writes the end it has decided on. *)
SettlesAs(r, pending) ==
    /\ job' \in Status /\ job'.st = runner[r].phase /\ runner[r].phase \in Terminal
    /\ job'.waiting = FALSE /\ job'.pending = pending
    /\ job'.saved = (runner[r].err # "unsaved")

(* An update of one runner, field by field. *)
LEMMA Moves ==
    ASSUME TypeOK, NEW r \in Runners, mgr' = mgr,
           NEW pc \in Points, NEW phase \in Phases, NEW err \in Errors, NEW dirty \in BOOLEAN,
           \/ runner' = [runner EXCEPT ![r].pc = pc, ![r].phase = phase, ![r].err = err,
                                       ![r].dirty = dirty]
           \/ /\ runner' = [runner EXCEPT ![r].pc = pc, ![r].phase = phase, ![r].err = err]
              /\ dirty = runner[r].dirty
           \/ /\ runner' = [runner EXCEPT ![r].pc = pc, ![r].phase = phase]
              /\ err = runner[r].err /\ dirty = runner[r].dirty
           \/ /\ runner' = [runner EXCEPT ![r].pc = pc, ![r].err = err, ![r].dirty = dirty]
              /\ phase = runner[r].phase
           \/ /\ runner' = [runner EXCEPT ![r].pc = pc, ![r].err = err]
              /\ phase = runner[r].phase /\ dirty = runner[r].dirty
           \/ /\ runner' = [runner EXCEPT ![r].pc = pc, ![r].dirty = dirty]
              /\ phase = runner[r].phase /\ err = runner[r].err
           \/ /\ runner' = [runner EXCEPT ![r].pc = pc]
              /\ phase = runner[r].phase /\ err = runner[r].err /\ dirty = runner[r].dirty
    PROVE  Becomes(r, pc, phase, err, dirty)
<1>1. runner \in [Runners -> RunnerState]
  BY DEF TypeOK
<1> QED BY <1>1 DEF Becomes, RunnerState

(* The fields of a runner. *)
LEMMA RunnerTyped ==
    ASSUME TypeOK, NEW r \in Runners
    PROVE  /\ runner[r].pc \in Points /\ runner[r].phase \in Phases
           /\ runner[r].err \in Errors /\ runner[r].dirty \in BOOLEAN
           /\ runner[r].att \in 0 .. MaxRecoveries /\ runner[r].rec \in BOOLEAN
  BY DEF TypeOK, RunnerState

(* Step moves the program counter alone. *)
LEMMA StepGoes ==
    ASSUME TypeOK, NEW r \in Runners, mgr' = mgr, NEW pc \in Points, Step(r, pc)
    PROVE  Goes(r, pc)
  BY RunnerTyped, Moves DEF Step, Goes

(* A step of one runner keeps the shape if that runner does. *)
LEMMA ShapedAfter ==
    ASSUME Shaped, NEW r \in Runners, TypeOK', mgr' = mgr, ShapeOf(runner'[r]),
           \A q \in Runners : q # r => runner'[q] = runner[q]
    PROVE  Shaped'
  BY DEF Shaped, ManagerShape, RunnerShape

(* A runner's own record replaces the status. *)
LEMMA RunnerWritesEffect ==
    ASSUME TypeOK, NEW r \in Runners, NEW st \in Active, NEW w \in BOOLEAN,
           RunnerWrites(r, st, w)
    PROVE  Writes(st, w)
<1>1. runner[r].att \in 0 .. MaxRecoveries /\ r \in {0} \cup Runners
  BY DEF TypeOK, RunnerState
<1> QED BY <1>1 DEF RunnerWrites, Writes, Write, NoJob, Status

(* The way to the finally steps. *)
LEMMA ToFinallyEffect ==
    ASSUME TypeOK, NEW r \in Runners, mgr' = mgr,
           NEW err \in Errors,
           ToFinally(r, err)
    PROVE  Becomes(r, "spawn", "finally", err, runner[r].dirty) /\ Writes("cleaning", FALSE)
<1>1. Writes("cleaning", FALSE)
  BY RunnerWritesEffect DEF ToFinally, Active
<1>2. "spawn" \in Points /\ "finally" \in Phases
  BY DEF Points, Phases
<1> QED BY <1>1, <1>2, RunnerTyped, Moves DEF ToFinally

(* managedJobFinalStatus: an outcome that claims its finally steps had them. *)
LEMMA FinalStatusEffect ==
    ASSUME TypeOK, NEW r \in Runners
    PROVE  /\ FinalStatus(r) \in Terminal \ BeforeStart
           /\ FinalStatus(r) \in Reached => ~runner[r].dirty /\ runner[r].err # "fatal"
  BY DEF FinalStatus, Terminal, BeforeStart, Reached

(* The terminal status a runner writes. *)
LEMMA SettledStatusEffect ==
    ASSUME TypeOK, NEW r \in Runners, NEW p \in BOOLEAN, runner[r].phase \in Terminal
    PROVE  /\ SettledStatus(r, p) \in Status /\ SettledStatus(r, p).st = runner[r].phase
           /\ SettledStatus(r, p).waiting = FALSE /\ SettledStatus(r, p).pending = p
           /\ SettledStatus(r, p).saved = (runner[r].err # "unsaved")
<1>1. runner[r].att \in 0 .. MaxRecoveries /\ r \in {0} \cup Runners
  BY DEF TypeOK, RunnerState
<1>2. PICK s \in BOOLEAN : s = (runner[r].err # "unsaved")
  OBVIOUS
<1>3. SettledStatus(r, p) = [Write(runner[r].phase, FALSE, runner[r].att, r) EXCEPT
                                !.saved = s, !.pending = p]
  BY <1>2 DEF SettledStatus
<1>4. /\ SettledStatus(r, p) \in Status /\ SettledStatus(r, p).st = runner[r].phase
      /\ SettledStatus(r, p).waiting = FALSE /\ SettledStatus(r, p).pending = p
      /\ SettledStatus(r, p).saved = s
  BY <1>1, <1>3 DEF Write, NoJob, Status
<1> QED BY <1>2, <1>4

(* What each step of a runner changes. *)
LEMMA Boot_Effect ==
    ASSUME Shaped, NEW r \in Runners, Boot(r)
    PROVE  Shaped' /\ runner[r].pc = "boot" /\ (Goes(r, "claim") \/ Goes(r, "dead"))
           /\ UNCHANGED <<job, result, claim, child, proc, history>>
<1>0. TypeOK
  BY DEF Shaped
<1>1. runner[r].pc = "boot" /\ (Goes(r, "claim") \/ Goes(r, "dead"))
  <2>1. CASE job.st = Expected(r)
    BY <1>0, <2>1 DEF Boot, Goes, Becomes, TypeOK, RunnerState, Status, Points
  <2>2. CASE job.st # Expected(r)
    BY <1>0, <2>2, StepGoes DEF Boot, Exit, Points
  <2> QED BY <2>1, <2>2
<1>2. UNCHANGED <<job, result, claim, child, proc, history>>
      /\ UNCHANGED <<plan, recovery, transition, cancel, upstream, crashes, faults>>
  BY DEF Boot, files
<1>d. mgr' = mgr /\ runner' \in [Runners -> RunnerState]
  BY <1>1 DEF Becomes, Goes
<1>a. TypeOK'
  BY <1>d, <1>0, <1>1, <1>2, BoundsAssumption DEF TypeOK, history
<1>b. ShapeOf(runner'[r])
  <2>1. ShapeOf(runner[r])
    BY DEF Shaped, RunnerShape
  <2> QED BY <2>1, <1>0, RunnerTyped, <1>1, <1>2 DEF ShapeOf, Becomes, Goes
<1>c. \A q \in Runners : q # r => runner'[q] = runner[q]
  BY <1>1 DEF Becomes, Goes
<1> QED BY <1>1, <1>2, <1>a, <1>b, <1>c, <1>d, ShapedAfter

(* Confirm: the claim becomes exact, or the runner exits. *)
LEMMA Confirm_Effect ==
    ASSUME Shaped, NEW r \in Runners, Confirm(r)
    PROVE  Shaped' /\ runner[r].pc = "claim" /\ claim # None
           /\ UNCHANGED <<job, result, proc, history>>
           /\ \/ Goes(r, "dead") /\ claim.run # r /\ UNCHANGED <<claim, child>>
              \/ /\ claim = [run |-> r, phase |-> "committed"]
                 /\ claim' = [run |-> r, phase |-> "exact"] /\ claim' \in Claims
                 /\ \/ Goes(r, "reap") /\ runner[r].rec /\ child' = child
                    \/ Goes(r, "plan") /\ ~runner[r].rec /\ ChildReady /\ child' = None
                    \/ Goes(r, "dead") /\ child' = child
<1>0. TypeOK
  BY DEF Shaped
<1>2. /\ runner[r].pc = "claim" /\ mgr' = mgr /\ claim # None
      /\ UNCHANGED <<job, result, proc, history>>
      /\ UNCHANGED <<plan, recovery, transition, cancel, upstream, crashes, faults>>
  BY DEF Confirm
<1>3. /\ [run |-> r, phase |-> "exact"] \in Claims
      /\ claim = [run |-> r, phase |-> "committed"]
            => [claim EXCEPT !.phase = "exact"] = [run |-> r, phase |-> "exact"]
  BY DEF Claims
<1>1. \/ Goes(r, "dead") /\ claim.run # r /\ UNCHANGED <<claim, child>>
      \/ /\ claim = [run |-> r, phase |-> "committed"]
         /\ claim' = [run |-> r, phase |-> "exact"] /\ claim' \in Claims
         /\ \/ Goes(r, "reap") /\ runner[r].rec /\ child' = child
            \/ Goes(r, "plan") /\ ~runner[r].rec /\ ChildReady /\ child' = None
            \/ Goes(r, "dead") /\ child' = child
  BY <1>0, <1>2, <1>3, StepGoes DEF Confirm, Exit, Points
<1>d. mgr' = mgr /\ runner' \in [Runners -> RunnerState]
  BY <1>1 DEF Becomes, Goes
<1>a. TypeOK'
  BY <1>d, <1>0, <1>1, <1>2, BoundsAssumption DEF TypeOK, history
<1>b. ShapeOf(runner'[r])
  <2>1. ShapeOf(runner[r])
    BY DEF Shaped, RunnerShape
  <2> QED BY <2>1, <1>0, RunnerTyped, <1>1, <1>2 DEF ShapeOf, Becomes, Goes
<1>c. \A q \in Runners : q # r => runner'[q] = runner[q]
  BY <1>1 DEF Becomes, Goes
<1> QED BY <1>1, <1>2, <1>a, <1>b, <1>c, <1>d, ShapedAfter

(* GiveUp: a runner that waits in vain exits. *)
LEMMA GiveUp_Effect ==
    ASSUME Shaped, NEW r \in Runners, GiveUp(r)
    PROVE  Shaped' /\ Goes(r, "dead")
           /\ UNCHANGED <<job, result, claim, child, proc, history>>
<1>0. TypeOK
  BY DEF Shaped
<1>1. Goes(r, "dead")
  BY <1>0, StepGoes DEF GiveUp, Exit, Points
<1>2. UNCHANGED <<job, result, claim, child, proc, history>>
      /\ UNCHANGED <<plan, recovery, transition, cancel, upstream, faults>>
      /\ crashes' \in 0 .. MaxCrashes
  BY <1>0, BoundsAssumption DEF GiveUp, files, TypeOK
<1>d. mgr' = mgr /\ runner' \in [Runners -> RunnerState]
  BY <1>1 DEF Becomes, Goes
<1>a. TypeOK'
  BY <1>d, <1>0, <1>1, <1>2, BoundsAssumption DEF TypeOK, history
<1>b. ShapeOf(runner'[r])
  <2>1. ShapeOf(runner[r])
    BY DEF Shaped, RunnerShape
  <2> QED BY <2>1, <1>0, RunnerTyped, <1>1, <1>2 DEF ShapeOf, Becomes, Goes
<1>c. \A q \in Runners : q # r => runner'[q] = runner[q]
  BY <1>1 DEF Becomes, Goes
<1> QED BY <1>1, <1>2, <1>a, <1>b, <1>c, <1>d, ShapedAfter

(* RunnerCrash: a runner dies. *)
LEMMA RunnerCrash_Effect ==
    ASSUME Shaped, NEW r \in Runners, RunnerCrash(r)
    PROVE  Shaped' /\ Goes(r, "dead")
           /\ UNCHANGED <<job, result, claim, child, proc, history>>
<1>0. TypeOK
  BY DEF Shaped
<1>1. Goes(r, "dead")
  BY <1>0, StepGoes DEF RunnerCrash, Exit, Points
<1>2. UNCHANGED <<job, result, claim, child, proc, history>>
      /\ UNCHANGED <<plan, recovery, transition, cancel, upstream, faults>>
      /\ crashes' \in 0 .. MaxCrashes
  BY <1>0, BoundsAssumption DEF RunnerCrash, files, TypeOK
<1>d. mgr' = mgr /\ runner' \in [Runners -> RunnerState]
  BY <1>1 DEF Becomes, Goes
<1>a. TypeOK'
  BY <1>d, <1>0, <1>1, <1>2, BoundsAssumption DEF TypeOK, history
<1>b. ShapeOf(runner'[r])
  <2>1. ShapeOf(runner[r])
    BY DEF Shaped, RunnerShape
  <2> QED BY <2>1, <1>0, RunnerTyped, <1>1, <1>2 DEF ShapeOf, Becomes, Goes
<1>c. \A q \in Runners : q # r => runner'[q] = runner[q]
  BY <1>1 DEF Becomes, Goes
<1> QED BY <1>1, <1>2, <1>a, <1>b, <1>c, <1>d, ShapedAfter

(* Reap: the predecessor's child is stopped. *)
LEMMA Reap_Effect ==
    ASSUME Shaped, NEW r \in Runners, Reap(r)
    PROVE  Shaped' /\ runner[r].pc = "reap" /\ Goes(r, "handoff")
           /\ UNCHANGED <<job, result, claim, history>>
           /\ \A q \in Runners : proc'[q] \in {"main", "finally"} => proc'[q] = proc[q] /\ child # q
<1>0. TypeOK
  BY DEF Shaped
<1>1. runner[r].pc = "reap" /\ Goes(r, "handoff")
  BY <1>0, StepGoes DEF Reap, Points
<1>3. UNCHANGED <<job, plan, result, claim, recovery, transition, cancel, upstream, history,
                  crashes, faults>> /\ child' = None
  BY DEF Reap
<1>4. /\ proc' \in [Runners -> {"none", "main", "finally", "exited"}]
      /\ \A q \in Runners : proc'[q] \in {"main", "finally"} => proc'[q] = proc[q] /\ child # q
  <2>1. CASE ChildReady
    BY <1>0, <2>1 DEF Reap, ChildReady, TypeOK
  <2>2. CASE ~ChildReady
    <3>1. child \in Runners
      BY <2>2 DEF ChildReady
    <3> QED BY <1>0, <2>2, <3>1 DEF Reap, TypeOK
  <2> QED BY <2>1, <2>2
<1>2. UNCHANGED <<job, result, claim, history>>
      /\ \A q \in Runners : proc'[q] \in {"main", "finally"} => proc'[q] = proc[q] /\ child # q
  BY <1>3, <1>4
<1>d. mgr' = mgr /\ runner' \in [Runners -> RunnerState]
  BY <1>1 DEF Becomes, Goes
<1>a. TypeOK'
  BY <1>d, <1>0, <1>1, <1>2, BoundsAssumption, <1>3, <1>4 DEF TypeOK, history
<1>b. ShapeOf(runner'[r])
  <2>1. ShapeOf(runner[r])
    BY DEF Shaped, RunnerShape
  <2> QED BY <2>1, <1>0, RunnerTyped, <1>1, <1>2 DEF ShapeOf, Becomes, Goes
<1>c. \A q \in Runners : q # r => runner'[q] = runner[q]
  BY <1>1 DEF Becomes, Goes
<1> QED BY <1>1, <1>2, <1>a, <1>b, <1>c, <1>d, ShapedAfter

(* TakeOver: the recovery lock is removed. *)
LEMMA TakeOver_Effect ==
    ASSUME Shaped, NEW r \in Runners, TakeOver(r)
    PROVE  Shaped' /\ runner[r].pc = "handoff" /\ Goes(r, "plan")
           /\ UNCHANGED <<job, result, claim, child, proc, history>>
<1>0. TypeOK
  BY DEF Shaped
<1>1. runner[r].pc = "handoff" /\ Goes(r, "plan")
  BY <1>0, StepGoes DEF TakeOver, Points
<1>2. UNCHANGED <<job, result, claim, child, proc, history>>
      /\ UNCHANGED <<plan, transition, cancel, upstream, crashes, faults>> /\ recovery' = None
  BY DEF TakeOver
<1>d. mgr' = mgr /\ runner' \in [Runners -> RunnerState]
  BY <1>1 DEF Becomes, Goes
<1>a. TypeOK'
  BY <1>d, <1>0, <1>1, <1>2, BoundsAssumption DEF TypeOK, history
<1>b. ShapeOf(runner'[r])
  <2>1. ShapeOf(runner[r])
    BY DEF Shaped, RunnerShape
  <2> QED BY <2>1, <1>0, RunnerTyped, <1>1, <1>2 DEF ShapeOf, Becomes, Goes
<1>c. \A q \in Runners : q # r => runner'[q] = runner[q]
  BY <1>1 DEF Becomes, Goes
<1> QED BY <1>1, <1>2, <1>a, <1>b, <1>c, <1>d, ShapedAfter

(* Begin: the first status of a runner. *)
LEMMA Begin_Effect ==
    ASSUME Shaped, NEW r \in Runners, Begin(r)
    PROVE  Shaped' /\ runner[r].pc = "plan"
           /\ UNCHANGED <<result, claim, child, proc, history>>
           /\ \/ /\ Becomes(r, "spawn", "finally", runner[r].err, runner[r].dirty)
                 /\ Writes("cleaning", FALSE)
              \/ Goes(r, "spawn") /\ ~runner[r].rec /\ Writes("running", FALSE)
              \/ Goes(r, "gate") /\ ~runner[r].rec /\ Writes("queued", TRUE)
              \/ /\ Becomes(r, "result", runner[r].phase, "fatal", runner[r].dirty)
                 /\ job' = job
              \/ Goes(r, "dead") /\ job' = job
<1>0. TypeOK
  BY DEF Shaped
<1>2. /\ runner[r].pc = "plan" /\ mgr' = mgr
      /\ UNCHANGED <<result, claim, child, proc, history>>
      /\ UNCHANGED <<plan, recovery, transition, cancel, upstream, crashes, faults>>
  BY DEF Begin
<1>3. /\ "spawn" \in Points /\ "gate" \in Points /\ "result" \in Points /\ "dead" \in Points
      /\ "finally" \in Phases /\ "fatal" \in Errors
      /\ "cleaning" \in Active /\ "running" \in Active /\ "queued" \in Active
  BY DEF Points, Phases, Errors, Active
<1>1. /\ runner[r].pc = "plan"
      /\ \/ /\ Becomes(r, "spawn", "finally", runner[r].err, runner[r].dirty)
            /\ Writes("cleaning", FALSE)
         \/ Goes(r, "spawn") /\ ~runner[r].rec /\ Writes("running", FALSE)
         \/ Goes(r, "gate") /\ ~runner[r].rec /\ Writes("queued", TRUE)
         \/ Becomes(r, "result", runner[r].phase, "fatal", runner[r].dirty) /\ job' = job
         \/ Goes(r, "dead") /\ job' = job
  <2>1. CASE RunnerWrites(r, "cleaning", FALSE)
             /\ runner' = [runner EXCEPT ![r].pc = "spawn", ![r].phase = "finally"]
    BY <1>0, <1>2, <1>3, <2>1, RunnerWritesEffect, RunnerTyped, Moves
  <2>2. CASE ~runner[r].rec /\ RunnerWrites(r, "running", FALSE) /\ Step(r, "spawn")
    BY <1>0, <1>2, <1>3, <2>2, RunnerWritesEffect, StepGoes
  <2>3. CASE ~runner[r].rec /\ RunnerWrites(r, "queued", TRUE) /\ Step(r, "gate")
    BY <1>0, <1>2, <1>3, <2>3, RunnerWritesEffect, StepGoes
  <2>4. CASE job' = job /\ runner' = [runner EXCEPT ![r].pc = "result", ![r].err = "fatal"]
    BY <1>0, <1>2, <1>3, <2>4, RunnerTyped, Moves
  <2>5. CASE Exit(r) /\ job' = job
    BY <1>0, <1>2, <1>3, <2>5, StepGoes DEF Exit
  <2> QED BY <1>2, <2>1, <2>2, <2>3, <2>4, <2>5 DEF Begin
<1>d. mgr' = mgr /\ runner' \in [Runners -> RunnerState]
  BY <1>1 DEF Becomes, Goes
<1>a. TypeOK'
  BY <1>d, <1>0, <1>1, <1>2, BoundsAssumption DEF TypeOK, Writes, history
<1>b. ShapeOf(runner'[r])
  <2>1. ShapeOf(runner[r])
    BY DEF Shaped, RunnerShape
  <2> QED BY <2>1, <1>0, RunnerTyped, <1>1, <1>2 DEF ShapeOf, Becomes, Goes
<1>c. \A q \in Runners : q # r => runner'[q] = runner[q]
  BY <1>1 DEF Becomes, Goes
<1> QED BY <1>1, <1>2, <1>a, <1>b, <1>c, <1>d, ShapedAfter

(* Gate: the wait for the dependencies ends. *)
LEMMA Gate_Effect ==
    ASSUME Shaped, NEW r \in Runners, Gate(r)
    PROVE  Shaped' /\ runner[r].pc = "gate"
           /\ UNCHANGED <<result, claim, child, proc, history>>
           /\ \/ /\ \E err \in {"cancelled", "failed"} :
                       Becomes(r, "spawn", "finally", err, runner[r].dirty)
                 /\ Writes("cleaning", FALSE)
              \/ Goes(r, "spawn") /\ ~runner[r].rec /\ Writes("running", FALSE)
<1>0. TypeOK
  BY DEF Shaped
<1>2. /\ runner[r].pc = "gate" /\ mgr' = mgr /\ ~runner[r].rec
      /\ UNCHANGED <<result, claim, child, proc, history>>
      /\ UNCHANGED <<plan, recovery, transition, cancel, upstream, crashes, faults>>
  BY DEF Gate, Shaped, RunnerShape, ShapeOf
<1>3. /\ "spawn" \in Points /\ "cancelled" \in Errors /\ "failed" \in Errors
      /\ "running" \in Active
  BY DEF Points, Errors, Active
<1>1. /\ runner[r].pc = "gate"
      /\ \/ /\ \E err \in {"cancelled", "failed"} :
                  Becomes(r, "spawn", "finally", err, runner[r].dirty)
            /\ Writes("cleaning", FALSE)
         \/ Goes(r, "spawn") /\ ~runner[r].rec /\ Writes("running", FALSE)
  BY <1>0, <1>2, <1>3, RunnerWritesEffect, StepGoes, ToFinallyEffect DEF Gate
<1>d. mgr' = mgr /\ runner' \in [Runners -> RunnerState]
  BY <1>1 DEF Becomes, Goes
<1>a. TypeOK'
  BY <1>d, <1>0, <1>1, <1>2, BoundsAssumption DEF TypeOK, Writes, history
<1>b. ShapeOf(runner'[r])
  <2>1. ShapeOf(runner[r])
    BY DEF Shaped, RunnerShape
  <2> QED BY <2>1, <1>0, RunnerTyped, <1>1, <1>2 DEF ShapeOf, Becomes, Goes
<1>c. \A q \in Runners : q # r => runner'[q] = runner[q]
  BY <1>1 DEF Becomes, Goes
<1> QED BY <1>1, <1>2, <1>a, <1>b, <1>c, <1>d, ShapedAfter

(* SpawnStep: a step is started, or given up. *)
LEMMA SpawnStep_Effect ==
    ASSUME Shaped, NEW r \in Runners, SpawnStep(r)
    PROVE  Shaped' /\ runner[r].pc = "spawn" /\ UNCHANGED <<result, claim, child>>
           /\ \/ /\ \E err \in {"cancelled", "failed"} :
                       Becomes(r, "spawn", "finally", err, runner[r].dirty)
                 /\ Writes("cleaning", FALSE) /\ UNCHANGED <<proc, history>>
              \/ /\ Becomes(r, "result", runner[r].phase, runner[r].err, TRUE)
                 /\ UNCHANGED <<job, proc, history>>
              \/ /\ Goes(r, "own") /\ owned' = owned \ {r}
                 /\ proc' = [proc EXCEPT ![r] = runner[r].phase]
                 /\ \/ /\ runner[r].phase = "main" /\ ~runner[r].rec
                       /\ Writes("running", FALSE) /\ starts' = starts + 1 /\ ~cleaned'
                    \/ /\ runner[r].phase = "finally"
                       /\ Writes("cleaning", FALSE) /\ starts' = starts /\ cleaned'
<1>0. TypeOK
  BY DEF Shaped
<1>3. /\ runner[r].pc = "spawn" /\ mgr' = mgr
      /\ UNCHANGED <<result, claim, child>>
      /\ UNCHANGED <<plan, recovery, transition, cancel, upstream, crashes, faults>>
      /\ runner[r].phase = "finally" \/ (runner[r].phase = "main" /\ ~runner[r].rec)
  BY DEF SpawnStep, Shaped, RunnerShape, ShapeOf
<1>4. /\ "spawn" \in Points /\ "own" \in Points /\ "result" \in Points
      /\ "cancelled" \in Errors /\ "failed" \in Errors
      /\ "running" \in Active /\ "cleaning" \in Active
  BY DEF Points, Errors, Active
<1>1. /\ runner[r].pc = "spawn"
      /\ \/ /\ \E err \in {"cancelled", "failed"} :
                  Becomes(r, "spawn", "finally", err, runner[r].dirty)
            /\ Writes("cleaning", FALSE) /\ UNCHANGED <<proc, history>>
         \/ /\ Becomes(r, "result", runner[r].phase, runner[r].err, TRUE)
            /\ UNCHANGED <<job, proc, history>>
         \/ /\ Goes(r, "own") /\ owned' = owned \ {r}
            /\ proc' = [proc EXCEPT ![r] = runner[r].phase]
            /\ \/ /\ runner[r].phase = "main" /\ ~runner[r].rec
                  /\ Writes("running", FALSE) /\ starts' = starts + 1 /\ ~cleaned'
               \/ /\ runner[r].phase = "finally"
                  /\ Writes("cleaning", FALSE) /\ starts' = starts /\ cleaned'
  <2>1. CASE (ToFinally(r, "cancelled") \/ ToFinally(r, "failed"))
             /\ UNCHANGED <<proc, history>>
    BY <1>0, <1>3, <1>4, <2>1, ToFinallyEffect
  <2>2. CASE runner' = [runner EXCEPT ![r].pc = "result", ![r].dirty = TRUE]
             /\ UNCHANGED <<job, proc, history>>
    BY <1>0, <1>3, <1>4, <2>2, RunnerTyped, Moves
  <2>3. CASE /\ RunnerWrites(r, IF runner[r].phase = "main" THEN "running" ELSE "cleaning", FALSE)
             /\ proc' = [proc EXCEPT ![r] = runner[r].phase]
             /\ starts' = IF runner[r].phase = "main" THEN starts + 1 ELSE starts
             /\ cleaned' = (runner[r].phase = "finally")
             /\ owned' = owned \ {r}
             /\ Step(r, "own")
    <3>1. CASE runner[r].phase = "main" /\ ~runner[r].rec
      BY <1>0, <1>3, <1>4, <2>3, <3>1, RunnerWritesEffect, StepGoes
    <3>2. CASE runner[r].phase = "finally"
      BY <1>0, <1>3, <1>4, <2>3, <3>2, RunnerWritesEffect, StepGoes
    <3> QED BY <1>3, <3>1, <3>2
  <2> QED BY <1>3, <2>1, <2>2, <2>3 DEF SpawnStep
<1>2. UNCHANGED <<result, claim, child>>
  BY <1>3
<1>5. /\ job' \in Status /\ proc' \in [Runners -> {"none", "main", "finally", "exited"}]
      /\ owned' \subseteq Runners /\ starts' \in Nat /\ cleaned' \in BOOLEAN
  <2>1. cleaned' \in BOOLEAN
    BY <1>0 DEF SpawnStep, TypeOK, history
  <2>2. job' \in Status
    BY <1>0, <1>1 DEF Writes, TypeOK
  <2>3. starts' \in Nat
    <3>1. starts' = starts \/ starts' = starts + 1
      BY <1>1 DEF history
    <3> QED BY <1>0, <3>1 DEF TypeOK
  <2>4. owned' \subseteq Runners
    BY <1>0, <1>1 DEF TypeOK, history
  <2>5. runner[r].phase \in {"main", "finally"}
    BY <1>3
  <2>6. proc' \in [Runners -> {"none", "main", "finally", "exited"}]
    BY <1>0, <1>1, <2>5 DEF TypeOK, history
  <2> QED BY <2>1, <2>2, <2>3, <2>4, <2>6
<1>d. mgr' = mgr /\ runner' \in [Runners -> RunnerState]
  BY <1>1 DEF Becomes, Goes
<1>a. TypeOK'
  BY <1>d, <1>0, <1>3, <1>5 DEF TypeOK, history
<1>b. ShapeOf(runner'[r])
  <2>1. ShapeOf(runner[r])
    BY DEF Shaped, RunnerShape
  <2> QED BY <2>1, <1>0, RunnerTyped, <1>1, <1>2 DEF ShapeOf, Becomes, Goes
<1>c. \A q \in Runners : q # r => runner'[q] = runner[q]
  BY <1>1 DEF Becomes, Goes
<1> QED BY <1>1, <1>2, <1>a, <1>b, <1>c, <1>d, ShapedAfter

(* OwnChild: the child is claimed, or terminated. *)
LEMMA OwnChild_Effect ==
    ASSUME Shaped, NEW r \in Runners, OwnChild(r)
    PROVE  Shaped' /\ runner[r].pc = "own"
           /\ UNCHANGED <<job, result, claim, starts, cleaned>>
           /\ \/ /\ ChildReady /\ Goes(r, "wait")
                 /\ child' = r /\ owned' = owned \cup {r} /\ proc' = proc
              \/ /\ \E err \in Errors :
                       Becomes(r, "wait", runner[r].phase, err, runner[r].phase = "finally")
                 /\ proc' = [proc EXCEPT ![r] = "exited"] /\ UNCHANGED <<child, owned>>
<1>0. TypeOK
  BY DEF Shaped
<1>2. /\ runner[r].pc = "own" /\ mgr' = mgr
      /\ UNCHANGED <<job, result, claim, starts, cleaned>>
      /\ UNCHANGED <<plan, recovery, transition, cancel, upstream, crashes, faults>>
  BY DEF OwnChild
<1>3. "wait" \in Points /\ "failed" \in Errors
  BY DEF Points, Errors
<1>1. /\ runner[r].pc = "own"
      /\ \/ /\ ChildReady /\ Goes(r, "wait")
            /\ child' = r /\ owned' = owned \cup {r} /\ proc' = proc
         \/ /\ \E err \in Errors :
                  Becomes(r, "wait", runner[r].phase, err, runner[r].phase = "finally")
            /\ proc' = [proc EXCEPT ![r] = "exited"] /\ UNCHANGED <<child, owned>>
  <2>1. CASE ChildReady /\ child' = r /\ owned' = owned \cup {r} /\ Step(r, "wait")
             /\ UNCHANGED proc
    BY <1>0, <1>2, <1>3, <2>1, StepGoes
  <2>2. CASE /\ runner' = [runner EXCEPT ![r].pc = "wait",
                  ![r].err = IF runner[r].phase = "main" THEN "failed" ELSE @,
                  ![r].dirty = runner[r].phase = "finally"]
             /\ proc' = [proc EXCEPT ![r] = "exited"] /\ UNCHANGED <<child, owned>>
    <3> DEFINE err == IF runner[r].phase = "main" THEN "failed" ELSE runner[r].err
               dirty == runner[r].phase = "finally"
    <3>1. err \in Errors /\ dirty \in BOOLEAN
      BY <1>0, <1>3, RunnerTyped
    <3>2. runner' = [runner EXCEPT ![r].pc = "wait", ![r].err = err, ![r].dirty = dirty]
      BY <1>0, <2>2 DEF TypeOK
    <3>3. Becomes(r, "wait", runner[r].phase, err, dirty)
      <4> HIDE DEF err, dirty
      <4> QED BY <1>0, <1>2, <1>3, <3>1, <3>2, RunnerTyped, Moves
    <3> QED BY <1>2, <2>2, <3>1, <3>3
  <2> QED BY <1>2, <2>1, <2>2 DEF OwnChild
<1>4. /\ proc' \in [Runners -> {"none", "main", "finally", "exited"}]
      /\ child' \in {None} \cup Runners /\ owned' \subseteq Runners
  BY <1>0, <1>1 DEF TypeOK
<1>d. mgr' = mgr /\ runner' \in [Runners -> RunnerState]
  BY <1>1 DEF Becomes, Goes
<1>a. TypeOK'
  BY <1>d, <1>0, <1>2, <1>4 DEF TypeOK, history
<1>b. ShapeOf(runner'[r])
  <2>1. ShapeOf(runner[r])
    BY DEF Shaped, RunnerShape
  <2> QED BY <2>1, <1>0, RunnerTyped, <1>1, <1>2 DEF ShapeOf, Becomes, Goes
<1>c. \A q \in Runners : q # r => runner'[q] = runner[q]
  BY <1>1 DEF Becomes, Goes
<1> QED BY <1>1, <1>2, <1>a, <1>b, <1>c, <1>d, ShapedAfter

(* Settle: a step is over. *)
LEMMA Settle_Effect ==
    ASSUME Shaped, NEW r \in Runners, Settle(r)
    PROVE  Shaped' /\ runner[r].pc = "wait" /\ proc[r] = "exited"
           /\ UNCHANGED <<result, claim, proc, history>>
           /\ child' = (IF child = r THEN None ELSE child)
           /\ \/ /\ runner[r].phase = "main"
                 /\ \E err \in Errors : Becomes(r, "spawn", "finally", err, runner[r].dirty)
                 /\ Writes("cleaning", FALSE)
              \/ /\ runner[r].phase = "finally" /\ job' = job
                 /\ \E dirty \in {runner[r].dirty, TRUE} :
                        Becomes(r, "result", runner[r].phase, runner[r].err, dirty)
<1>0. TypeOK
  BY DEF Shaped
<1>2. /\ runner[r].pc = "wait" /\ proc[r] = "exited" /\ mgr' = mgr
      /\ UNCHANGED <<result, claim, proc, history>>
      /\ child' = (IF child = r THEN None ELSE child)
      /\ UNCHANGED <<plan, recovery, transition, cancel, upstream, crashes, faults>>
  BY DEF Settle
<1>3. /\ "spawn" \in Points /\ "result" \in Points
      /\ "none" \in Errors /\ "cancelled" \in Errors /\ "failed" \in Errors
  BY DEF Points, Errors
<1>1. /\ runner[r].pc = "wait"
      /\ \/ /\ runner[r].phase = "main"
            /\ \E err \in Errors : Becomes(r, "spawn", "finally", err, runner[r].dirty)
            /\ Writes("cleaning", FALSE)
         \/ /\ runner[r].phase = "finally" /\ job' = job
            /\ \E dirty \in {runner[r].dirty, TRUE} :
                   Becomes(r, "result", runner[r].phase, runner[r].err, dirty)
  <2>1. CASE /\ runner[r].phase = "main"
             /\ \E err \in {"none", "failed", "cancelled"} :
                    ToFinally(r, IF runner[r].err # "none" THEN runner[r].err ELSE err)
    <3> PICK err \in {"none", "failed", "cancelled"} :
                ToFinally(r, IF runner[r].err # "none" THEN runner[r].err ELSE err)
      BY <2>1
    <3> DEFINE e == IF runner[r].err # "none" THEN runner[r].err ELSE err
    <3>1. e \in Errors /\ ToFinally(r, e)
      BY <1>0, <1>3, RunnerTyped
    <3> HIDE DEF e
    <3> QED BY <1>0, <1>2, <2>1, <3>1, ToFinallyEffect
  <2>2. CASE /\ runner[r].phase = "finally" /\ job' = job
             /\ \E dirty \in {runner[r].dirty, TRUE} :
                    runner' = [runner EXCEPT ![r].pc = "result", ![r].dirty = dirty]
    <3> PICK dirty \in {runner[r].dirty, TRUE} :
                    runner' = [runner EXCEPT ![r].pc = "result", ![r].dirty = dirty]
      BY <2>2
    <3>1. dirty \in BOOLEAN
      BY <1>0, RunnerTyped
    <3> QED BY <1>0, <1>2, <1>3, <2>2, <3>1, RunnerTyped, Moves
  <2> QED BY <1>2, <2>1, <2>2 DEF Settle
<1>4. child' \in {None} \cup Runners /\ job' \in Status
  BY <1>0, <1>1, <1>2 DEF TypeOK, Writes
<1>d. mgr' = mgr /\ runner' \in [Runners -> RunnerState]
  BY <1>1 DEF Becomes, Goes
<1>a. TypeOK'
  BY <1>d, <1>0, <1>2, <1>4 DEF TypeOK, history
<1>b. ShapeOf(runner'[r])
  <2>1. ShapeOf(runner[r])
    BY DEF Shaped, RunnerShape
  <2> QED BY <2>1, <1>0, RunnerTyped, <1>1, <1>2 DEF ShapeOf, Becomes, Goes
<1>c. \A q \in Runners : q # r => runner'[q] = runner[q]
  BY <1>1 DEF Becomes, Goes
<1> QED BY <1>1, <1>2, <1>a, <1>b, <1>c, <1>d, ShapedAfter

(* WriteResult: the result, saved or not. *)
LEMMA WriteResult_Effect ==
    ASSUME Shaped, NEW r \in Runners, WriteResult(r)
    PROVE  Shaped' /\ runner[r].pc = "result"
           /\ UNCHANGED <<job, claim, child, proc, history>>
           /\ FinalStatus(r) \in Terminal
           /\ \/ /\ Becomes(r, "status", FinalStatus(r), "none", FALSE)
                 /\ result' = FinalStatus(r)
              \/ /\ Becomes(r, "status", FinalStatus(r), "unsaved", FALSE)
                 /\ result' = result
<1>0. TypeOK
  BY DEF Shaped
<1>2. /\ runner[r].pc = "result" /\ mgr' = mgr
      /\ UNCHANGED <<job, claim, child, proc, history>>
      /\ UNCHANGED <<plan, recovery, transition, cancel, upstream, crashes>>
  BY DEF WriteResult
<1>3. /\ "status" \in Points /\ "none" \in Errors /\ "unsaved" \in Errors
      /\ FinalStatus(r) \in Terminal /\ FinalStatus(r) \in Phases
  BY <1>0, FinalStatusEffect DEF Points, Errors, Phases
<1>1. /\ runner[r].pc = "result" /\ FinalStatus(r) \in Terminal
      /\ \/ /\ Becomes(r, "status", FinalStatus(r), "none", FALSE)
            /\ result' = FinalStatus(r)
         \/ /\ Becomes(r, "status", FinalStatus(r), "unsaved", FALSE)
            /\ result' = result
  <2>1. CASE runner' = [runner EXCEPT ![r].pc = "status", ![r].phase = FinalStatus(r),
                                      ![r].err = "none", ![r].dirty = FALSE]
             /\ result' = FinalStatus(r)
    BY <1>0, <1>2, <1>3, <2>1, Moves
  <2>2. CASE runner' = [runner EXCEPT ![r].pc = "status", ![r].phase = FinalStatus(r),
                                      ![r].err = "unsaved", ![r].dirty = FALSE]
             /\ result' = result
    BY <1>0, <1>2, <1>3, <2>2, Moves
  <2> QED BY <1>2, <1>3, <2>1, <2>2 DEF WriteResult
<1>4. faults' \in 0 .. MaxWriteFaults /\ result' \in {None} \cup Terminal
  BY <1>0, <1>1, BoundsAssumption DEF WriteResult, TypeOK
<1>d. mgr' = mgr /\ runner' \in [Runners -> RunnerState]
  BY <1>1 DEF Becomes, Goes
<1>a. TypeOK'
  BY <1>d, <1>0, <1>2, <1>4 DEF TypeOK, history
<1>b. ShapeOf(runner'[r])
  <2>1. ShapeOf(runner[r])
    BY DEF Shaped, RunnerShape
  <2> QED BY <2>1, <1>0, RunnerTyped, <1>1, <1>2 DEF ShapeOf, Becomes, Goes
<1>c. \A q \in Runners : q # r => runner'[q] = runner[q]
  BY <1>1 DEF Becomes, Goes
<1> QED BY <1>1, <1>2, <1>a, <1>b, <1>c, <1>d, ShapedAfter

(* WriteStatus: the terminal status, written or not. *)
LEMMA WriteStatus_Effect ==
    ASSUME Shaped, NEW r \in Runners, WriteStatus(r)
    PROVE  Shaped' /\ runner[r].pc = "status"
           /\ UNCHANGED <<result, claim, child, proc, history>>
           /\ \/ Goes(r, "scrub") /\ SettlesAs(r, TRUE)
              \/ Goes(r, "dead") /\ job' = job
<1>0. TypeOK
  BY DEF Shaped
<1>2. /\ runner[r].pc = "status" /\ mgr' = mgr
      /\ UNCHANGED <<result, claim, child, proc, history>>
      /\ UNCHANGED <<plan, recovery, transition, cancel, upstream, crashes>>
  BY DEF WriteStatus
<1>1. /\ runner[r].pc = "status"
      /\ \/ Goes(r, "scrub") /\ SettlesAs(r, TRUE)
         \/ Goes(r, "dead") /\ job' = job
  <2>1. runner[r].phase \in Terminal
    BY <1>2 DEF Shaped, RunnerShape, ShapeOf
  <2>2. CASE job' = SettledStatus(r, TRUE) /\ Step(r, "scrub")
    BY <1>0, <1>2, <2>1, <2>2, StepGoes, SettledStatusEffect DEF SettlesAs, Points
  <2>3. CASE job' = job /\ Exit(r)
    BY <1>0, <1>2, <2>3, StepGoes DEF Exit, Points
  <2> QED BY <1>2, <2>2, <2>3 DEF WriteStatus
<1>4. faults' \in 0 .. MaxWriteFaults /\ job' \in Status
  <2>1. runner[r].phase \in Terminal
    BY <1>2 DEF Shaped, RunnerShape, ShapeOf
  <2>2. job' \in Status
    BY <1>0, <1>1 DEF TypeOK, SettlesAs
  <2>3. faults' \in 0 .. MaxWriteFaults
    <3>1. faults' = faults \/ (faults < MaxWriteFaults /\ faults' = faults + 1)
      BY DEF WriteStatus
    <3> QED BY <1>0, <3>1, BoundsAssumption DEF TypeOK
  <2> QED BY <2>2, <2>3
<1>d. mgr' = mgr /\ runner' \in [Runners -> RunnerState]
  BY <1>1 DEF Becomes, Goes
<1>a. TypeOK'
  BY <1>d, <1>0, <1>2, <1>4 DEF TypeOK, history
<1>b. ShapeOf(runner'[r])
  <2>1. ShapeOf(runner[r])
    BY DEF Shaped, RunnerShape
  <2> QED BY <2>1, <1>0, RunnerTyped, <1>1, <1>2 DEF ShapeOf, Becomes, Goes
<1>c. \A q \in Runners : q # r => runner'[q] = runner[q]
  BY <1>1 DEF Becomes, Goes
<1> QED BY <1>1, <1>2, <1>a, <1>b, <1>c, <1>d, ShapedAfter

(* ScrubArtifacts: the artifacts go and the runner exits. *)
LEMMA ScrubArtifacts_Effect ==
    ASSUME Shaped, NEW r \in Runners, ScrubArtifacts(r)
    PROVE  Shaped' /\ runner[r].pc = "scrub" /\ Goes(r, "dead")
           /\ UNCHANGED <<result, child, proc, history>>
           /\ claim' = None /\ SettlesAs(r, FALSE)
<1>0. TypeOK
  BY DEF Shaped
<1>1. runner[r].pc = "scrub" /\ Goes(r, "dead")
  BY <1>0, StepGoes DEF ScrubArtifacts, Exit, Points
<1>2. /\ UNCHANGED <<result, child, proc, history>>
      /\ claim' = None /\ SettlesAs(r, FALSE)
  <2>1. runner[r].phase \in Terminal
    BY <1>1 DEF Shaped, RunnerShape, ShapeOf
  <2> QED BY <1>0, <2>1, SettledStatusEffect DEF ScrubArtifacts, Scrub, SettlesAs
<1>3. /\ UNCHANGED <<recovery, transition, upstream, crashes, faults>>
      /\ plan' = FALSE /\ cancel' = FALSE
  BY DEF ScrubArtifacts, Scrub
<1>4. job' \in Status
  BY <1>2 DEF SettlesAs
<1>d. mgr' = mgr /\ runner' \in [Runners -> RunnerState]
  BY <1>1 DEF Becomes, Goes
<1>a. TypeOK'
  BY <1>d, <1>0, <1>1, <1>2, <1>3, <1>4 DEF TypeOK, history
<1>b. ShapeOf(runner'[r])
  <2>1. ShapeOf(runner[r])
    BY DEF Shaped, RunnerShape
  <2> QED BY <2>1, <1>0, RunnerTyped, <1>1, <1>2 DEF ShapeOf, Becomes, Goes
<1>c. \A q \in Runners : q # r => runner'[q] = runner[q]
  BY <1>1 DEF Becomes, Goes
<1> QED BY <1>1, <1>2, <1>a, <1>b, <1>c, <1>d, ShapedAfter

(* StepEnds: a step process exits. *)
LEMMA StepEnds_Effect ==
    ASSUME Shaped, NEW r \in Runners, StepEnds(r)
    PROVE  Shaped' /\ UNCHANGED <<job, result, claim, child, runner, mgr, history>>
           /\ proc' = [proc EXCEPT ![r] = "exited"]
<1>1. /\ UNCHANGED <<job, result, claim, child, runner, mgr, history>>
      /\ UNCHANGED <<plan, recovery, transition, cancel, upstream, crashes, faults>>
      /\ proc' = [proc EXCEPT ![r] = "exited"]
  BY DEF StepEnds, files
<1> QED BY <1>1 DEF Shaped, TypeOK, ManagerShape, RunnerShape, history

(* Manager m alone moves. *)
Enters(m, pc, mode, seen) ==
    /\ mgr' \in [Managers -> ManagerState] /\ \A n \in Managers : n # m => mgr'[n] = mgr[n]
    /\ mgr'[m].pc = pc /\ mgr'[m].mode = mode /\ mgr'[m].seen = seen
Leaves(m) ==
    /\ mgr' \in [Managers -> ManagerState] /\ \A n \in Managers : n # m => mgr'[n] = mgr[n]
    /\ mgr'[m].pc = "idle"

(* A handler returns and unlocks. *)
LEMMA ReturnEffect ==
    ASSUME TypeOK, NEW m \in Managers, Return(m)
    PROVE  /\ Leaves(m)
           /\ recovery' \in {None, Dead} \cup Managers \cup Runners
           /\ transition' \in {None, Dead} \cup Managers
<1>1. Leaves(m)
  BY IdleTyped DEF Return, Leaves, TypeOK
<1> QED BY <1>1 DEF Return, Unlock, TypeOK

(* A handler goes on with what it has read. *)
LEMMA GotoEffect ==
    ASSUME TypeOK, NEW m \in Managers, NEW pc \in {"recheck", "spawn"},
           NEW mode \in {"start", "recover"}, NEW seen \in Status, Goto(m, pc, mode, seen)
    PROVE  Enters(m, pc, mode, seen)
  BY IdleTyped DEF Goto, Enters, TypeOK, ManagerState

(* The status of a launched job whose terminal record could not be completed, *)
(* or was.                                                                    *)
Persisted(outcome) ==
    /\ result' \in {result, outcome}
    /\ claim' \in {claim, None}
    /\ \/ job' = job /\ claim' = claim
       \/ /\ job'.st = outcome /\ ~job'.waiting
          /\ job'.saved => result' = outcome
          /\ ~job'.pending => claim' = None

(* launchRunner throws. *)
LEMMA LaunchFailsEffect ==
    ASSUME TypeOK, NEW m \in Managers, LaunchFails(m)
    PROVE  /\ Leaves(m) /\ job' \in Status /\ result' \in {None} \cup Terminal
           /\ claim' \in {claim, None} /\ plan' \in BOOLEAN /\ cancel' \in BOOLEAN
           /\ faults' \in 0 .. MaxWriteFaults
           /\ recovery' \in {None, Dead} \cup Managers \cup Runners
           /\ transition' \in {None, Dead} \cup Managers
           /\ \/ mgr[m].mode = "start" /\ Persisted("runner_launch_failed")
              \/ UNCHANGED <<job, result, claim>>
<1>1. mgr[m].seen \in Status /\ "runner_launch_failed" \in Terminal
  BY DEF TypeOK, ManagerState, Terminal
<1>2. CASE mgr[m].mode = "start"
  <2>1. PersistTerminal(mgr[m].seen, "runner_launch_failed") /\ Return(m)
    BY <1>2 DEF LaunchFails
  <2> QED BY <1>1, <1>2, <2>1, PersistEffect, ReturnEffect DEF Persisted, TypeOK
<1>3. CASE mgr[m].mode # "start"
  BY <1>3, ReturnEffect DEF LaunchFails, TypeOK
<1> QED BY <1>2, <1>3

(* A step of one manager keeps the shape if that manager does. *)
LEMMA ManagersShapedAfter ==
    ASSUME Shaped, NEW m \in Managers, TypeOK', RunnerShape',
           \A n \in Managers : n # m => mgr'[n] = mgr[n],
           mgr'[m].pc \in {"publish", "commit", "handoff"} => mgr'[m].run \in Runners,
           mgr'[m].pc = "clear" => mgr'[m].seen.att < MaxRecoveries
    PROVE  Shaped'
  BY DEF Shaped, ManagerShape

(* A process is spawned. *)
LEMMA Born ==
    ASSUME TypeOK, NEW r \in Runners, NEW pc \in Points, NEW rec \in BOOLEAN,
           runner' = [runner EXCEPT ![r].pc = pc, ![r].rec = rec]
    PROVE  /\ runner' \in [Runners -> RunnerState]
           /\ \A q \in Runners : q # r => runner'[q] = runner[q]
           /\ runner'[r].pc = pc /\ runner'[r].rec = rec
           /\ runner'[r].phase = runner[r].phase
<1>1. runner \in [Runners -> RunnerState]
  BY DEF TypeOK
<1>2. /\ \A q \in Runners : q # r => runner'[q] = runner[q]
      /\ runner'[r].pc = pc
  BY <1>1 DEF RunnerState
<1>3. runner'[r].rec = rec /\ runner'[r].phase = runner[r].phase
  BY <1>1 DEF RunnerState
<1>4. runner' \in [Runners -> RunnerState]
  BY <1>1 DEF RunnerState
<1> QED BY <1>2, <1>3, <1>4

(* What each step of a manager changes. *)
LEMMA Accept_Effect ==
    ASSUME Shaped, NEW m \in Managers, Accept(m)
    PROVE  Shaped' /\ mgr[m].pc = "idle" /\ job.st = "none"
           /\ UNCHANGED <<result, claim, child, runner, proc, history>>
           /\ \/ Enters(m, "spawn", "start", job') /\ Writes("queued", FALSE)
              \/ mgr' = mgr /\ Writes("staged", FALSE)
<1>0. TypeOK
  BY DEF Shaped
<1>1. /\ mgr[m].pc = "idle" /\ job.st = "none"
      /\ \/ Enters(m, "spawn", "start", job') /\ Writes("queued", FALSE)
            /\ transition' = m
         \/ mgr' = mgr /\ Writes("staged", FALSE) /\ transition' = transition
  <2>0. /\ "queued" \in {"none", "staged"} \cup Active \cup Terminal
        /\ "staged" \in {"none", "staged"} \cup Active \cup Terminal
        /\ 0 \in 0 .. MaxRecoveries
    BY BoundsAssumption DEF Active
  <2>1. /\ Write("queued", FALSE, 0, 0) \in Status
        /\ Write("queued", FALSE, 0, 0).st = "queued" /\ Write("queued", FALSE, 0, 0).waiting = FALSE
        /\ Write("staged", FALSE, 0, 0) \in Status
        /\ Write("staged", FALSE, 0, 0).st = "staged" /\ Write("staged", FALSE, 0, 0).waiting = FALSE
    BY <2>0 DEF Write, NoJob, Status
  <2>4. mgr[m].pc = "idle" /\ job.st = "none"
    BY DEF Accept
  <2>2. CASE job' = Write("queued", FALSE, 0, 0) /\ transition' = m
             /\ Goto(m, "spawn", "start", Write("queued", FALSE, 0, 0))
    <3>1. Enters(m, "spawn", "start", Write("queued", FALSE, 0, 0))
      BY <1>0, <2>1, <2>2, GotoEffect
    <3> QED BY <2>1, <2>2, <2>4, <3>1 DEF Writes
  <2>3. CASE job' = Write("staged", FALSE, 0, 0) /\ UNCHANGED <<mgr, transition>>
    BY <2>1, <2>3, <2>4 DEF Writes
  <2> QED BY <2>2, <2>3 DEF Accept
<1>2. UNCHANGED <<result, claim, child, runner, proc, history>>
      /\ UNCHANGED <<recovery, cancel, upstream, crashes, faults>> /\ plan' = TRUE
  BY DEF Accept
<1>7. TypeOK'
  BY <1>0, <1>1, <1>2 DEF TypeOK, Enters, Writes, history
<1>8. RunnerShape'
  BY <1>2 DEF Shaped, RunnerShape
<1>9. ManagerShape'
  BY <1>1 DEF Shaped, ManagerShape, Enters
<1> QED BY <1>1, <1>2, <1>7, <1>8, <1>9 DEF Shaped

(* Replay: a queued job is to be launched once more. *)
LEMMA Replay_Effect ==
    ASSUME Shaped, NEW m \in Managers, Replay(m)
    PROVE  Shaped' /\ mgr[m].pc = "idle" /\ job.st = "queued" /\ ~RunnerCurrent(job)
           /\ result = None /\ Enters(m, "spawn", "start", job)
           /\ UNCHANGED <<job, result, claim, child, runner, proc, history>>
<1>0. TypeOK
  BY DEF Shaped
<1>1. /\ mgr[m].pc = "idle" /\ job.st = "queued" /\ ~RunnerCurrent(job)
      /\ result = None /\ Enters(m, "spawn", "start", job)
  <2>1. job \in Status /\ "queued" \in Active
    BY <1>0 DEF TypeOK, Active
  <2> QED BY <1>0, <2>1, GotoEffect DEF Replay, Reconciled
<1>2. UNCHANGED <<job, result, claim, child, runner, proc, history>> /\ transition' = m
      /\ UNCHANGED <<plan, recovery, cancel, upstream, crashes, faults>>
  BY DEF Replay
<1>7. TypeOK'
  BY <1>0, <1>1, <1>2 DEF TypeOK, Enters, history
<1>8. RunnerShape'
  BY <1>2 DEF Shaped, RunnerShape
<1> QED BY <1>1, <1>2, <1>7, <1>8, ManagersShapedAfter DEF Enters, Leaves

(* ScrubTerminal: what an ended job left is removed. *)
LEMMA ScrubTerminal_Effect ==
    ASSUME Shaped, NEW m \in Managers, ScrubTerminal(m)
    PROVE  Shaped' /\ mgr[m].pc = "idle" /\ job.st \in Terminal
           /\ (job.pending => ~RunnerCurrent(job))
           /\ job'.st = job.st /\ job'.waiting = job.waiting /\ job'.saved = job.saved
           /\ claim' = None /\ child' = (IF ChildReady THEN None ELSE child)
           /\ UNCHANGED <<result, mgr, runner, proc, history>>
<1>0. TypeOK
  BY DEF Shaped
<1>1. /\ mgr[m].pc = "idle" /\ job.st \in Terminal
      /\ (job.pending => ~RunnerCurrent(job))
      /\ job'.st = job.st /\ job'.waiting = job.waiting /\ job'.saved = job.saved
      /\ claim' = None /\ child' = (IF ChildReady THEN None ELSE child)
      /\ job' \in Status /\ plan' = FALSE /\ cancel' = FALSE
  <2>1. job \in Status
    BY <1>0 DEF TypeOK
  <2> QED BY <2>1, ScrubEffect DEF ScrubTerminal, Leftovers
<1>2. UNCHANGED <<result, mgr, runner, proc, history>>
      /\ UNCHANGED <<recovery, transition, upstream, crashes, faults>>
  BY DEF ScrubTerminal
<1>7. TypeOK'
  BY <1>0, <1>1, <1>2 DEF TypeOK, history
<1> QED BY <1>1, <1>2, <1>7 DEF Shaped, RunnerShape, ManagerShape

(* reconcileTerminalResult: the result becomes the status. *)
LEMMA AdoptEffect ==
    ASSUME TypeOK, NEW old \in Status, result # None,
           ScrubTerminalArtifacts(Write(result, FALSE, old.att, old.pid))
    PROVE  /\ job'.st = result /\ ~job'.waiting /\ job' \in Status
           /\ claim' = None /\ plan' = FALSE /\ cancel' = FALSE
           /\ child' = (IF ChildReady THEN None ELSE child)
<1>1. result \in Terminal /\ old.att \in 0 .. MaxRecoveries /\ old.pid \in {0} \cup Runners
  BY DEF TypeOK, Status
<1>2. /\ Write(result, FALSE, old.att, old.pid) \in Status
      /\ Write(result, FALSE, old.att, old.pid).st = result
      /\ ~Write(result, FALSE, old.att, old.pid).waiting
  BY <1>1 DEF Write, NoJob, Status
<1> QED BY <1>2, ScrubEffect

(* AdoptResult: a result becomes the status. *)
LEMMA AdoptResult_Effect ==
    ASSUME Shaped, NEW m \in Managers, AdoptResult(m)
    PROVE  Shaped' /\ mgr[m].pc = "idle" /\ job.st \in Active /\ ~RunnerCurrent(job)
           /\ result # None /\ job'.st = result /\ ~job'.waiting
           /\ claim' = None /\ child' = (IF ChildReady THEN None ELSE child)
           /\ UNCHANGED <<result, mgr, runner, proc, history>>
<1>0. TypeOK
  BY DEF Shaped
<1>1. /\ mgr[m].pc = "idle" /\ job.st \in Active /\ ~RunnerCurrent(job)
      /\ result # None /\ job'.st = result /\ ~job'.waiting
      /\ claim' = None /\ child' = (IF ChildReady THEN None ELSE child)
      /\ job' \in Status /\ plan' = FALSE /\ cancel' = FALSE
  <2>1. job \in Status
    BY <1>0 DEF TypeOK
  <2> QED BY <1>0, <2>1, AdoptEffect DEF AdoptResult
<1>2. UNCHANGED <<result, mgr, runner, proc, history>>
      /\ UNCHANGED <<recovery, transition, upstream, crashes, faults>>
  BY DEF AdoptResult
<1>7. TypeOK'
  BY <1>0, <1>1, <1>2 DEF TypeOK, history
<1> QED BY <1>1, <1>2, <1>7 DEF Shaped, RunnerShape, ManagerShape

(* Reconcile: a recovery begins. *)
LEMMA Reconcile_Effect ==
    ASSUME Shaped, NEW m \in Managers, Reconcile(m)
    PROVE  Shaped' /\ mgr[m].pc = "idle" /\ job.st \in Active /\ ~RunnerCurrent(job)
           /\ result = None /\ Enters(m, "recheck", "recover", job)
           /\ UNCHANGED <<job, result, claim, child, runner, proc, history>>
<1>0. TypeOK
  BY DEF Shaped
<1>1. /\ mgr[m].pc = "idle" /\ job.st \in Active /\ ~RunnerCurrent(job)
      /\ result = None /\ Enters(m, "recheck", "recover", job)
  <2>1. job \in Status
    BY <1>0 DEF TypeOK
  <2> QED BY <1>0, <2>1, GotoEffect DEF Reconcile, Recoverable
<1>2. UNCHANGED <<job, result, claim, child, runner, proc, history>> /\ recovery' = m
      /\ UNCHANGED <<plan, transition, cancel, upstream, crashes, faults>>
  BY DEF Reconcile
<1>7. TypeOK'
  BY <1>0, <1>1, <1>2 DEF TypeOK, Enters, history
<1>8. RunnerShape'
  BY <1>2 DEF Shaped, RunnerShape
<1> QED BY <1>1, <1>2, <1>7, <1>8, ManagersShapedAfter DEF Enters, Leaves

(* Recheck: the recovery goes on, ends the job, or stops. *)
LEMMA Recheck_Effect ==
    ASSUME Shaped, NEW m \in Managers, Recheck(m)
    PROVE  Shaped' /\ mgr[m].pc = "recheck" /\ UNCHANGED <<runner, proc, history>>
           /\ \/ Leaves(m) /\ UNCHANGED <<job, result, claim, child>>
              \/ Leaves(m) /\ result # None
              \/ /\ Leaves(m) /\ ~RunnerCurrent(mgr[m].seen) /\ result = None
                 /\ ChildReady /\ child' = None /\ Persisted("recovery_exhausted")
              \/ /\ Enters(m, "clear", RelaunchMode(mgr[m].seen), mgr[m].seen)
                 /\ ~RunnerCurrent(mgr[m].seen)
                 /\ UNCHANGED <<job, result, claim, child>>
<1>0. TypeOK
  BY DEF Shaped
<1> DEFINE seen == mgr[m].seen
<1>1. /\ mgr[m].pc = "recheck" /\ seen \in Status /\ "recovery_exhausted" \in Terminal
      /\ mgr[m] \in ManagerState
  BY <1>0 DEF Recheck, TypeOK, ManagerState, Terminal
<1>2. UNCHANGED <<runner, proc, history>> /\ UNCHANGED <<upstream, crashes>>
  BY DEF Recheck
<1> DEFINE Moved ==
           \/ Leaves(m) /\ UNCHANGED <<job, result, claim, child>>
           \/ Leaves(m) /\ result # None
           \/ /\ Leaves(m) /\ ~RunnerCurrent(seen) /\ result = None
              /\ ChildReady /\ child' = None /\ Persisted("recovery_exhausted")
           \/ /\ Enters(m, "clear", RelaunchMode(seen), seen)
              /\ ~RunnerCurrent(seen)
              /\ UNCHANGED <<job, result, claim, child>>
           Typed ==
           /\ job' \in Status /\ plan' \in BOOLEAN /\ cancel' \in BOOLEAN
           /\ result' \in {None} \cup Terminal /\ claim' \in {None} \cup Claims
           /\ child' \in {None} \cup Runners /\ faults' \in 0 .. MaxWriteFaults
           /\ recovery' \in {None, Dead} \cup Managers \cup Runners
           /\ transition' \in {None, Dead} \cup Managers
           Bounded == mgr'[m].pc = "clear" => mgr'[m].seen.att < MaxRecoveries
<1>3. Moved /\ Typed /\ Bounded
  <2>1. CASE Return(m) /\ UNCHANGED <<job, plan, result, claim, child, cancel, faults>>
    BY <1>0, <2>1, ReturnEffect DEF TypeOK, Leaves
  <2>2. CASE /\ result # None /\ Return(m) /\ UNCHANGED <<result, faults>>
             /\ ScrubTerminalArtifacts(Write(result, FALSE, seen.att, seen.pid))
    <3>1. child' \in {None} \cup Runners
      BY <1>0, <1>1, <2>2, AdoptEffect DEF TypeOK
    <3> QED BY <1>0, <1>1, <2>2, <3>1, ReturnEffect, AdoptEffect DEF TypeOK, Leaves
  <2>3. CASE /\ ~RunnerCurrent(seen) /\ result = None /\ Return(m) /\ ChildReady
             /\ child' = None /\ PersistTerminal(seen, "recovery_exhausted")
    <3>1. Persisted("recovery_exhausted") /\ result' \in {None} \cup Terminal
      BY <1>0, <1>1, <2>3, PersistEffect DEF Persisted
    <3> QED BY <1>0, <1>1, <2>3, <3>1, ReturnEffect, PersistEffect DEF TypeOK, Leaves
  <2>4. CASE /\ ~RunnerCurrent(seen) /\ seen.att < MaxRecoveries
             /\ mgr' = [mgr EXCEPT ![m].pc = "clear", ![m].mode = RelaunchMode(seen)]
             /\ UNCHANGED <<job, plan, result, claim, child, recovery, transition, cancel,
                            faults>>
    <3> DEFINE mode == RelaunchMode(seen)
    <3>1. mode \in {"wait", "recover"}
      BY DEF RelaunchMode
    <3>2. Enters(m, "clear", mode, seen)
      <4> HIDE DEF mode
      <4>1. mgr' = [mgr EXCEPT ![m].pc = "clear", ![m].mode = mode]
        BY <2>4 DEF mode
      <4> QED BY <1>0, <3>1, <4>1 DEF Enters, TypeOK, ManagerState
    <3> QED BY <1>0, <2>4, <3>2 DEF TypeOK, Enters
  <2> QED BY <2>1, <2>2, <2>3, <2>4 DEF Recheck
<1>7. TypeOK'
  BY <1>0, <1>2, <1>3 DEF TypeOK, Enters, Leaves, history
<1>8. RunnerShape'
  BY <1>2 DEF Shaped, RunnerShape
<1>9. mgr'[m].pc \in {"idle", "clear"} /\ \A n \in Managers : n # m => mgr'[n] = mgr[n]
  BY <1>3 DEF Enters, Leaves
<1> QED BY <1>1, <1>2, <1>3, <1>7, <1>8, <1>9, ManagersShapedAfter

(* Relaunch: the claim is cleared and the attempt recorded. *)
LEMMA Relaunch_Effect ==
    ASSUME Shaped, NEW m \in Managers, Relaunch(m)
    PROVE  Shaped' /\ mgr[m].pc = "clear" /\ UNCHANGED <<result, child, runner, proc, history>>
           /\ \/ /\ claim' = None /\ Enters(m, "spawn", mgr[m].mode, job')
                 /\ IF mgr[m].mode = "wait" THEN Writes("queued", TRUE)
                                            ELSE Writes("interrupted", FALSE)
              \/ Leaves(m) /\ UNCHANGED <<claim, job>>
<1>0. TypeOK
  BY DEF Shaped
<1> DEFINE seen == mgr[m].seen
           next == IF mgr[m].mode = "wait" THEN Write("queued", TRUE, seen.att + 1, 0)
                   ELSE Write("interrupted", FALSE, seen.att + 1, seen.pid)
<1>1. /\ mgr[m].pc = "clear" /\ seen \in Status /\ mgr[m] \in ManagerState
      /\ seen.att + 1 \in 0 .. MaxRecoveries /\ seen.pid \in {0} \cup Runners
  <2>1. mgr[m].pc = "clear" /\ seen \in Status /\ mgr[m] \in ManagerState
    BY <1>0 DEF Relaunch, TypeOK, ManagerState
  <2>2. seen.att < MaxRecoveries
    BY <2>1 DEF Shaped, ManagerShape
  <2> QED BY <2>1, <2>2, BoundsAssumption DEF Status
<1>2. UNCHANGED <<result, child, runner, proc, history>>
      /\ UNCHANGED <<plan, cancel, upstream, crashes, faults>>
  BY DEF Relaunch
<1>3. /\ next \in Status
      /\ IF mgr[m].mode = "wait" THEN next.st = "queued" /\ next.waiting
                                 ELSE next.st = "interrupted" /\ ~next.waiting
  BY <1>1 DEF Write, NoJob, Status, Active
<1>4. /\ \/ /\ claim' = None /\ Enters(m, "spawn", mgr[m].mode, job') /\ job' = next
         \/ Leaves(m) /\ UNCHANGED <<claim, job>>
      /\ recovery' \in {None, Dead} \cup Managers \cup Runners
      /\ transition' \in {None, Dead} \cup Managers
  <2>1. CASE plan
    <3>1. /\ claim' = None /\ job' = next /\ UNCHANGED <<recovery, transition>>
          /\ mgr' = [mgr EXCEPT ![m].pc = "spawn", ![m].seen = next]
      BY <2>1 DEF Relaunch
    <3>2. Enters(m, "spawn", mgr[m].mode, next)
      <4> HIDE DEF next
      <4> QED BY <1>0, <1>3, <3>1 DEF Enters, TypeOK, ManagerState
    <3> QED BY <1>0, <3>1, <3>2 DEF TypeOK
  <2>2. CASE ~plan
    BY <1>0, <2>2, ReturnEffect DEF Relaunch
  <2> QED BY <2>1, <2>2
<1>5. job' \in Status /\ claim' \in {None} \cup Claims
  BY <1>0, <1>3, <1>4 DEF TypeOK
<1>6. \/ /\ claim' = None /\ Enters(m, "spawn", mgr[m].mode, job')
         /\ IF mgr[m].mode = "wait" THEN Writes("queued", TRUE)
                                    ELSE Writes("interrupted", FALSE)
      \/ Leaves(m) /\ UNCHANGED <<claim, job>>
  <2> HIDE DEF next
  <2> QED BY <1>3, <1>4 DEF Writes
<1>7. TypeOK'
  BY <1>0, <1>2, <1>4, <1>5 DEF TypeOK, Enters, Leaves, history
<1>8. RunnerShape'
  BY <1>2 DEF Shaped, RunnerShape
<1>9. mgr'[m].pc \in {"idle", "spawn"} /\ \A n \in Managers : n # m => mgr'[n] = mgr[n]
  BY <1>6 DEF Enters, Leaves
<1> QED BY <1>1, <1>2, <1>6, <1>7, <1>8, <1>9, ManagersShapedAfter

(* Spawn: a runner is born. *)
LEMMA Spawn_Effect ==
    ASSUME Shaped, NEW m \in Managers, Spawn(m)
    PROVE  Shaped' /\ mgr[m].pc = "spawn" /\ UNCHANGED <<job, result, claim, child, proc, history>>
           /\ Enters(m, "publish", mgr[m].mode, mgr[m].seen)
           /\ \E r \in Runners :
                /\ runner[r].pc = "unborn" /\ mgr'[m].run = r
                /\ \A q \in Runners : q # r => runner'[q] = runner[q]
                /\ runner'[r].pc = "boot" /\ runner'[r].rec = (mgr[m].mode = "recover")
<1>0. TypeOK
  BY DEF Shaped
<1>1. PICK r \in Runners :
        /\ runner[r].pc = "unborn"
        /\ runner' = [runner EXCEPT ![r].pc = "boot", ![r].rec = mgr[m].mode = "recover"]
        /\ mgr' = [mgr EXCEPT ![m].pc = "publish", ![m].run = r]
  BY DEF Spawn
<1>2. /\ mgr[m].pc = "spawn" /\ UNCHANGED <<job, result, claim, child, proc, history>>
      /\ UNCHANGED <<plan, recovery, transition, cancel, upstream, crashes, faults>>
  BY DEF Spawn, files
<1>3. Enters(m, "publish", mgr[m].mode, mgr[m].seen) /\ mgr'[m].run = r
  BY <1>0, <1>1 DEF Enters, TypeOK, ManagerState
<1>4. /\ runner' \in [Runners -> RunnerState]
      /\ \A q \in Runners : q # r => runner'[q] = runner[q]
      /\ runner'[r].pc = "boot" /\ runner'[r].rec = (mgr[m].mode = "recover")
      /\ runner'[r].phase = runner[r].phase
  <2>1. (mgr[m].mode = "recover") \in BOOLEAN /\ "boot" \in Points
    BY DEF Points
  <2> QED BY <1>0, <1>1, <2>1, Born
<1>7. TypeOK'
  BY <1>0, <1>2, <1>3, <1>4 DEF TypeOK, Enters, history
<1>8. RunnerShape'
  <2>1. ShapeOf(runner[r])
    BY DEF Shaped, RunnerShape
  <2>2. ShapeOf(runner'[r])
    BY <1>1, <1>4, <2>1 DEF ShapeOf
  <2> QED BY <1>4, <2>2 DEF Shaped, RunnerShape
<1>9. mgr'[m].pc = "publish" /\ \A n \in Managers : n # m => mgr'[n] = mgr[n]
  BY <1>3 DEF Enters
<1>10. Shaped'
  BY <1>3, <1>7, <1>8, <1>9, ManagersShapedAfter
<1> QED BY <1>1, <1>2, <1>3, <1>4, <1>10

(* SpawnFails: no runner can be launched. *)
LEMMA SpawnFails_Effect ==
    ASSUME Shaped, NEW m \in Managers, SpawnFails(m)
    PROVE  Shaped' /\ mgr[m].pc = "spawn" /\ Leaves(m) /\ UNCHANGED <<child, runner, proc, history>>
           /\ \/ mgr[m].mode = "start" /\ Persisted("runner_launch_failed")
              \/ UNCHANGED <<job, result, claim>>
<1>0. TypeOK
  BY DEF Shaped
<1>1. LaunchFails(m) /\ mgr[m].pc = "spawn"
  BY DEF SpawnFails
<1>2. UNCHANGED <<child, runner, proc, history>> /\ UNCHANGED upstream
      /\ crashes' \in 0 .. MaxCrashes
  BY <1>0, BoundsAssumption DEF SpawnFails, TypeOK
<1>7. TypeOK'
  BY <1>0, <1>1, <1>2, LaunchFailsEffect DEF TypeOK, Leaves, history
<1>8. RunnerShape'
  BY <1>2 DEF Shaped, RunnerShape
<1>9. Leaves(m)
  BY <1>0, <1>1, LaunchFailsEffect
<1>10. Shaped'
  BY <1>7, <1>8, <1>9, ManagersShapedAfter DEF Leaves
<1> QED BY <1>0, <1>1, <1>2, <1>9, <1>10, LaunchFailsEffect

(* Publish: the claim is provisional, or the launch fails. *)
LEMMA Publish_Effect ==
    ASSUME Shaped, NEW m \in Managers, Publish(m)
    PROVE  Shaped' /\ mgr[m].pc = "publish" /\ UNCHANGED <<child, proc, history>>
           /\ \/ /\ claim = None /\ claim' = [run |-> mgr[m].run, phase |-> "provisional"]
                 /\ claim' \in Claims /\ mgr'[m].run = mgr[m].run
                 /\ Enters(m, "commit", mgr[m].mode, mgr[m].seen)
                 /\ UNCHANGED <<job, result, runner>>
              \/ /\ claim # None /\ Leaves(m)
                 /\ \A q \in Runners : \/ runner'[q] = runner[q]
                                       \/ q = mgr[m].run /\ runner'[q].pc = "dead"
                 /\ \/ mgr[m].mode = "start" /\ Persisted("runner_launch_failed")
                    \/ UNCHANGED <<job, result, claim>>
<1>0. TypeOK
  BY DEF Shaped
<1> DEFINE r == mgr[m].run
<1>1. mgr[m].pc = "publish" /\ r \in Runners
  BY DEF Publish, Shaped, ManagerShape
<1>2. UNCHANGED <<child, proc, history>> /\ UNCHANGED <<upstream, crashes>>
  BY DEF Publish
<1>3. CASE claim = None
  <2>1. /\ claim' = [run |-> r, phase |-> "provisional"]
        /\ mgr' = [mgr EXCEPT ![m].pc = "commit"]
        /\ UNCHANGED <<job, plan, result, cancel, recovery, transition, runner, faults>>
    BY <1>3 DEF Publish
  <2>2. Enters(m, "commit", mgr[m].mode, mgr[m].seen) /\ mgr'[m].run = r
    BY <1>0, <2>1 DEF Enters, TypeOK, ManagerState
  <2>3. claim' \in Claims
    BY <1>1, <2>1 DEF Claims
  <2>4. TypeOK'
    BY <1>0, <1>2, <2>1, <2>2, <2>3 DEF TypeOK, Enters, history
  <2>5. RunnerShape'
    BY <2>1 DEF Shaped, RunnerShape
  <2>6. mgr'[m].pc = "commit" /\ \A n \in Managers : n # m => mgr'[n] = mgr[n]
    BY <2>2 DEF Enters
  <2>7. Shaped'
    BY <1>1, <2>2, <2>4, <2>5, <2>6, ManagersShapedAfter
  <2> QED BY <1>1, <1>2, <1>3, <2>1, <2>2, <2>3, <2>7
<1>4. CASE claim # None
  <2>1. LaunchFails(m) /\ runner' \in {runner, [runner EXCEPT ![r].pc = "dead"]}
    BY <1>4 DEF Publish
  <2>2. /\ runner' \in [Runners -> RunnerState]
        /\ \A q \in Runners : \/ runner'[q] = runner[q]
                              \/ q = r /\ runner'[q].pc = "dead"
    BY <1>0, <1>1, <2>1 DEF TypeOK, RunnerState, Points
  <2>3. TypeOK'
    BY <1>0, <1>2, <2>1, <2>2, LaunchFailsEffect DEF TypeOK, Leaves, history
  <2>4. RunnerShape'
    BY <2>2 DEF Shaped, RunnerShape, ShapeOf
  <2>5. Leaves(m)
    BY <1>0, <2>1, LaunchFailsEffect
  <2>6. Shaped'
    BY <2>3, <2>4, <2>5, ManagersShapedAfter DEF Leaves
  <2> QED BY <1>0, <1>1, <1>2, <1>4, <2>1, <2>2, <2>5, <2>6, LaunchFailsEffect
<1> QED BY <1>3, <1>4

(* Commit: the claim is committed. *)
LEMMA Commit_Effect ==
    ASSUME Shaped, NEW m \in Managers, Commit(m)
    PROVE  Shaped' /\ mgr[m].pc = "commit" /\ UNCHANGED <<job, result, child, runner, proc, history>>
           /\ claim' = [run |-> mgr[m].run, phase |-> "committed"] /\ claim' \in Claims
           /\ \/ /\ mgr[m].mode = "recover" /\ mgr'[m].pc = "handoff"
                 /\ \A n \in Managers : n # m => mgr'[n] = mgr[n]
              \/ Leaves(m)
<1>0. TypeOK
  BY DEF Shaped
<1> DEFINE r == mgr[m].run
<1>1. mgr[m].pc = "commit" /\ r \in Runners
  BY DEF Commit, Shaped, ManagerShape
<1>2. UNCHANGED <<job, result, child, runner, proc, history>>
      /\ UNCHANGED <<plan, cancel, upstream, crashes, faults>>
      /\ claim' = [run |-> r, phase |-> "committed"]
  BY DEF Commit
<1>3. claim' \in Claims
  BY <1>1, <1>2 DEF Claims
<1>4. /\ mgr' \in [Managers -> ManagerState] /\ \A n \in Managers : n # m => mgr'[n] = mgr[n]
      /\ \/ mgr[m].mode = "recover" /\ mgr'[m].pc = "handoff" /\ mgr'[m].run = r
         \/ Leaves(m)
      /\ recovery' \in {None, Dead} \cup Managers \cup Runners
      /\ transition' \in {None, Dead} \cup Managers
  <2>1. CASE mgr[m].mode = "recover"
    <3>1. mgr' = [mgr EXCEPT ![m].pc = "handoff"] /\ UNCHANGED <<recovery, transition>>
      BY <2>1 DEF Commit
    <3> QED BY <1>0, <2>1, <3>1 DEF TypeOK, ManagerState
  <2>2. CASE mgr[m].mode # "recover"
    BY <1>0, <2>2, ReturnEffect DEF Commit, Leaves
  <2> QED BY <2>1, <2>2
<1>7. TypeOK'
  BY <1>0, <1>2, <1>3, <1>4 DEF TypeOK, history
<1>8. RunnerShape'
  BY <1>2 DEF Shaped, RunnerShape
<1>9. /\ mgr'[m].pc = "handoff" => mgr'[m].run \in Runners
      /\ mgr'[m].pc \in {"handoff", "idle"}
  BY <1>1, <1>4 DEF Leaves
<1>10. Shaped'
  BY <1>4, <1>7, <1>8, <1>9, ManagersShapedAfter
<1> QED BY <1>1, <1>2, <1>3, <1>4, <1>10

(* Handoff: the lock names the runner. *)
LEMMA Handoff_Effect ==
    ASSUME Shaped, NEW m \in Managers, Handoff(m)
    PROVE  Shaped' /\ mgr[m].pc = "handoff" /\ Leaves(m)
           /\ UNCHANGED <<job, result, claim, child, runner, proc, history>>
<1>0. TypeOK
  BY DEF Shaped
<1>1. mgr[m].pc = "handoff" /\ mgr[m].run \in Runners /\ Leaves(m)
  BY <1>0, IdleTyped DEF Handoff, Leaves, TypeOK, Shaped, ManagerShape
<1>2. UNCHANGED <<job, result, claim, child, runner, proc, history>>
      /\ UNCHANGED <<plan, transition, cancel, upstream, crashes, faults>>
      /\ recovery' = mgr[m].run
  BY DEF Handoff
<1>7. TypeOK'
  BY <1>0, <1>1, <1>2 DEF TypeOK, Leaves, history
<1>8. RunnerShape'
  BY <1>2 DEF Shaped, RunnerShape
<1> QED BY <1>1, <1>2, <1>7, <1>8, ManagersShapedAfter DEF Enters, Leaves

(* ManagerCrash: a manager dies. *)
LEMMA ManagerCrash_Effect ==
    ASSUME Shaped, NEW m \in Managers, ManagerCrash(m)
    PROVE  Shaped' /\ Leaves(m)
           /\ UNCHANGED <<job, result, claim, child, runner, proc, history>>
<1>0. TypeOK
  BY DEF Shaped
<1>1. Leaves(m)
  BY <1>0, IdleTyped DEF ManagerCrash, Leaves, TypeOK
<1>2. UNCHANGED <<job, result, claim, child, runner, proc, history>>
      /\ UNCHANGED <<plan, cancel, upstream, faults>> /\ crashes' \in 0 .. MaxCrashes
      /\ recovery' \in {Dead, recovery} /\ transition' \in {Dead, transition}
  BY <1>0, BoundsAssumption DEF ManagerCrash, TypeOK
<1>7. TypeOK'
  BY <1>0, <1>1, <1>2 DEF TypeOK, Leaves, history
<1>8. RunnerShape'
  BY <1>2 DEF Shaped, RunnerShape
<1> QED BY <1>1, <1>2, <1>7, <1>8, ManagersShapedAfter DEF Enters, Leaves

(* Cancel: a staged job ends, or the marker is set. *)
LEMMA Cancel_Effect ==
    ASSUME Shaped, NEW m \in Managers, Cancel(m)
    PROVE  Shaped' /\ mgr[m].pc = "idle" /\ UNCHANGED <<child, mgr, runner, proc, history>>
           /\ \/ job.st = "staged" /\ Persisted("cancelled_before_start")
              \/ UNCHANGED <<job, result, claim>>
<1>0. TypeOK
  BY DEF Shaped
<1>1. /\ \/ job.st = "staged" /\ Persisted("cancelled_before_start")
         \/ UNCHANGED <<job, result, claim>>
      /\ job' \in Status /\ result' \in {None} \cup Terminal /\ claim' \in {claim, None}
      /\ plan' \in BOOLEAN /\ cancel' \in BOOLEAN /\ faults' \in 0 .. MaxWriteFaults
  <2>1. "cancelled_before_start" \in Terminal /\ job \in Status
    BY <1>0 DEF Terminal, TypeOK
  <2>2. CASE job.st = "staged" /\ PersistTerminal(job, "cancelled_before_start")
    BY <1>0, <2>1, <2>2, PersistEffect DEF Persisted, TypeOK
  <2>3. CASE cancel' = TRUE /\ UNCHANGED <<job, plan, result, claim, faults>>
    BY <1>0, <2>3 DEF TypeOK
  <2> QED BY <2>2, <2>3 DEF Cancel
<1>2. /\ mgr[m].pc = "idle" /\ UNCHANGED <<child, mgr, runner, proc, history>>
      /\ UNCHANGED <<recovery, transition, upstream, crashes>>
  BY DEF Cancel
<1>7. TypeOK'
  BY <1>0, <1>1, <1>2 DEF TypeOK, history
<1> QED BY <1>1, <1>2, <1>7 DEF Shaped, RunnerShape, ManagerShape

(* ExpireStaged: a staged draft expires. *)
LEMMA ExpireStaged_Effect ==
    ASSUME Shaped, NEW m \in Managers, ExpireStaged(m)
    PROVE  Shaped' /\ mgr[m].pc = "idle" /\ UNCHANGED <<child, mgr, runner, proc, history>>
           /\ job.st = "staged" /\ Persisted("expired_before_start")
<1>0. TypeOK
  BY DEF Shaped
<1>1. /\ job.st = "staged" /\ Persisted("expired_before_start")
      /\ job' \in Status /\ result' \in {None} \cup Terminal /\ claim' \in {claim, None}
      /\ plan' \in BOOLEAN /\ cancel' \in BOOLEAN /\ faults' \in 0 .. MaxWriteFaults
  <2>1. "expired_before_start" \in Terminal /\ job \in Status
    BY <1>0 DEF Terminal, TypeOK
  <2> QED BY <1>0, <2>1, PersistEffect DEF ExpireStaged, Persisted, TypeOK
<1>2. /\ mgr[m].pc = "idle" /\ UNCHANGED <<child, mgr, runner, proc, history>>
      /\ UNCHANGED <<recovery, transition, upstream, crashes>>
  BY DEF ExpireStaged
<1>7. TypeOK'
  BY <1>0, <1>1, <1>2 DEF TypeOK, history
<1> QED BY <1>1, <1>2, <1>7 DEF Shaped, RunnerShape, ManagerShape

(* Age: a status grows stale. *)
LEMMA Age_Effect ==
    ASSUME Shaped, Age
    PROVE  Shaped' /\ (\A m \in Managers : mgr[m].pc = "idle")
           /\ job.st \notin Terminal
           /\ job'.st = job.st /\ job'.waiting = job.waiting
           /\ UNCHANGED <<result, claim, child, mgr, runner, proc, history>>
<1>0. TypeOK
  BY DEF Shaped
<1>1. /\ \A m \in Managers : mgr[m].pc = "idle"
      /\ UNCHANGED <<result, claim, child, mgr, runner, proc, history>>
      /\ UNCHANGED <<plan, recovery, transition, cancel, upstream, crashes, faults>>
      /\ job.st \in Active \cup {"staged"}
  BY DEF Age
<1>2. job' \in Status /\ job'.st = job.st /\ job'.waiting = job.waiting
  BY <1>0 DEF Age, TypeOK, Status
<1>3. job.st \notin Terminal
  BY <1>1 DEF Active, Terminal
<1>7. TypeOK'
  BY <1>0, <1>1, <1>2 DEF TypeOK, history
<1> QED BY <1>1, <1>2, <1>3, <1>7 DEF Shaped, RunnerShape, ManagerShape

(* UpstreamSettles: the dependencies settle. *)
LEMMA UpstreamSettles_Effect ==
    ASSUME Shaped, UpstreamSettles
    PROVE  Shaped' /\ UNCHANGED <<job, result, claim, child, mgr, runner, proc, history>>
<1>1. UNCHANGED <<job, result, claim, child, mgr, runner, proc, history>>
      /\ UNCHANGED <<plan, recovery, transition, cancel, crashes, faults>>
      /\ upstream' \in {"ok", "failed"}
  BY DEF UpstreamSettles, files
<1> QED BY <1>1 DEF Shaped, TypeOK, ManagerShape, RunnerShape, history

(* One manager process, as in the first instance.                            *)
OneManager == \A m, n \in Managers : m = n

(* A runner at work is the only one, and no manager is deciding. *)
LEMMA PastClaimant ==
    ASSUME IInv, NEW r \in Runners, runner[r].pc \in Past
    PROVE  /\ claim = [run |-> r, phase |-> "exact"] /\ claim # None /\ claim.run = r
           /\ Live(r)
           /\ \A q \in Runners : q # r => runner[q].pc \notin Past
           /\ \A m \in Managers : mgr[m].pc \notin Deciding
<1>1. claim = [run |-> r, phase |-> "exact"] /\ claim.run = r
  BY DEF IInv, ClaimHeld
<1>2. claim # None
  <2>1. [run |-> r, phase |-> "exact"] \in Claims
    BY DEF Claims
  <2> QED BY <1>1, <2>1, NoneAssumption
<1>3. \A q \in Runners : q # r => runner[q].pc \notin Past
  <2> SUFFICES ASSUME NEW q \in Runners, runner[q].pc \in Past PROVE q = r
    OBVIOUS
  <2>1. claim = [run |-> q, phase |-> "exact"]
    BY DEF IInv, ClaimHeld
  <2>2. claim.run = q
    BY <2>1
  <2> QED BY <1>1, <2>2
<1>4. \A m \in Managers : mgr[m].pc \notin Deciding
  BY DEF IInv, ManagerAlone, NobodyPast
<1> QED BY <1>1, <1>2, <1>3, <1>4 DEF Live, Past

(* A live process belongs to a job that was launched. *)
LEMMA StartedJob ==
    ASSUME IInv, NEW r \in Runners, Live(r)
    PROVE  /\ job.st \notin {"none", "staged"} \cup BeforeStart
           /\ result \notin BeforeStart
  BY DEF IInv, Untouched, Live

(* The kinds of status are disjoint. *)
LEMMA ActiveFacts ==
    /\ "queued" \in Active /\ "running" \in Active /\ "cleaning" \in Active
    /\ "interrupted" \in Active
    /\ \A st \in Active : st \notin Terminal /\ st \notin Reached /\ st \notin BeforeStart
                          /\ st \notin {"none", "staged"}
    /\ \A st \in Terminal : st \notin {"none", "staged", "queued"} /\ st \notin Active
    /\ Reached \subseteq Terminal /\ BeforeStart \subseteq Terminal
    /\ Reached \cap BeforeStart = {} /\ None \notin Terminal
  BY NoneAssumption DEF Active, Terminal, Reached, BeforeStart

(* What a live runner does that leaves claim, status and result alone.        *)
LEMMA QuietRunner ==
    ASSUME Shaped, ManagerAlone, ClaimantWorks, NEW r \in Runners, Live(r), mgr' = mgr,
           UNCHANGED <<job, result, claim, starts>>,
           runner'[r].rec = runner[r].rec,
           \A q \in Runners : q # r => runner'[q] = runner[q],
           runner'[r].pc \in {"claim", "dead"},
           runner[r].pc \notin {"status", "scrub"} \/ runner'[r].pc = "dead"
    PROVE  ManagerAlone' /\ ClaimantWorks'
<1>1. ClaimantWorks'
  BY DEF ClaimantWorks, Live
<1>2. claim # None => claim.run \in Runners
  BY DEF Shaped, TypeOK, Claims
<1>3. DeadClaim => DeadClaim'
  BY <1>2 DEF DeadClaim, Live
<1>4. NobodyPast => NobodyPast'
  BY DEF NobodyPast, Past
<1>5. \A q \in Runners : runner'[q].rec = runner[q].rec
  OBVIOUS
<1>6. \A m \in Managers : mgr[m].pc \in {"publish", "commit"} => mgr[m].run \in Runners
  BY DEF Shaped, ManagerShape
<1>7. \A m \in Managers : mgr[m].pc \in {"publish", "commit"} =>
          runner'[mgr[m].run].rec = (mgr[m].mode = "recover")
  BY <1>5, <1>6 DEF ManagerAlone
<1> QED BY <1>1, <1>3, <1>4, <1>7 DEF ManagerAlone, Deciding

(* Boot keeps the invariant: the runner is not at work yet, and not counted  *)
(* on.                                                                       *)
LEMMA Boot_Keeps == ASSUME OneManager, IInv, NEW r \in Runners, Boot(r) PROVE IInv'
<1>0. TypeOK /\ Shaped /\ ClaimHeld /\ ManagerAlone /\ StartsOnce /\ ClaimantWorks
      /\ ClaimBorn /\ NoClaimLeft /\ Untouched /\ CleanupTold /\ ChildrenClaimed
  BY DEF IInv, Shaped
<1>1. /\ Shaped' /\ runner[r].pc = "boot" /\ (Goes(r, "claim") \/ Goes(r, "dead"))
      /\ UNCHANGED <<job, result, claim, child, proc, history>>
  BY <1>0, Boot_Effect
<1>2. Live(r) /\ job.st \notin {"none", "staged"} \cup BeforeStart
      /\ result \notin BeforeStart
  <2>1. Live(r)
    BY DEF Boot, Live
  <2> QED BY <2>1, StartedJob
<1>3. ClaimHeld'
  BY <1>0, <1>1 DEF ClaimHeld, Past, Goes, Becomes
<1>4. ManagerAlone'
  <2>1. Live(r) /\ (runner[r].pc \notin {"status", "scrub"} \/ runner'[r].pc = "dead")
    BY <1>1, <1>2 DEF Live, Becomes, Goes
  <2> QED BY <1>0, <1>1, <1>2, <2>1, QuietRunner DEF Becomes, Goes, history
<1>5. StartsOnce'
  BY <1>0, <1>1 DEF StartsOnce, MayStart, Goes, history, Becomes
<1>6. ClaimantWorks'
  <2>1. Live(r) /\ (runner[r].pc \notin {"status", "scrub"} \/ runner'[r].pc = "dead")
    BY <1>1, <1>2 DEF Live, Becomes, Goes
  <2> QED BY <1>0, <1>1, <1>2, <2>1, QuietRunner DEF Becomes, Goes, history
<1>7. NoClaimLeft'
  BY <1>0, <1>1 DEF NoClaimLeft, Goes, Becomes
<1>8. Untouched'
  BY <1>0, <1>1 DEF Untouched, Goes, Becomes
<1>9. CleanupTold'
  BY <1>0, <1>1 DEF CleanupTold, Cleaned, Goes, history, Becomes
<1>10. ChildrenClaimed'
  BY <1>0, <1>1 DEF ChildrenClaimed, Goes, history, Becomes
<1>11. ClaimBorn'
  <2>1. \A q \in Runners : runner[q].pc # "unborn" => runner'[q].pc # "unborn"
    BY <1>1 DEF Becomes, Goes
  <2>2. claim' = claim \/ claim' = None
    BY <1>1
  <2>3. claim # None => claim.run \in Runners
    BY <1>0 DEF TypeOK, Claims
  <2>4. /\ mgr' = mgr
        /\ \A m \in Managers : mgr[m].pc \in {"publish", "commit"} => mgr[m].run \in Runners
    BY <1>0, <1>1 DEF Becomes, Goes, Shaped, ManagerShape
  <2> QED BY <1>0, <2>1, <2>2, <2>3, <2>4 DEF ClaimBorn
<1> QED BY <1>1, <1>3, <1>4, <1>5, <1>6, <1>7, <1>8, <1>9, <1>10, <1>11 DEF IInv

(* Confirm keeps the invariant: the claim names a runner whose job is active *)
(* and not replaced: no manager is deciding.                                 *)
LEMMA Confirm_Keeps == ASSUME OneManager, IInv, NEW r \in Runners, Confirm(r) PROVE IInv'
<1>0. TypeOK /\ Shaped /\ ClaimHeld /\ ManagerAlone /\ StartsOnce /\ ClaimantWorks
      /\ ClaimBorn /\ NoClaimLeft /\ Untouched /\ CleanupTold /\ ChildrenClaimed
  BY DEF IInv, Shaped
<1>1. /\ Shaped' /\ runner[r].pc = "claim" /\ claim # None
      /\ UNCHANGED <<job, result, proc, history>>
      /\ \/ Goes(r, "dead") /\ claim.run # r /\ UNCHANGED <<claim, child>>
         \/ /\ claim = [run |-> r, phase |-> "committed"]
            /\ claim' = [run |-> r, phase |-> "exact"] /\ claim' \in Claims
            /\ \/ Goes(r, "reap") /\ runner[r].rec /\ child' = child
               \/ Goes(r, "plan") /\ ~runner[r].rec /\ ChildReady /\ child' = None
               \/ Goes(r, "dead") /\ child' = child
  BY <1>0, Confirm_Effect
<1>2. Live(r) /\ job.st \notin {"none", "staged"} \cup BeforeStart
      /\ result \notin BeforeStart
  <2>1. Live(r)
    BY DEF Confirm, Live
  <2> QED BY <2>1, StartedJob
<1>3. ClaimHeld'
  BY <1>0, <1>1 DEF ClaimHeld, Past, Goes, Becomes
<1>4. ManagerAlone'
  <2>1. CASE Goes(r, "dead") /\ claim' = claim
    BY <1>0, <1>1, <1>2, <2>1, QuietRunner DEF Becomes, Goes, history
  <2>2. CASE claim = [run |-> r, phase |-> "committed"]
    <3>1. claim.run = r /\ claim.phase = "committed"
      BY <2>2
    <3>2. \A m \in Managers : mgr[m].pc \notin Deciding
      BY <1>0, <1>1, <1>2, <3>1 DEF ManagerAlone, DeadClaim
    <3> QED BY <1>1, <3>2 DEF ManagerAlone, Becomes, Goes, Deciding
  <2> QED BY <1>1, <2>1, <2>2
<1>5. StartsOnce'
  <2>1. starts <= 1 /\ starts' = starts /\ job' = job
    BY <1>0, <1>1 DEF StartsOnce, history
  <2>2. CASE Goes(r, "dead") /\ claim' = claim
    BY <1>0, <2>1, <2>2 DEF StartsOnce, MayStart, Becomes, Goes
  <2>3. CASE claim = [run |-> r, phase |-> "committed"]
    <3>1. claim.run = r /\ claim'.run = r
      BY <1>1, <2>3
    <3>2. ~runner[r].rec => starts = 0
      BY <1>0, <1>1, <3>1 DEF StartsOnce, MayStart
    <3>3. runner'[r].rec = runner[r].rec
      BY <1>1 DEF Becomes, Goes
    <3> QED BY <1>0, <2>1, <3>1, <3>2, <3>3 DEF StartsOnce, MayStart
  <2> QED BY <1>1, <2>2, <2>3
<1>6. ClaimantWorks'
  <2>1. CASE Goes(r, "dead") /\ claim' = claim
    BY <1>0, <1>1, <1>2, <2>1, QuietRunner DEF Becomes, Goes, history
  <2>2. CASE claim = [run |-> r, phase |-> "committed"]
    <3>1. claim.run = r /\ claim'.run = r
      BY <1>1, <2>2
    <3>2. job.st \in Active /\ result = None
      BY <1>0, <1>1, <1>2, <3>1 DEF ClaimantWorks
    <3>3. runner'[r].pc \notin {"status", "scrub"}
      BY <1>1 DEF Becomes, Goes
    <3> QED BY <1>1, <3>1, <3>2, <3>3 DEF ClaimantWorks
  <2> QED BY <1>1, <2>1, <2>2
<1>7. NoClaimLeft'
  BY <1>0, <1>1 DEF NoClaimLeft, Goes, Becomes
<1>8. Untouched'
  BY <1>0, <1>1 DEF Untouched, Goes, Becomes
<1>9. CleanupTold'
  BY <1>0, <1>1 DEF CleanupTold, Cleaned, Goes, history, Becomes
<1>10. ChildrenClaimed'
  <2>1. CASE child' = child
    BY <1>0, <1>1, <2>1 DEF ChildrenClaimed, history
  <2>2. CASE ChildReady
    BY <1>0, <1>1, <2>2 DEF ChildrenClaimed, ChildReady, TypeOK, history
  <2> QED BY <1>1, <2>1, <2>2
<1>11. ClaimBorn'
  BY <1>0, <1>1 DEF ClaimBorn, Shaped, ManagerShape, Claims, Goes, Becomes, TypeOK
<1> QED BY <1>1, <1>3, <1>4, <1>5, <1>6, <1>7, <1>8, <1>9, <1>10, <1>11 DEF IInv

(* GiveUp keeps the invariant: one runner less. *)
LEMMA GiveUp_Keeps == ASSUME OneManager, IInv, NEW r \in Runners, GiveUp(r) PROVE IInv'
<1>0. TypeOK /\ Shaped /\ ClaimHeld /\ ManagerAlone /\ StartsOnce /\ ClaimantWorks
      /\ ClaimBorn /\ NoClaimLeft /\ Untouched /\ CleanupTold /\ ChildrenClaimed
  BY DEF IInv, Shaped
<1>1. /\ Shaped' /\ Goes(r, "dead")
      /\ UNCHANGED <<job, result, claim, child, proc, history>>
  BY <1>0, GiveUp_Effect
<1>2. Live(r) /\ job.st \notin {"none", "staged"} \cup BeforeStart
      /\ result \notin BeforeStart
  <2>1. Live(r)
    BY DEF GiveUp, Live
  <2> QED BY <2>1, StartedJob
<1>3. ClaimHeld'
  BY <1>0, <1>1 DEF ClaimHeld, Past, Goes, Becomes
<1>4. ManagerAlone'
  <2>1. Live(r) /\ (runner[r].pc \notin {"status", "scrub"} \/ runner'[r].pc = "dead")
    BY <1>1, <1>2 DEF Live, Becomes, Goes
  <2> QED BY <1>0, <1>1, <1>2, <2>1, QuietRunner DEF Becomes, Goes, history
<1>5. StartsOnce'
  BY <1>0, <1>1 DEF StartsOnce, MayStart, Goes, history, Becomes
<1>6. ClaimantWorks'
  <2>1. Live(r) /\ (runner[r].pc \notin {"status", "scrub"} \/ runner'[r].pc = "dead")
    BY <1>1, <1>2 DEF Live, Becomes, Goes
  <2> QED BY <1>0, <1>1, <1>2, <2>1, QuietRunner DEF Becomes, Goes, history
<1>7. NoClaimLeft'
  BY <1>0, <1>1 DEF NoClaimLeft, Goes, Becomes
<1>8. Untouched'
  BY <1>1, <1>2 DEF Untouched, Goes, Becomes
<1>9. CleanupTold'
  BY <1>0, <1>1 DEF CleanupTold, Cleaned, Goes, history, Becomes
<1>10. ChildrenClaimed'
  BY <1>0, <1>1 DEF ChildrenClaimed, Goes, history, Becomes
<1>11. ClaimBorn'
  <2>1. \A q \in Runners : runner[q].pc # "unborn" => runner'[q].pc # "unborn"
    BY <1>1 DEF Becomes, Goes
  <2>2. claim' = claim \/ claim' = None
    BY <1>1
  <2>3. claim # None => claim.run \in Runners
    BY <1>0 DEF TypeOK, Claims
  <2>4. /\ mgr' = mgr
        /\ \A m \in Managers : mgr[m].pc \in {"publish", "commit"} => mgr[m].run \in Runners
    BY <1>0, <1>1 DEF Becomes, Goes, Shaped, ManagerShape
  <2> QED BY <1>0, <2>1, <2>2, <2>3, <2>4 DEF ClaimBorn
<1> QED BY <1>1, <1>3, <1>4, <1>5, <1>6, <1>7, <1>8, <1>9, <1>10, <1>11 DEF IInv

(* RunnerCrash keeps the invariant: one runner less; its child stays         *)
(* claimed.                                                                  *)
LEMMA RunnerCrash_Keeps ==
    ASSUME OneManager, IInv, NEW r \in Runners, RunnerCrash(r)
    PROVE  IInv'
<1>0. TypeOK /\ Shaped /\ ClaimHeld /\ ManagerAlone /\ StartsOnce /\ ClaimantWorks
      /\ ClaimBorn /\ NoClaimLeft /\ Untouched /\ CleanupTold /\ ChildrenClaimed
  BY DEF IInv, Shaped
<1>1. /\ Shaped' /\ Goes(r, "dead")
      /\ UNCHANGED <<job, result, claim, child, proc, history>>
  BY <1>0, RunnerCrash_Effect
<1>2. Live(r) /\ job.st \notin {"none", "staged"} \cup BeforeStart
      /\ result \notin BeforeStart
  <2>1. Live(r)
    BY DEF RunnerCrash, Live
  <2> QED BY <2>1, StartedJob
<1>3. ClaimHeld'
  BY <1>0, <1>1 DEF ClaimHeld, Past, Goes, Becomes
<1>4. ManagerAlone'
  <2>1. Live(r) /\ (runner[r].pc \notin {"status", "scrub"} \/ runner'[r].pc = "dead")
    BY <1>1, <1>2 DEF Live, Becomes, Goes
  <2> QED BY <1>0, <1>1, <1>2, <2>1, QuietRunner DEF Becomes, Goes, history
<1>5. StartsOnce'
  BY <1>0, <1>1 DEF StartsOnce, MayStart, Goes, history, Becomes
<1>6. ClaimantWorks'
  <2>1. Live(r) /\ (runner[r].pc \notin {"status", "scrub"} \/ runner'[r].pc = "dead")
    BY <1>1, <1>2 DEF Live, Becomes, Goes
  <2> QED BY <1>0, <1>1, <1>2, <2>1, QuietRunner DEF Becomes, Goes, history
<1>7. NoClaimLeft'
  BY <1>0, <1>1 DEF NoClaimLeft, Goes, Becomes
<1>8. Untouched'
  BY <1>1, <1>2 DEF Untouched, Goes, Becomes
<1>9. CleanupTold'
  BY <1>0, <1>1 DEF CleanupTold, Cleaned, Goes, history, Becomes
<1>10. ChildrenClaimed'
  BY <1>0, <1>1 DEF ChildrenClaimed, Goes, history, Becomes
<1>11. ClaimBorn'
  <2>1. \A q \in Runners : runner[q].pc # "unborn" => runner'[q].pc # "unborn"
    BY <1>1 DEF Becomes, Goes
  <2>2. claim' = claim \/ claim' = None
    BY <1>1
  <2>3. claim # None => claim.run \in Runners
    BY <1>0 DEF TypeOK, Claims
  <2>4. /\ mgr' = mgr
        /\ \A m \in Managers : mgr[m].pc \in {"publish", "commit"} => mgr[m].run \in Runners
    BY <1>0, <1>1 DEF Becomes, Goes, Shaped, ManagerShape
  <2> QED BY <1>0, <2>1, <2>2, <2>3, <2>4 DEF ClaimBorn
<1> QED BY <1>1, <1>3, <1>4, <1>5, <1>6, <1>7, <1>8, <1>9, <1>10, <1>11 DEF IInv

(* StepEnds keeps the invariant: only a process is gone. *)
LEMMA StepEnds_Keeps == ASSUME OneManager, IInv, NEW r \in Runners, StepEnds(r) PROVE IInv'
<1>0. TypeOK /\ Shaped /\ ClaimHeld /\ ManagerAlone /\ StartsOnce /\ ClaimantWorks
      /\ ClaimBorn /\ NoClaimLeft /\ Untouched /\ CleanupTold /\ ChildrenClaimed
  BY DEF IInv, Shaped
<1>1. /\ Shaped' /\ UNCHANGED <<job, result, claim, child, runner, mgr, history>>
      /\ proc' = [proc EXCEPT ![r] = "exited"]
  BY <1>0, StepEnds_Effect
<1>3. ClaimHeld'
  BY <1>0, <1>1 DEF ClaimHeld, Past
<1>4. ManagerAlone'
  BY <1>0, <1>1 DEF ManagerAlone, NobodyPast, DeadClaim, Live, Past, history
<1>5. StartsOnce'
  BY <1>0, <1>1 DEF StartsOnce, MayStart, history
<1>6. ClaimantWorks'
  BY <1>0, <1>1 DEF ClaimantWorks, Live
<1>7. NoClaimLeft'
  BY <1>0, <1>1 DEF NoClaimLeft
<1>8. Untouched'
  BY <1>0, <1>1 DEF Untouched, history
<1>9. CleanupTold'
  BY <1>0, <1>1 DEF CleanupTold, Cleaned, history
<1>10. ChildrenClaimed'
  BY <1>0, <1>1 DEF ChildrenClaimed, history
<1>11. ClaimBorn'
  BY <1>0, <1>1 DEF ClaimBorn
<1> QED BY <1>1, <1>3, <1>4, <1>5, <1>6, <1>7, <1>8, <1>9, <1>10, <1>11 DEF IInv

(* Reap keeps the invariant: whatever was claimed is no longer alive. *)
LEMMA Reap_Keeps == ASSUME OneManager, IInv, NEW r \in Runners, Reap(r) PROVE IInv'
<1>0. TypeOK /\ Shaped /\ ClaimHeld /\ ManagerAlone /\ StartsOnce /\ ClaimantWorks
      /\ ClaimBorn /\ NoClaimLeft /\ Untouched /\ CleanupTold /\ ChildrenClaimed
  BY DEF IInv, Shaped
<1>1. /\ Shaped' /\ runner[r].pc = "reap" /\ Goes(r, "handoff")
      /\ UNCHANGED <<job, result, claim, history>>
      /\ \A q \in Runners : proc'[q] \in {"main", "finally"} => proc'[q] = proc[q] /\ child # q
  BY <1>0, Reap_Effect
<1>2. /\ runner[r].pc = "reap" /\ claim = [run |-> r, phase |-> "exact"]
      /\ claim # None /\ claim.run = r /\ Live(r)
      /\ \A q \in Runners : q # r => runner[q].pc \notin Past
      /\ \A m \in Managers : mgr[m].pc \notin Deciding
      /\ job.st \notin {"none", "staged"} \cup BeforeStart /\ result \notin BeforeStart
  BY <1>1, PastClaimant, StartedJob DEF Past
<1>3. ClaimHeld'
  BY <1>0, <1>1 DEF ClaimHeld, Past, Goes, Becomes
<1>4. ManagerAlone'
  BY <1>0, <1>1 DEF ManagerAlone, NobodyPast, Past, Deciding, Goes, Becomes
<1>5. StartsOnce'
  BY <1>0, <1>1 DEF StartsOnce, MayStart, Goes, history, Becomes
<1>6. ClaimantWorks'
  BY <1>0, <1>1 DEF ClaimantWorks, Live, Goes, Becomes
<1>7. NoClaimLeft'
  BY <1>0, <1>1 DEF NoClaimLeft, Goes, Becomes
<1>8. Untouched'
  BY <1>0, <1>1 DEF Untouched, Goes, Becomes
<1>9. CleanupTold'
  BY <1>0, <1>1 DEF CleanupTold, Cleaned, Goes, history, Becomes
<1>10. ChildrenClaimed'
  BY <1>0, <1>1 DEF ChildrenClaimed, Goes, history, Becomes, TypeOK
<1>11. ClaimBorn'
  <2>1. \A q \in Runners : runner[q].pc # "unborn" => runner'[q].pc # "unborn"
    BY <1>1 DEF Becomes, Goes
  <2>2. claim' = claim \/ claim' = None
    BY <1>1
  <2>3. claim # None => claim.run \in Runners
    BY <1>0 DEF TypeOK, Claims
  <2>4. /\ mgr' = mgr
        /\ \A m \in Managers : mgr[m].pc \in {"publish", "commit"} => mgr[m].run \in Runners
    BY <1>0, <1>1 DEF Becomes, Goes, Shaped, ManagerShape
  <2> QED BY <1>0, <2>1, <2>2, <2>3, <2>4 DEF ClaimBorn
<1> QED BY <1>1, <1>3, <1>4, <1>5, <1>6, <1>7, <1>8, <1>9, <1>10, <1>11 DEF IInv

(* TakeOver keeps the invariant: a recovery runner starts no main step. *)
LEMMA TakeOver_Keeps == ASSUME OneManager, IInv, NEW r \in Runners, TakeOver(r) PROVE IInv'
<1>0. TypeOK /\ Shaped /\ ClaimHeld /\ ManagerAlone /\ StartsOnce /\ ClaimantWorks
      /\ ClaimBorn /\ NoClaimLeft /\ Untouched /\ CleanupTold /\ ChildrenClaimed
  BY DEF IInv, Shaped
<1>1. /\ Shaped' /\ runner[r].pc = "handoff" /\ Goes(r, "plan")
      /\ UNCHANGED <<job, result, claim, child, proc, history>>
  BY <1>0, TakeOver_Effect
<1>2. /\ runner[r].pc = "handoff" /\ claim = [run |-> r, phase |-> "exact"]
      /\ claim # None /\ claim.run = r /\ Live(r)
      /\ \A q \in Runners : q # r => runner[q].pc \notin Past
      /\ \A m \in Managers : mgr[m].pc \notin Deciding
      /\ job.st \notin {"none", "staged"} \cup BeforeStart /\ result \notin BeforeStart
  BY <1>1, PastClaimant, StartedJob DEF Past
<1>3. ClaimHeld'
  BY <1>0, <1>1 DEF ClaimHeld, Past, Goes, Becomes
<1>4. ManagerAlone'
  BY <1>0, <1>1 DEF ManagerAlone, NobodyPast, Past, Deciding, Goes, Becomes
<1>5. StartsOnce'
  <2>1. runner[r].rec
    BY <1>0, <1>1, <1>2 DEF Shaped, RunnerShape, ShapeOf
  <2> QED BY <1>0, <1>1, <1>2, <2>1, ActiveFacts
         DEF StartsOnce, MayStart, Becomes, Goes, history
<1>6. ClaimantWorks'
  BY <1>0, <1>1 DEF ClaimantWorks, Live, Goes, Becomes
<1>7. NoClaimLeft'
  BY <1>0, <1>1 DEF NoClaimLeft, Goes, Becomes
<1>8. Untouched'
  BY <1>0, <1>1 DEF Untouched, Goes, Becomes
<1>9. CleanupTold'
  BY <1>0, <1>1 DEF CleanupTold, Cleaned, Goes, history, Becomes
<1>10. ChildrenClaimed'
  BY <1>0, <1>1 DEF ChildrenClaimed, Goes, history, Becomes
<1>11. ClaimBorn'
  <2>1. \A q \in Runners : runner[q].pc # "unborn" => runner'[q].pc # "unborn"
    BY <1>1 DEF Becomes, Goes
  <2>2. claim' = claim \/ claim' = None
    BY <1>1
  <2>3. claim # None => claim.run \in Runners
    BY <1>0 DEF TypeOK, Claims
  <2>4. /\ mgr' = mgr
        /\ \A m \in Managers : mgr[m].pc \in {"publish", "commit"} => mgr[m].run \in Runners
    BY <1>0, <1>1 DEF Becomes, Goes, Shaped, ManagerShape
  <2> QED BY <1>0, <2>1, <2>2, <2>3, <2>4 DEF ClaimBorn
<1> QED BY <1>1, <1>3, <1>4, <1>5, <1>6, <1>7, <1>8, <1>9, <1>10, <1>11 DEF IInv

(* Begin keeps the invariant: it has the exact claim, so no other runner or  *)
(* manager is at it.                                                         *)
LEMMA Begin_Keeps == ASSUME OneManager, IInv, NEW r \in Runners, Begin(r) PROVE IInv'
<1>0. TypeOK /\ Shaped /\ ClaimHeld /\ ManagerAlone /\ StartsOnce /\ ClaimantWorks
      /\ ClaimBorn /\ NoClaimLeft /\ Untouched /\ CleanupTold /\ ChildrenClaimed
  BY DEF IInv, Shaped
<1>1. /\ Shaped' /\ runner[r].pc = "plan"
      /\ UNCHANGED <<result, claim, child, proc, history>>
      /\ \/ /\ Becomes(r, "spawn", "finally", runner[r].err, runner[r].dirty)
            /\ Writes("cleaning", FALSE)
         \/ Goes(r, "spawn") /\ ~runner[r].rec /\ Writes("running", FALSE)
         \/ Goes(r, "gate") /\ ~runner[r].rec /\ Writes("queued", TRUE)
         \/ /\ Becomes(r, "result", runner[r].phase, "fatal", runner[r].dirty)
            /\ job' = job
         \/ Goes(r, "dead") /\ job' = job
  BY <1>0, Begin_Effect
<1>2. /\ runner[r].pc = "plan" /\ claim = [run |-> r, phase |-> "exact"]
      /\ claim # None /\ claim.run = r /\ Live(r)
      /\ \A q \in Runners : q # r => runner[q].pc \notin Past
      /\ \A m \in Managers : mgr[m].pc \notin Deciding
      /\ job.st \notin {"none", "staged"} \cup BeforeStart /\ result \notin BeforeStart
  BY <1>1, PastClaimant, StartedJob DEF Past
<1>3. ClaimHeld'
  BY <1>0, <1>1 DEF ClaimHeld, Past, Becomes, Goes
<1>4. ManagerAlone'
  BY <1>0, <1>1 DEF ManagerAlone, NobodyPast, Past, Deciding, Becomes, Goes
<1>5. StartsOnce'
  BY <1>0, <1>1, <1>2 DEF StartsOnce, MayStart, Becomes, Goes, Writes, history
<1>6. ClaimantWorks'
  BY <1>0, <1>1, <1>2, ActiveFacts DEF ClaimantWorks, Becomes, Goes, Writes
<1>7. NoClaimLeft'
  BY <1>0, <1>1, ActiveFacts DEF NoClaimLeft, Becomes, Goes, Writes
<1>8. Untouched'
  BY <1>0, <1>1, ActiveFacts DEF Untouched, Becomes, Goes, Writes
<1>9. CleanupTold'
  BY <1>0, <1>1, ActiveFacts DEF CleanupTold, Cleaned, Becomes, Goes, Writes, history
<1>10. ChildrenClaimed'
  BY <1>0, <1>1 DEF ChildrenClaimed, Becomes, Goes, history
<1>11. ClaimBorn'
  <2>1. \A q \in Runners : runner[q].pc # "unborn" => runner'[q].pc # "unborn"
    BY <1>1 DEF Becomes, Goes
  <2>2. claim' = claim \/ claim' = None
    BY <1>1
  <2>3. claim # None => claim.run \in Runners
    BY <1>0 DEF TypeOK, Claims
  <2>4. /\ mgr' = mgr
        /\ \A m \in Managers : mgr[m].pc \in {"publish", "commit"} => mgr[m].run \in Runners
    BY <1>0, <1>1 DEF Becomes, Goes, Shaped, ManagerShape
  <2> QED BY <1>0, <2>1, <2>2, <2>3, <2>4 DEF ClaimBorn
<1> QED BY <1>1, <1>3, <1>4, <1>5, <1>6, <1>7, <1>8, <1>9, <1>10, <1>11 DEF IInv

(* Gate keeps the invariant: nothing is started before the gate opens. *)
LEMMA Gate_Keeps == ASSUME OneManager, IInv, NEW r \in Runners, Gate(r) PROVE IInv'
<1>0. TypeOK /\ Shaped /\ ClaimHeld /\ ManagerAlone /\ StartsOnce /\ ClaimantWorks
      /\ ClaimBorn /\ NoClaimLeft /\ Untouched /\ CleanupTold /\ ChildrenClaimed
  BY DEF IInv, Shaped
<1>1. /\ Shaped' /\ runner[r].pc = "gate"
      /\ UNCHANGED <<result, claim, child, proc, history>>
      /\ \/ /\ \E err \in {"cancelled", "failed"} :
                  Becomes(r, "spawn", "finally", err, runner[r].dirty)
            /\ Writes("cleaning", FALSE)
         \/ Goes(r, "spawn") /\ ~runner[r].rec /\ Writes("running", FALSE)
  BY <1>0, Gate_Effect
<1>2. /\ runner[r].pc = "gate" /\ claim = [run |-> r, phase |-> "exact"]
      /\ claim # None /\ claim.run = r /\ Live(r)
      /\ \A q \in Runners : q # r => runner[q].pc \notin Past
      /\ \A m \in Managers : mgr[m].pc \notin Deciding
      /\ job.st \notin {"none", "staged"} \cup BeforeStart /\ result \notin BeforeStart
  BY <1>1, PastClaimant, StartedJob DEF Past
<1>3. ClaimHeld'
  BY <1>0, <1>1 DEF ClaimHeld, Past, Becomes, Goes
<1>4. ManagerAlone'
  BY <1>0, <1>1 DEF ManagerAlone, NobodyPast, Past, Deciding, Becomes, Goes
<1>5. StartsOnce'
  BY <1>0, <1>1 DEF StartsOnce, MayStart, Becomes, Goes, Writes, history
<1>6. ClaimantWorks'
  BY <1>0, <1>1, <1>2, ActiveFacts DEF ClaimantWorks, Becomes, Goes, Writes
<1>7. NoClaimLeft'
  BY <1>1, ActiveFacts DEF NoClaimLeft, Becomes, Goes, Writes
<1>8. Untouched'
  BY <1>0, <1>1, ActiveFacts DEF Untouched, Becomes, Goes, Writes
<1>9. CleanupTold'
  BY <1>0, <1>1, ActiveFacts DEF CleanupTold, Cleaned, Becomes, Goes, Writes, history
<1>10. ChildrenClaimed'
  BY <1>0, <1>1 DEF ChildrenClaimed, Becomes, Goes, history
<1>11. ClaimBorn'
  <2>1. \A q \in Runners : runner[q].pc # "unborn" => runner'[q].pc # "unborn"
    BY <1>1 DEF Becomes, Goes
  <2>2. claim' = claim \/ claim' = None
    BY <1>1
  <2>3. claim # None => claim.run \in Runners
    BY <1>0 DEF TypeOK, Claims
  <2>4. /\ mgr' = mgr
        /\ \A m \in Managers : mgr[m].pc \in {"publish", "commit"} => mgr[m].run \in Runners
    BY <1>0, <1>1 DEF Becomes, Goes, Shaped, ManagerShape
  <2> QED BY <1>0, <2>1, <2>2, <2>3, <2>4 DEF ClaimBorn
<1> QED BY <1>1, <1>3, <1>4, <1>5, <1>6, <1>7, <1>8, <1>9, <1>10, <1>11 DEF IInv

(* SpawnStep keeps the invariant: its claim says that no main step was       *)
(* started before.                                                           *)
LEMMA SpawnStep_Keeps == ASSUME OneManager, IInv, NEW r \in Runners, SpawnStep(r) PROVE IInv'
<1>0. TypeOK /\ Shaped /\ ClaimHeld /\ ManagerAlone /\ StartsOnce /\ ClaimantWorks
      /\ ClaimBorn /\ NoClaimLeft /\ Untouched /\ CleanupTold /\ ChildrenClaimed
  BY DEF IInv, Shaped
<1>1. /\ Shaped' /\ runner[r].pc = "spawn" /\ UNCHANGED <<result, claim, child>>
      /\ \/ /\ \E err \in {"cancelled", "failed"} :
                  Becomes(r, "spawn", "finally", err, runner[r].dirty)
            /\ Writes("cleaning", FALSE) /\ UNCHANGED <<proc, history>>
         \/ /\ Becomes(r, "result", runner[r].phase, runner[r].err, TRUE)
            /\ UNCHANGED <<job, proc, history>>
         \/ /\ Goes(r, "own") /\ owned' = owned \ {r}
            /\ proc' = [proc EXCEPT ![r] = runner[r].phase]
            /\ \/ /\ runner[r].phase = "main" /\ ~runner[r].rec
                  /\ Writes("running", FALSE) /\ starts' = starts + 1 /\ ~cleaned'
               \/ /\ runner[r].phase = "finally"
                  /\ Writes("cleaning", FALSE) /\ starts' = starts /\ cleaned'
  BY <1>0, SpawnStep_Effect
<1>2. /\ runner[r].pc = "spawn" /\ claim = [run |-> r, phase |-> "exact"]
      /\ claim # None /\ claim.run = r /\ Live(r)
      /\ \A q \in Runners : q # r => runner[q].pc \notin Past
      /\ \A m \in Managers : mgr[m].pc \notin Deciding
      /\ job.st \notin {"none", "staged"} \cup BeforeStart /\ result \notin BeforeStart
  BY <1>1, PastClaimant, StartedJob DEF Past
<1>3. ClaimHeld'
  BY <1>0, <1>1 DEF ClaimHeld, Past, Becomes, Goes
<1>4. ManagerAlone'
  BY <1>0, <1>1 DEF ManagerAlone, NobodyPast, Past, Deciding, Becomes, Goes
<1>5. StartsOnce'
  BY <1>0, <1>1, <1>2 DEF StartsOnce, MayStart, Becomes, Goes, Writes, history
<1>6. ClaimantWorks'
  BY <1>0, <1>1, <1>2, ActiveFacts DEF ClaimantWorks, Becomes, Goes, Writes
<1>7. NoClaimLeft'
  BY <1>0, <1>1, ActiveFacts DEF NoClaimLeft, Becomes, Goes, Writes
<1>8. Untouched'
  BY <1>0, <1>1, ActiveFacts DEF Untouched, Becomes, Goes, Writes
<1>9. CleanupTold'
  <2>1. job.st \in Active /\ result = None
    BY <1>0, <1>2 DEF ClaimantWorks
  <2>2. result' = None /\ job'.st \in Active
    BY <1>1, <2>1, ActiveFacts DEF Writes
  <2>3. /\ runner'[r].pc \in {"spawn", "result", "own"} /\ (runner'[r].pc = "result" => runner'[r].dirty)
        /\ runner'[r].phase = "finally" /\ runner'[r].pc = "own" => Cleaned'
    BY <1>1 DEF Becomes, Goes, Cleaned, history
  <2>4. \A q \in Runners : q # r => runner'[q] = runner[q] /\ runner[q].pc \notin Past
    BY <1>1, <1>2 DEF Becomes, Goes
  <2> QED BY <2>2, <2>3, <2>4, ActiveFacts DEF CleanupTold, Past
<1>10. ChildrenClaimed'
  BY <1>0, <1>1 DEF ChildrenClaimed, Becomes, Goes, history, TypeOK
<1>11. ClaimBorn'
  <2>1. \A q \in Runners : runner[q].pc # "unborn" => runner'[q].pc # "unborn"
    BY <1>1 DEF Becomes, Goes
  <2>2. claim' = claim \/ claim' = None
    BY <1>1
  <2>3. claim # None => claim.run \in Runners
    BY <1>0 DEF TypeOK, Claims
  <2>4. /\ mgr' = mgr
        /\ \A m \in Managers : mgr[m].pc \in {"publish", "commit"} => mgr[m].run \in Runners
    BY <1>0, <1>1 DEF Becomes, Goes, Shaped, ManagerShape
  <2> QED BY <1>0, <2>1, <2>2, <2>3, <2>4 DEF ClaimBorn
<1> QED BY <1>1, <1>3, <1>4, <1>5, <1>6, <1>7, <1>8, <1>9, <1>10, <1>11 DEF IInv

(* OwnChild keeps the invariant: two live children are never claimed. *)
LEMMA OwnChild_Keeps == ASSUME OneManager, IInv, NEW r \in Runners, OwnChild(r) PROVE IInv'
<1>0. TypeOK /\ Shaped /\ ClaimHeld /\ ManagerAlone /\ StartsOnce /\ ClaimantWorks
      /\ ClaimBorn /\ NoClaimLeft /\ Untouched /\ CleanupTold /\ ChildrenClaimed
  BY DEF IInv, Shaped
<1>1. /\ Shaped' /\ runner[r].pc = "own"
      /\ UNCHANGED <<job, result, claim, starts, cleaned>>
      /\ \/ /\ ChildReady /\ Goes(r, "wait")
            /\ child' = r /\ owned' = owned \cup {r} /\ proc' = proc
         \/ /\ \E err \in Errors :
                  Becomes(r, "wait", runner[r].phase, err, runner[r].phase = "finally")
            /\ proc' = [proc EXCEPT ![r] = "exited"] /\ UNCHANGED <<child, owned>>
  BY <1>0, OwnChild_Effect
<1>2. /\ runner[r].pc = "own" /\ claim = [run |-> r, phase |-> "exact"]
      /\ claim # None /\ claim.run = r /\ Live(r)
      /\ \A q \in Runners : q # r => runner[q].pc \notin Past
      /\ \A m \in Managers : mgr[m].pc \notin Deciding
      /\ job.st \notin {"none", "staged"} \cup BeforeStart /\ result \notin BeforeStart
  BY <1>1, PastClaimant, StartedJob DEF Past
<1>3. ClaimHeld'
  BY <1>0, <1>1 DEF ClaimHeld, Past, Becomes, Goes
<1>4. ManagerAlone'
  BY <1>0, <1>1 DEF ManagerAlone, NobodyPast, Past, Deciding, Becomes, Goes
<1>5. StartsOnce'
  BY <1>0, <1>1 DEF StartsOnce, MayStart, Becomes, Goes
<1>6. ClaimantWorks'
  BY <1>0, <1>1 DEF ClaimantWorks, Live, Becomes, Goes
<1>7. NoClaimLeft'
  BY <1>0, <1>1 DEF NoClaimLeft, Becomes, Goes
<1>8. Untouched'
  BY <1>0, <1>1 DEF Untouched, Becomes, Goes
<1>9. CleanupTold'
  BY <1>0, <1>1 DEF CleanupTold, Cleaned, Becomes, Goes
<1>10. ChildrenClaimed'
  <2>1. CASE ChildReady /\ owned' = owned \cup {r} /\ child' = r /\ proc' = proc
    BY <1>0, <2>1 DEF ChildrenClaimed, ChildReady, TypeOK
  <2>2. CASE proc' = [proc EXCEPT ![r] = "exited"] /\ UNCHANGED <<child, owned>>
    BY <1>0, <2>2 DEF ChildrenClaimed, TypeOK
  <2> QED BY <1>1, <2>1, <2>2
<1>11. ClaimBorn'
  <2>1. \A q \in Runners : runner[q].pc # "unborn" => runner'[q].pc # "unborn"
    BY <1>1 DEF Becomes, Goes
  <2>2. claim' = claim \/ claim' = None
    BY <1>1
  <2>3. claim # None => claim.run \in Runners
    BY <1>0 DEF TypeOK, Claims
  <2>4. /\ mgr' = mgr
        /\ \A m \in Managers : mgr[m].pc \in {"publish", "commit"} => mgr[m].run \in Runners
    BY <1>0, <1>1 DEF Becomes, Goes, Shaped, ManagerShape
  <2> QED BY <1>0, <2>1, <2>2, <2>3, <2>4 DEF ClaimBorn
<1> QED BY <1>1, <1>3, <1>4, <1>5, <1>6, <1>7, <1>8, <1>9, <1>10, <1>11 DEF IInv

(* Settle keeps the invariant: the finally phase was started, or is next. *)
LEMMA Settle_Keeps == ASSUME OneManager, IInv, NEW r \in Runners, Settle(r) PROVE IInv'
<1>0. TypeOK /\ Shaped /\ ClaimHeld /\ ManagerAlone /\ StartsOnce /\ ClaimantWorks
      /\ ClaimBorn /\ NoClaimLeft /\ Untouched /\ CleanupTold /\ ChildrenClaimed
  BY DEF IInv, Shaped
<1>1. /\ Shaped' /\ runner[r].pc = "wait" /\ proc[r] = "exited"
      /\ UNCHANGED <<result, claim, proc, history>>
      /\ child' = (IF child = r THEN None ELSE child)
      /\ \/ /\ runner[r].phase = "main"
            /\ \E err \in Errors : Becomes(r, "spawn", "finally", err, runner[r].dirty)
            /\ Writes("cleaning", FALSE)
         \/ /\ runner[r].phase = "finally" /\ job' = job
            /\ \E dirty \in {runner[r].dirty, TRUE} :
                   Becomes(r, "result", runner[r].phase, runner[r].err, dirty)
  BY <1>0, Settle_Effect
<1>2. /\ runner[r].pc = "wait" /\ claim = [run |-> r, phase |-> "exact"]
      /\ claim # None /\ claim.run = r /\ Live(r)
      /\ \A q \in Runners : q # r => runner[q].pc \notin Past
      /\ \A m \in Managers : mgr[m].pc \notin Deciding
      /\ job.st \notin {"none", "staged"} \cup BeforeStart /\ result \notin BeforeStart
  BY <1>1, PastClaimant, StartedJob DEF Past
<1>3. ClaimHeld'
  BY <1>0, <1>1 DEF ClaimHeld, Past, Becomes
<1>4. ManagerAlone'
  BY <1>0, <1>1 DEF ManagerAlone, NobodyPast, Past, Deciding, Becomes
<1>5. StartsOnce'
  BY <1>0, <1>1 DEF StartsOnce, MayStart, Becomes, Writes, history
<1>6. ClaimantWorks'
  BY <1>0, <1>1, <1>2, ActiveFacts DEF ClaimantWorks, Becomes, Writes
<1>7. NoClaimLeft'
  BY <1>0, <1>1, ActiveFacts DEF NoClaimLeft, Becomes, Writes
<1>8. Untouched'
  BY <1>0, <1>1, ActiveFacts DEF Untouched, Becomes, Writes
<1>9. CleanupTold'
  BY <1>0, <1>1, ActiveFacts DEF CleanupTold, Cleaned, Becomes, Writes, history
<1>10. ChildrenClaimed'
  BY <1>0, <1>1 DEF ChildrenClaimed, Becomes, history
<1>11. ClaimBorn'
  <2>1. \A q \in Runners : runner[q].pc # "unborn" => runner'[q].pc # "unborn"
    BY <1>1 DEF Becomes, Goes
  <2>2. claim' = claim \/ claim' = None
    BY <1>1
  <2>3. claim # None => claim.run \in Runners
    BY <1>0 DEF TypeOK, Claims
  <2>4. /\ mgr' = mgr
        /\ \A m \in Managers : mgr[m].pc \in {"publish", "commit"} => mgr[m].run \in Runners
    BY <1>0, <1>1 DEF Becomes, Goes, Shaped, ManagerShape
  <2> QED BY <1>0, <2>1, <2>2, <2>3, <2>4 DEF ClaimBorn
<1> QED BY <1>1, <1>3, <1>4, <1>5, <1>6, <1>7, <1>8, <1>9, <1>10, <1>11 DEF IInv

(* WriteResult keeps the invariant: FinalStatus claims no more than what was *)
(* reached.                                                                  *)
LEMMA WriteResult_Keeps ==
    ASSUME OneManager, IInv, NEW r \in Runners, WriteResult(r)
    PROVE  IInv'
<1>0. TypeOK /\ Shaped /\ ClaimHeld /\ ManagerAlone /\ StartsOnce /\ ClaimantWorks
      /\ ClaimBorn /\ NoClaimLeft /\ Untouched /\ CleanupTold /\ ChildrenClaimed
  BY DEF IInv, Shaped
<1>1. /\ Shaped' /\ runner[r].pc = "result"
      /\ UNCHANGED <<job, claim, child, proc, history>>
      /\ FinalStatus(r) \in Terminal
      /\ \/ /\ Becomes(r, "status", FinalStatus(r), "none", FALSE)
            /\ result' = FinalStatus(r)
         \/ /\ Becomes(r, "status", FinalStatus(r), "unsaved", FALSE)
            /\ result' = result
  BY <1>0, WriteResult_Effect
<1>2. /\ runner[r].pc = "result" /\ claim = [run |-> r, phase |-> "exact"]
      /\ claim # None /\ claim.run = r /\ Live(r)
      /\ \A q \in Runners : q # r => runner[q].pc \notin Past
      /\ \A m \in Managers : mgr[m].pc \notin Deciding
      /\ job.st \notin {"none", "staged"} \cup BeforeStart /\ result \notin BeforeStart
  BY <1>1, PastClaimant, StartedJob DEF Past
<1>3. ClaimHeld'
  BY <1>0, <1>1 DEF ClaimHeld, Past, Becomes
<1>4. ManagerAlone'
  BY <1>0, <1>1 DEF ManagerAlone, NobodyPast, Past, Deciding, Becomes
<1>5. StartsOnce'
  BY <1>0, <1>1, <1>2, ActiveFacts, FinalStatusEffect
       DEF StartsOnce, MayStart, Becomes, Goes, TypeOK, history
<1>6. ClaimantWorks'
  BY <1>0, <1>1, <1>2, ActiveFacts, FinalStatusEffect
       DEF ClaimantWorks, Live, Becomes, Goes, TypeOK, history
<1>7. NoClaimLeft'
  BY <1>0, <1>1, <1>2, ActiveFacts, FinalStatusEffect
       DEF NoClaimLeft, Becomes, Goes, TypeOK, history
<1>8. Untouched'
  BY <1>0, <1>1, <1>2, ActiveFacts, FinalStatusEffect
       DEF Untouched, Becomes, Goes, TypeOK, history
<1>9. CleanupTold'
  <2>1. job.st \in Active /\ result = None
    BY <1>0, <1>2 DEF ClaimantWorks
  <2>2. FinalStatus(r) \in Reached => Cleaned
    BY <1>0, <1>2, FinalStatusEffect DEF CleanupTold
  <2>3. UNCHANGED <<job, Cleaned>> /\ result' \in {FinalStatus(r), None}
    BY <1>1, <2>1 DEF Cleaned, history
  <2>4. /\ runner'[r].pc = "status" /\ runner'[r].phase = FinalStatus(r)
        /\ \A q \in Runners : q # r => runner'[q] = runner[q]
    BY <1>1 DEF Becomes
  <2>5. /\ job'.st \in Terminal /\ job'.saved => result' = job'.st
        /\ job'.st \in Reached \/ result' \in Reached => Cleaned'
    BY <2>1, <2>2, <2>3, ActiveFacts
  <2> QED BY <1>0, <2>2, <2>3, <2>4, <2>5 DEF CleanupTold
<1>10. ChildrenClaimed'
  BY <1>0, <1>1 DEF ChildrenClaimed, Becomes, history
<1>11. ClaimBorn'
  <2>1. \A q \in Runners : runner[q].pc # "unborn" => runner'[q].pc # "unborn"
    BY <1>1 DEF Becomes, Goes
  <2>2. claim' = claim \/ claim' = None
    BY <1>1
  <2>3. claim # None => claim.run \in Runners
    BY <1>0 DEF TypeOK, Claims
  <2>4. /\ mgr' = mgr
        /\ \A m \in Managers : mgr[m].pc \in {"publish", "commit"} => mgr[m].run \in Runners
    BY <1>0, <1>1 DEF Becomes, Goes, Shaped, ManagerShape
  <2> QED BY <1>0, <2>1, <2>2, <2>3, <2>4 DEF ClaimBorn
<1> QED BY <1>1, <1>3, <1>4, <1>5, <1>6, <1>7, <1>8, <1>9, <1>10, <1>11 DEF IInv

(* WriteStatus keeps the invariant: the status agrees with the result unless *)
(* it says that none was saved.                                              *)
LEMMA WriteStatus_Keeps ==
    ASSUME OneManager, IInv, NEW r \in Runners, WriteStatus(r)
    PROVE  IInv'
<1>0. TypeOK /\ Shaped /\ ClaimHeld /\ ManagerAlone /\ StartsOnce /\ ClaimantWorks
      /\ ClaimBorn /\ NoClaimLeft /\ Untouched /\ CleanupTold /\ ChildrenClaimed
  BY DEF IInv, Shaped
<1>1. /\ Shaped' /\ runner[r].pc = "status"
      /\ UNCHANGED <<result, claim, child, proc, history>>
      /\ \/ Goes(r, "scrub") /\ SettlesAs(r, TRUE)
         \/ Goes(r, "dead") /\ job' = job
  BY <1>0, WriteStatus_Effect
<1>2. /\ runner[r].pc = "status" /\ claim = [run |-> r, phase |-> "exact"]
      /\ claim # None /\ claim.run = r /\ Live(r)
      /\ \A q \in Runners : q # r => runner[q].pc \notin Past
      /\ \A m \in Managers : mgr[m].pc \notin Deciding
      /\ job.st \notin {"none", "staged"} \cup BeforeStart /\ result \notin BeforeStart
  BY <1>1, PastClaimant, StartedJob DEF Past
<1>3. ClaimHeld'
  BY <1>0, <1>1 DEF ClaimHeld, Past, Goes, Becomes
<1>4. ManagerAlone'
  BY <1>0, <1>1 DEF ManagerAlone, NobodyPast, Past, Deciding, Goes, Becomes
<1>5. StartsOnce'
  BY <1>0, <1>1, <1>2, ActiveFacts
       DEF StartsOnce, MayStart, Becomes, Goes, SettlesAs, TypeOK, history
<1>6. ClaimantWorks'
  BY <1>0, <1>1, <1>2, ActiveFacts
       DEF ClaimantWorks, Live, Becomes, Goes, SettlesAs, TypeOK, history
<1>7. NoClaimLeft'
  BY <1>0, <1>1, <1>2, ActiveFacts DEF NoClaimLeft, Becomes, Goes, SettlesAs, TypeOK, history
<1>8. Untouched'
  <2>1. runner[r].phase \notin BeforeStart /\ runner[r].phase \in Terminal
    BY <1>0, <1>2 DEF ClaimantWorks
  <2>2. job'.st \notin {"none", "staged"} \cup BeforeStart /\ result' \notin BeforeStart
    BY <1>1, <1>2, <2>1, ActiveFacts DEF SettlesAs
  <2> QED BY <2>2 DEF Untouched
<1>9. CleanupTold'
  <2>1. /\ result = (IF runner[r].err = "unsaved" THEN None ELSE runner[r].phase)
        /\ runner[r].phase \in Reached => Cleaned
    BY <1>0, <1>2 DEF ClaimantWorks, CleanupTold
  <2>2. UNCHANGED <<result, Cleaned>>
    BY <1>1 DEF Cleaned, history
  <2>3. /\ job'.st \in Terminal /\ job'.saved => result' = job'.st
        /\ job'.st \in Reached \/ result' \in Reached => Cleaned'
    <3>1. CASE job' = job
      BY <1>0, <2>2, <3>1 DEF CleanupTold
    <3>2. CASE SettlesAs(r, TRUE)
      BY <2>1, <2>2, <3>2, ActiveFacts DEF SettlesAs
    <3> QED BY <1>1, <3>1, <3>2
  <2>4. /\ runner'[r].pc \in {"scrub", "dead"} /\ runner'[r].phase = runner[r].phase
        /\ \A q \in Runners : q # r => runner'[q] = runner[q]
    BY <1>1 DEF Goes, Becomes
  <2> QED BY <1>0, <2>1, <2>2, <2>3, <2>4 DEF CleanupTold
<1>10. ChildrenClaimed'
  BY <1>0, <1>1 DEF ChildrenClaimed, Goes, history, Becomes
<1>11. ClaimBorn'
  <2>1. \A q \in Runners : runner[q].pc # "unborn" => runner'[q].pc # "unborn"
    BY <1>1 DEF Becomes, Goes
  <2>2. claim' = claim \/ claim' = None
    BY <1>1
  <2>3. claim # None => claim.run \in Runners
    BY <1>0 DEF TypeOK, Claims
  <2>4. /\ mgr' = mgr
        /\ \A m \in Managers : mgr[m].pc \in {"publish", "commit"} => mgr[m].run \in Runners
    BY <1>0, <1>1 DEF Becomes, Goes, Shaped, ManagerShape
  <2> QED BY <1>0, <2>1, <2>2, <2>3, <2>4 DEF ClaimBorn
<1> QED BY <1>1, <1>3, <1>4, <1>5, <1>6, <1>7, <1>8, <1>9, <1>10, <1>11 DEF IInv

(* ScrubArtifacts keeps the invariant: the claim is given up when all is     *)
(* written.                                                                  *)
LEMMA ScrubArtifacts_Keeps ==
    ASSUME OneManager, IInv, NEW r \in Runners, ScrubArtifacts(r)
    PROVE  IInv'
<1>0. TypeOK /\ Shaped /\ ClaimHeld /\ ManagerAlone /\ StartsOnce /\ ClaimantWorks
      /\ ClaimBorn /\ NoClaimLeft /\ Untouched /\ CleanupTold /\ ChildrenClaimed
  BY DEF IInv, Shaped
<1>1. /\ Shaped' /\ runner[r].pc = "scrub" /\ Goes(r, "dead")
      /\ UNCHANGED <<result, child, proc, history>>
      /\ claim' = None /\ SettlesAs(r, FALSE)
  BY <1>0, ScrubArtifacts_Effect
<1>2. /\ runner[r].pc = "scrub" /\ claim = [run |-> r, phase |-> "exact"]
      /\ claim # None /\ claim.run = r /\ Live(r)
      /\ \A q \in Runners : q # r => runner[q].pc \notin Past
      /\ \A m \in Managers : mgr[m].pc \notin Deciding
      /\ job.st \notin {"none", "staged"} \cup BeforeStart /\ result \notin BeforeStart
  BY <1>1, PastClaimant, StartedJob DEF Past
<1>3. ClaimHeld'
  BY <1>0, <1>1 DEF ClaimHeld, Past, Goes, Becomes
<1>4. ManagerAlone'
  BY <1>0, <1>1 DEF ManagerAlone, NobodyPast, Past, Deciding, Goes, Becomes
<1>5. StartsOnce'
  BY <1>0, <1>1, <1>2, ActiveFacts
       DEF StartsOnce, MayStart, Becomes, Goes, SettlesAs, TypeOK, history
<1>6. ClaimantWorks'
  BY <1>0, <1>1, <1>2, ActiveFacts
       DEF ClaimantWorks, Live, Becomes, Goes, SettlesAs, TypeOK, history
<1>7. NoClaimLeft'
  BY <1>0, <1>1, <1>2, ActiveFacts DEF NoClaimLeft, Becomes, Goes, SettlesAs, TypeOK, history
<1>8. Untouched'
  <2>1. runner[r].phase \notin BeforeStart /\ runner[r].phase \in Terminal
    BY <1>0, <1>2 DEF ClaimantWorks
  <2>2. job'.st \notin {"none", "staged"} \cup BeforeStart /\ result' \notin BeforeStart
    BY <1>1, <1>2, <2>1, ActiveFacts DEF SettlesAs
  <2> QED BY <2>2 DEF Untouched
<1>9. CleanupTold'
  <2>1. /\ result = (IF runner[r].err = "unsaved" THEN None ELSE runner[r].phase)
        /\ runner[r].phase \in Reached => Cleaned
    BY <1>0, <1>2 DEF ClaimantWorks, CleanupTold
  <2>2. UNCHANGED <<result, Cleaned>>
    BY <1>1 DEF Cleaned, history
  <2>3. /\ job'.st \in Terminal /\ job'.saved => result' = job'.st
        /\ job'.st \in Reached \/ result' \in Reached => Cleaned'
    <3>1. CASE job' = job
      BY <1>0, <2>2, <3>1 DEF CleanupTold
    <3>2. CASE SettlesAs(r, FALSE)
      BY <2>1, <2>2, <3>2, ActiveFacts DEF SettlesAs
    <3> QED BY <1>1, <3>1, <3>2
  <2>4. /\ runner'[r].pc \in {"dead"} /\ runner'[r].phase = runner[r].phase
        /\ \A q \in Runners : q # r => runner'[q] = runner[q]
    BY <1>1 DEF Goes, Becomes
  <2> QED BY <1>0, <2>1, <2>2, <2>3, <2>4 DEF CleanupTold
<1>10. ChildrenClaimed'
  BY <1>0, <1>1 DEF ChildrenClaimed, Goes, history, Becomes
<1>11. ClaimBorn'
  <2>1. \A q \in Runners : runner[q].pc # "unborn" => runner'[q].pc # "unborn"
    BY <1>1 DEF Becomes, Goes
  <2>2. claim' = claim \/ claim' = None
    BY <1>1
  <2>3. claim # None => claim.run \in Runners
    BY <1>0 DEF TypeOK, Claims
  <2>4. /\ mgr' = mgr
        /\ \A m \in Managers : mgr[m].pc \in {"publish", "commit"} => mgr[m].run \in Runners
    BY <1>0, <1>1 DEF Becomes, Goes, Shaped, ManagerShape
  <2> QED BY <1>0, <2>1, <2>2, <2>3, <2>4 DEF ClaimBorn
<1> QED BY <1>1, <1>3, <1>4, <1>5, <1>6, <1>7, <1>8, <1>9, <1>10, <1>11 DEF IInv

(* The manager's view: no runner is at work once the claim names none.        *)
LEMMA Unclaimed ==
    ASSUME IInv, claim # None => ~Live(claim.run)
    PROVE  NobodyPast /\ DeadClaim
<1>1. DeadClaim
  BY DEF DeadClaim
<1>2. NobodyPast
  <2> SUFFICES ASSUME NEW r \in Runners, runner[r].pc \in Past PROVE FALSE
    BY DEF NobodyPast
  <2> QED BY PastClaimant
<1> QED BY <1>1, <1>2

(* A status without a current runner: nobody is at work, and nobody can be   *)
(* any more.                                                                 *)
LEMMA Uncurrent ==
    ASSUME IInv, NEW status, ~RunnerCurrent(status)
    PROVE  NobodyPast /\ DeadClaim
<1>1. claim # None => claim.run # 0
  BY BoundsAssumption DEF IInv, Shaped, TypeOK, Claims, Runners
<1>2. claim # None => ~Live(claim.run)
  BY <1>1 DEF RunnerCurrent
<1> QED BY <1>2, Unclaimed

(* What a manager may change while nobody is at work. *)
LEMMA Undisturbed ==
    ASSUME TypeOK, NobodyPast, DeadClaim, claim' \in {claim, None},
           \A q \in Runners : runner'[q] = runner[q] \/ runner'[q].pc = "dead"
    PROVE  /\ NobodyPast' /\ DeadClaim' /\ ClaimHeld' /\ ClaimantWorks'
           /\ \A r \in Runners : ~MayStart(r)'
<1>1. NobodyPast' /\ ClaimHeld'
  BY DEF NobodyPast, ClaimHeld, Past
<1>2. claim' # None => claim'.run \in Runners /\ runner'[claim'.run].pc \in {"unborn", "dead"}
  BY DEF DeadClaim, Live, TypeOK, Claims
<1> QED BY <1>1, <1>2 DEF DeadClaim, ClaimantWorks, MayStart, Live

(* No new claim. *)
LEMMA StaysBorn ==
    ASSUME Shaped, ClaimBorn, claim' \in {claim, None},
           \A q \in Runners : runner'[q] = runner[q] \/ runner'[q].pc = "dead",
           \A n \in Managers : mgr'[n] = mgr[n] \/ mgr'[n].pc \notin {"publish", "commit"}
    PROVE  ClaimBorn'
<1>1. claim # None => claim.run \in Runners
  BY DEF Shaped, TypeOK, Claims
<1>2. \A n \in Managers : mgr[n].pc \in {"publish", "commit"} => mgr[n].run \in Runners
  BY DEF Shaped, ManagerShape
<1> QED BY <1>1, <1>2 DEF ClaimBorn

(* The claim of a child goes only when the child is dead. *)
LEMMA ChildrenScrubbed ==
    ASSUME TypeOK, ChildrenClaimed, UNCHANGED <<proc, history>>,
           child' = child \/ (ChildReady /\ child' = None)
    PROVE  ChildrenClaimed'
<1>1. CASE child' = child
  BY <1>1 DEF ChildrenClaimed, history
<1>2. CASE ChildReady
  BY <1>2 DEF ChildrenClaimed, ChildReady, TypeOK, history
<1> QED BY <1>1, <1>2

(* The manager goes on deciding, on what the job is now. *)
LEMMA Decides ==
    ASSUME OneManager, NEW m \in Managers, mgr'[m].pc \in {"recheck", "clear", "spawn"},
           job' = mgr'[m].seen, job'.st \in Active, result' = None, NobodyPast', DeadClaim',
           mgr'[m].pc = "recheck" \/ mgr'[m].mode = "recover" \/ starts' = 0
    PROVE  ManagerAlone'
<1>1. \A n \in Managers : n = m
  BY DEF OneManager
<1> QED BY <1>1 DEF ManagerAlone, Deciding

(* The manager decides nothing any more. *)
LEMMA Undecided ==
    ASSUME OneManager, NEW m \in Managers, mgr'[m].pc \in {"idle", "handoff"}
    PROVE  ManagerAlone'
<1>1. \A n \in Managers : n = m
  BY DEF OneManager
<1> QED BY <1>1 DEF ManagerAlone, Deciding

(* An active job without a runner is ended by its manager, or left as it is.  *)
LEMMA EndedByManager ==
    ASSUME IInv, NobodyPast, DeadClaim, job.st \in Active, result = None,
           NEW outcome \in {"runner_launch_failed", "recovery_exhausted"},
           Persisted(outcome) \/ UNCHANGED <<job, result, claim>>, UNCHANGED history,
           \A q \in Runners : runner'[q] = runner[q] \/ runner'[q].pc = "dead"
    PROVE  /\ ClaimHeld' /\ StartsOnce' /\ ClaimantWorks' /\ NoClaimLeft' /\ Untouched'
           /\ CleanupTold'
<1>1. /\ outcome \in Terminal /\ outcome \notin Reached /\ outcome \notin BeforeStart
      /\ TypeOK /\ StartsOnce
  BY DEF Terminal, Reached, BeforeStart, IInv, Shaped
<1>2. claim' \in {claim, None}
  BY DEF Persisted
<1>3. ClaimHeld' /\ ClaimantWorks' /\ NobodyPast' /\ \A r \in Runners : ~MayStart(r)'
  BY <1>1, <1>2, Undisturbed
<1>4. result' \in {None, outcome} /\ job'.st \in Active \cup {outcome}
      /\ (job'.st = outcome => ~job'.waiting /\ (job'.saved => result' = outcome)
                                /\ (~job'.pending => claim' = None))
      /\ (job'.st # outcome => job' = job)
  <2>1. job.st # outcome
    BY <1>1, ActiveFacts
  <2> QED BY <2>1 DEF Persisted
<1>5. StartsOnce'
  BY <1>1, <1>3, <1>4, ActiveFacts DEF StartsOnce, history
<1>6. NoClaimLeft'
  BY <1>1, <1>4, ActiveFacts DEF NoClaimLeft
<1>7. Untouched'
  BY <1>1, <1>4, ActiveFacts DEF Untouched
<1>8. CleanupTold'
  BY <1>1, <1>3, <1>4, ActiveFacts DEF CleanupTold, NobodyPast, Past
<1> QED BY <1>3, <1>5, <1>6, <1>7, <1>8

(* A staged draft ends: nothing was started and nobody is there.              *)
LEMMA StagedEnds ==
    ASSUME OneManager, IInv, Shaped', NEW m \in Managers, mgr[m].pc = "idle",
           job.st = "staged", NEW outcome \in BeforeStart, Persisted(outcome),
           UNCHANGED <<child, mgr, runner, proc, history>>
    PROVE  IInv'
<1>1. /\ starts = 0 /\ \A r \in Runners : runner[r].pc = "unborn"
      /\ outcome \in Terminal /\ outcome \notin Reached /\ outcome \notin Active
  BY DEF IInv, Untouched, BeforeStart, Terminal, Reached, Active
<1>2. claim = None /\ TypeOK
  BY <1>1 DEF IInv, Shaped, ClaimBorn, TypeOK, Claims
<1>3. claim' = None /\ starts' = 0 /\ \A r \in Runners : runner'[r].pc = "unborn"
  BY <1>1, <1>2 DEF Persisted, history
<1>4. /\ job'.st \in {"staged", outcome} /\ result' \in {result, outcome}
      /\ job'.st = outcome => ~job'.waiting /\ (job'.saved => result' = outcome)
      /\ job'.st # outcome => job' = job
  BY <1>1, ActiveFacts DEF Persisted
<1>5. \A n \in Managers : mgr'[n].pc = "idle"
  BY DEF OneManager
<1>6. ClaimHeld' /\ ManagerAlone' /\ ClaimantWorks' /\ ClaimBorn' /\ NoClaimLeft'
  BY <1>3, <1>5 DEF ClaimHeld, Past, ManagerAlone, Deciding, ClaimantWorks, Live, ClaimBorn,
     NoClaimLeft
<1>7. StartsOnce'
  BY <1>1, <1>3, <1>4, ActiveFacts DEF IInv, StartsOnce, MayStart
<1>8. Untouched'
  BY <1>3, <1>4, <1>5, ActiveFacts DEF IInv, Untouched
<1>9. CleanupTold'
  BY <1>1, <1>3, <1>4, ActiveFacts DEF IInv, CleanupTold, Cleaned
<1>10. ChildrenClaimed'
  BY DEF IInv, ChildrenClaimed, history
<1> QED BY <1>6, <1>7, <1>8, <1>9, <1>10 DEF IInv

(* A step that leaves alone what the invariant speaks of.                     *)
LEMMA NothingMoves ==
    ASSUME IInv, Shaped', UNCHANGED <<job, result, claim, child, mgr, runner, proc, history>>
    PROVE  IInv'
  BY DEF IInv, ClaimHeld, ManagerAlone, NobodyPast, DeadClaim, Live, StartsOnce, MayStart,
     ClaimantWorks, ClaimBorn, NoClaimLeft, Untouched, CleanupTold, Cleaned, ChildrenClaimed,
     history

(* Accept keeps the invariant: nothing was started under this key. *)
LEMMA Accept_Keeps == ASSUME OneManager, IInv, NEW m \in Managers, Accept(m) PROVE IInv'
<1>0. TypeOK /\ Shaped /\ ClaimHeld /\ ManagerAlone /\ StartsOnce /\ ClaimantWorks
      /\ ClaimBorn /\ NoClaimLeft /\ Untouched /\ CleanupTold /\ ChildrenClaimed
  BY DEF IInv, Shaped
<1>1. /\ Shaped' /\ mgr[m].pc = "idle" /\ job.st = "none"
      /\ UNCHANGED <<result, claim, child, runner, proc, history>>
      /\ \/ Enters(m, "spawn", "start", job') /\ Writes("queued", FALSE)
         \/ mgr' = mgr /\ Writes("staged", FALSE)
  BY <1>0, Accept_Effect
<1>2. /\ NobodyPast /\ DeadClaim /\ claim = None /\ starts = 0
      /\ \A r \in Runners : runner[r].pc = "unborn"
  <2>1. starts = 0 /\ \A r \in Runners : runner[r].pc = "unborn"
    BY <1>0, <1>1 DEF Untouched
  <2>2. claim = None
    BY <1>0, <2>1 DEF ClaimBorn, TypeOK, Claims
  <2> QED BY <2>1, <2>2 DEF NobodyPast, DeadClaim, Past
<1>3. ClaimHeld'
  BY <1>0, <1>1 DEF ClaimHeld, Past, Enters
<1>4. ManagerAlone'
  <2>1. NobodyPast' /\ DeadClaim'
    BY <1>0, <1>1, <1>2, Undisturbed
  <2>2. CASE Enters(m, "spawn", "start", job') /\ Writes("queued", FALSE)
    <3>1. job'.st \in Active /\ result' = None /\ starts' = 0
      BY <1>0, <1>1, <1>2, <2>2, ActiveFacts DEF Writes, Untouched, history
    <3> QED BY OneManager, <2>1, <2>2, <3>1, Decides DEF Enters
  <2>3. CASE mgr' = mgr
    BY OneManager, <1>1, <2>3, Undecided
  <2> QED BY <1>1, <2>2, <2>3
<1>5. StartsOnce'
  BY <1>0, <1>1 DEF StartsOnce, MayStart, Enters, Writes, history
<1>6. ClaimantWorks'
  BY <1>1, <1>2 DEF ClaimantWorks, Enters
<1>7. NoClaimLeft'
  BY <1>1, <1>2 DEF NoClaimLeft, Enters
<1>8. Untouched'
  <2>1. result = None
    BY <1>0, <1>1 DEF Untouched
  <2>2. \A n \in Managers : n = m
    BY DEF OneManager
  <2> QED BY <1>1, <1>2, <2>1, <2>2, ActiveFacts DEF Untouched, Writes, history
<1>9. CleanupTold'
  BY <1>0, <1>1, ActiveFacts DEF CleanupTold, Cleaned, Enters, Writes, history
<1>10. ChildrenClaimed'
  BY <1>0, <1>1 DEF ChildrenClaimed, Enters, history
<1>11. ClaimBorn'
  BY <1>0, <1>1 DEF ClaimBorn, Enters
<1> QED BY <1>1, <1>3, <1>4, <1>5, <1>6, <1>7, <1>8, <1>9, <1>10, <1>11 DEF IInv

(* Replay keeps the invariant: a queued job has started nothing. *)
LEMMA Replay_Keeps == ASSUME OneManager, IInv, NEW m \in Managers, Replay(m) PROVE IInv'
<1>0. TypeOK /\ Shaped /\ ClaimHeld /\ ManagerAlone /\ StartsOnce /\ ClaimantWorks
      /\ ClaimBorn /\ NoClaimLeft /\ Untouched /\ CleanupTold /\ ChildrenClaimed
  BY DEF IInv, Shaped
<1>1. /\ Shaped' /\ mgr[m].pc = "idle" /\ job.st = "queued" /\ ~RunnerCurrent(job)
      /\ result = None /\ Enters(m, "spawn", "start", job)
      /\ UNCHANGED <<job, result, claim, child, runner, proc, history>>
  BY <1>0, Replay_Effect
<1>2. NobodyPast /\ DeadClaim
  BY <1>1, Uncurrent
<1>3. ClaimHeld'
  BY <1>0, <1>1 DEF ClaimHeld, Past, Enters
<1>4. ManagerAlone'
  <2>1. NobodyPast' /\ DeadClaim'
    BY <1>0, <1>1, <1>2, Undisturbed
  <2>2. job'.st \in Active /\ result' = None /\ starts' = 0
    BY <1>0, <1>1, ActiveFacts DEF StartsOnce, history, TypeOK
  <2> QED BY OneManager, <1>1, <2>1, <2>2, Decides DEF Enters
<1>5. StartsOnce'
  BY <1>0, <1>1 DEF StartsOnce, MayStart, Enters, history
<1>6. ClaimantWorks'
  BY <1>0, <1>1 DEF ClaimantWorks, Live, Enters
<1>7. NoClaimLeft'
  BY <1>0, <1>1 DEF NoClaimLeft, Enters
<1>8. Untouched'
  BY <1>1, ActiveFacts DEF Untouched, Enters
<1>9. CleanupTold'
  BY <1>0, <1>1 DEF CleanupTold, Cleaned, Enters, history
<1>10. ChildrenClaimed'
  BY <1>0, <1>1 DEF ChildrenClaimed, Enters, history
<1>11. ClaimBorn'
  BY <1>0, <1>1 DEF ClaimBorn, Enters
<1> QED BY <1>1, <1>3, <1>4, <1>5, <1>6, <1>7, <1>8, <1>9, <1>10, <1>11 DEF IInv

(* ScrubTerminal keeps the invariant: nobody is at work on it. *)
LEMMA ScrubTerminal_Keeps ==
    ASSUME OneManager, IInv, NEW m \in Managers, ScrubTerminal(m)
    PROVE  IInv'
<1>0. TypeOK /\ Shaped /\ ClaimHeld /\ ManagerAlone /\ StartsOnce /\ ClaimantWorks
      /\ ClaimBorn /\ NoClaimLeft /\ Untouched /\ CleanupTold /\ ChildrenClaimed
  BY DEF IInv, Shaped
<1>1. /\ Shaped' /\ mgr[m].pc = "idle" /\ job.st \in Terminal
      /\ (job.pending => ~RunnerCurrent(job))
      /\ job'.st = job.st /\ job'.waiting = job.waiting /\ job'.saved = job.saved
      /\ claim' = None /\ child' = (IF ChildReady THEN None ELSE child)
      /\ UNCHANGED <<result, mgr, runner, proc, history>>
  BY <1>0, ScrubTerminal_Effect
<1>2. NobodyPast /\ DeadClaim
  <2>1. CASE job.pending
    BY <1>1, <2>1, Uncurrent
  <2>2. CASE ~job.pending
    BY <1>0, <1>1, <2>2, Unclaimed DEF NoClaimLeft
  <2> QED BY <2>1, <2>2
<1>3. ClaimHeld'
  BY <1>0, <1>1, <1>2, Undisturbed
<1>4. ManagerAlone'
  BY OneManager, <1>1, Undecided
<1>5. StartsOnce'
  BY <1>0, <1>1 DEF StartsOnce, MayStart, history
<1>6. ClaimantWorks'
  BY <1>0, <1>1, <1>2, Undisturbed
<1>7. NoClaimLeft'
  BY <1>1 DEF NoClaimLeft
<1>8. Untouched'
  BY <1>0, <1>1 DEF Untouched, history
<1>9. CleanupTold'
  BY <1>0, <1>1 DEF CleanupTold, Cleaned, history
<1>10. ChildrenClaimed'
  BY <1>0, <1>1, ChildrenScrubbed
<1>11. ClaimBorn'
  BY <1>0, <1>1, StaysBorn DEF Enters, Leaves, Persisted
<1> QED BY <1>1, <1>3, <1>4, <1>5, <1>6, <1>7, <1>8, <1>9, <1>10, <1>11 DEF IInv

(* AdoptResult keeps the invariant: the result was true when it was written. *)
LEMMA AdoptResult_Keeps ==
    ASSUME OneManager, IInv, NEW m \in Managers, AdoptResult(m)
    PROVE  IInv'
<1>0. TypeOK /\ Shaped /\ ClaimHeld /\ ManagerAlone /\ StartsOnce /\ ClaimantWorks
      /\ ClaimBorn /\ NoClaimLeft /\ Untouched /\ CleanupTold /\ ChildrenClaimed
  BY DEF IInv, Shaped
<1>1. /\ Shaped' /\ mgr[m].pc = "idle" /\ job.st \in Active /\ ~RunnerCurrent(job)
      /\ result # None /\ job'.st = result /\ ~job'.waiting
      /\ claim' = None /\ child' = (IF ChildReady THEN None ELSE child)
      /\ UNCHANGED <<result, mgr, runner, proc, history>>
  BY <1>0, AdoptResult_Effect
<1>2. NobodyPast /\ DeadClaim
  BY <1>1, Uncurrent
<1>3. ClaimHeld'
  BY <1>0, <1>1, <1>2, Undisturbed
<1>4. ManagerAlone'
  BY OneManager, <1>1, Undecided
<1>5. StartsOnce'
  BY <1>0, <1>1, ActiveFacts DEF StartsOnce, MayStart, history, TypeOK
<1>6. ClaimantWorks'
  BY <1>0, <1>1, <1>2, Undisturbed
<1>7. NoClaimLeft'
  BY <1>1 DEF NoClaimLeft
<1>8. Untouched'
  BY <1>0, <1>1, ActiveFacts DEF Untouched, TypeOK
<1>9. CleanupTold'
  BY <1>0, <1>1 DEF CleanupTold, Cleaned, history
<1>10. ChildrenClaimed'
  BY <1>0, <1>1, ChildrenScrubbed
<1>11. ClaimBorn'
  BY <1>0, <1>1, StaysBorn DEF Enters, Leaves, Persisted
<1> QED BY <1>1, <1>3, <1>4, <1>5, <1>6, <1>7, <1>8, <1>9, <1>10, <1>11 DEF IInv

(* Reconcile keeps the invariant: no runner is current, so none is at work. *)
LEMMA Reconcile_Keeps == ASSUME OneManager, IInv, NEW m \in Managers, Reconcile(m) PROVE IInv'
<1>0. TypeOK /\ Shaped /\ ClaimHeld /\ ManagerAlone /\ StartsOnce /\ ClaimantWorks
      /\ ClaimBorn /\ NoClaimLeft /\ Untouched /\ CleanupTold /\ ChildrenClaimed
  BY DEF IInv, Shaped
<1>1. /\ Shaped' /\ mgr[m].pc = "idle" /\ job.st \in Active /\ ~RunnerCurrent(job)
      /\ result = None /\ Enters(m, "recheck", "recover", job)
      /\ UNCHANGED <<job, result, claim, child, runner, proc, history>>
  BY <1>0, Reconcile_Effect
<1>2. NobodyPast /\ DeadClaim
  BY <1>1, Uncurrent
<1>3. ClaimHeld'
  BY <1>0, <1>1 DEF ClaimHeld, Past, Enters
<1>4. ManagerAlone'
  <2>1. NobodyPast' /\ DeadClaim'
    BY <1>0, <1>1, <1>2, Undisturbed
  <2>2. job'.st \in Active /\ result' = None
    BY <1>0, <1>1, ActiveFacts DEF StartsOnce, history, TypeOK
  <2> QED BY OneManager, <1>1, <2>1, <2>2, Decides DEF Enters
<1>5. StartsOnce'
  BY <1>0, <1>1 DEF StartsOnce, MayStart, Enters, history
<1>6. ClaimantWorks'
  BY <1>0, <1>1 DEF ClaimantWorks, Live, Enters
<1>7. NoClaimLeft'
  BY <1>0, <1>1 DEF NoClaimLeft, Enters
<1>8. Untouched'
  BY <1>1, ActiveFacts DEF Untouched, Enters
<1>9. CleanupTold'
  BY <1>0, <1>1 DEF CleanupTold, Cleaned, Enters, history
<1>10. ChildrenClaimed'
  BY <1>0, <1>1 DEF ChildrenClaimed, Enters, history
<1>11. ClaimBorn'
  BY <1>0, <1>1 DEF ClaimBorn, Enters
<1> QED BY <1>1, <1>3, <1>4, <1>5, <1>6, <1>7, <1>8, <1>9, <1>10, <1>11 DEF IInv

(* Recheck keeps the invariant: no other process has touched the job since   *)
(* the recovery began.                                                       *)
LEMMA Recheck_Keeps == ASSUME OneManager, IInv, NEW m \in Managers, Recheck(m) PROVE IInv'
<1>0. TypeOK /\ Shaped /\ ClaimHeld /\ ManagerAlone /\ StartsOnce /\ ClaimantWorks
      /\ ClaimBorn /\ NoClaimLeft /\ Untouched /\ CleanupTold /\ ChildrenClaimed
  BY DEF IInv, Shaped
<1>1. /\ Shaped' /\ mgr[m].pc = "recheck" /\ UNCHANGED <<runner, proc, history>>
      /\ \/ Leaves(m) /\ UNCHANGED <<job, result, claim, child>>
         \/ Leaves(m) /\ result # None
         \/ /\ Leaves(m) /\ ~RunnerCurrent(mgr[m].seen) /\ result = None
            /\ ChildReady /\ child' = None /\ Persisted("recovery_exhausted")
         \/ /\ Enters(m, "clear", RelaunchMode(mgr[m].seen), mgr[m].seen)
            /\ ~RunnerCurrent(mgr[m].seen)
            /\ UNCHANGED <<job, result, claim, child>>
  BY <1>0, Recheck_Effect
<1>2. /\ NobodyPast /\ DeadClaim /\ job = mgr[m].seen /\ job.st \in Active
      /\ result = None
  BY <1>0, <1>1 DEF ManagerAlone, Deciding
<1>e. /\ ClaimHeld' /\ StartsOnce' /\ ClaimantWorks' /\ NoClaimLeft' /\ Untouched'
      /\ CleanupTold' /\ NobodyPast' /\ DeadClaim'
  <2>1. Persisted("recovery_exhausted") \/ UNCHANGED <<job, result, claim>>
    BY <1>1, <1>2
  <2>2. UNCHANGED runner /\ UNCHANGED history
    BY <1>1
  <2>3. claim' \in {claim, None}
    BY <2>1 DEF Persisted
  <2> QED BY <1>0, <1>2, <2>1, <2>2, <2>3, EndedByManager, Undisturbed
<1>3. ClaimHeld'
  BY <1>1, <1>2, <1>e
<1>4. ManagerAlone'
  <2>1. NobodyPast' /\ DeadClaim'
    BY <1>e
  <2>2. CASE Leaves(m)
    BY OneManager, <2>2, Undecided DEF Leaves
  <2>3. CASE /\ Enters(m, "clear", RelaunchMode(mgr[m].seen), mgr[m].seen)
             /\ UNCHANGED <<job, result, claim, child>>
    <3>1. RelaunchMode(mgr[m].seen) = "recover" \/ starts' = 0
      BY <1>0, <1>1, <1>2, ActiveFacts DEF RelaunchMode, StartsOnce, history, TypeOK
    <3> QED BY OneManager, <1>2, <2>1, <2>3, <3>1, Decides DEF Enters
  <2> QED BY <1>1, <1>2, <2>2, <2>3
<1>5. StartsOnce'
  BY <1>1, <1>2, <1>e
<1>6. ClaimantWorks'
  BY <1>1, <1>2, <1>e
<1>7. NoClaimLeft'
  BY <1>1, <1>2, <1>e
<1>8. Untouched'
  BY <1>1, <1>2, <1>e
<1>9. CleanupTold'
  BY <1>1, <1>2, <1>e
<1>10. ChildrenClaimed'
  BY <1>0, <1>1, <1>2, ChildrenScrubbed
<1>11. ClaimBorn'
  BY <1>0, <1>1, <1>2, StaysBorn DEF Enters, Leaves, Persisted
<1> QED BY <1>1, <1>3, <1>4, <1>5, <1>6, <1>7, <1>8, <1>9, <1>10, <1>11 DEF IInv

(* Relaunch keeps the invariant: a job that waited goes back to the queue,   *)
(* having started nothing.                                                   *)
LEMMA Relaunch_Keeps == ASSUME OneManager, IInv, NEW m \in Managers, Relaunch(m) PROVE IInv'
<1>0. TypeOK /\ Shaped /\ ClaimHeld /\ ManagerAlone /\ StartsOnce /\ ClaimantWorks
      /\ ClaimBorn /\ NoClaimLeft /\ Untouched /\ CleanupTold /\ ChildrenClaimed
  BY DEF IInv, Shaped
<1>1. /\ Shaped' /\ mgr[m].pc = "clear" /\ UNCHANGED <<result, child, runner, proc, history>>
      /\ \/ /\ claim' = None /\ Enters(m, "spawn", mgr[m].mode, job')
            /\ IF mgr[m].mode = "wait" THEN Writes("queued", TRUE)
                                       ELSE Writes("interrupted", FALSE)
         \/ Leaves(m) /\ UNCHANGED <<claim, job>>
  BY <1>0, Relaunch_Effect
<1>2. /\ NobodyPast /\ DeadClaim /\ job = mgr[m].seen /\ job.st \in Active
      /\ result = None
  BY <1>0, <1>1 DEF ManagerAlone, Deciding
<1>3. ClaimHeld'
  BY <1>0, <1>1, <1>2, Undisturbed
<1>4. ManagerAlone'
  <2>1. NobodyPast' /\ DeadClaim'
    BY <1>0, <1>1, <1>2, Undisturbed
  <2>2. CASE Leaves(m)
    BY OneManager, <2>2, Undecided DEF Leaves
  <2>3. CASE /\ Enters(m, "spawn", mgr[m].mode, job')
             /\ IF mgr[m].mode = "wait" THEN Writes("queued", TRUE)
                                        ELSE Writes("interrupted", FALSE)
    <3>1. mgr[m].mode = "recover" \/ starts' = 0
      BY <1>0, <1>1 DEF ManagerAlone, Deciding, history
    <3>2. job'.st \in Active /\ result' = None
      BY <1>1, <1>2, <2>3, ActiveFacts DEF Writes
    <3> QED BY OneManager, <2>1, <2>3, <3>1, <3>2, Decides DEF Enters
  <2> QED BY <1>1, <2>2, <2>3
<1>5. StartsOnce'
  <2>1. \A r \in Runners : ~MayStart(r)'
    BY <1>0, <1>1, <1>2, Undisturbed
  <2>2. mgr[m].mode = "wait" => starts = 0
    BY <1>0, <1>1 DEF ManagerAlone, Deciding
  <2>3. starts <= 1 /\ starts' = starts
    BY <1>0, <1>1 DEF StartsOnce, history
  <2>4. CASE job' = job
    BY <1>0, <2>1, <2>3, <2>4 DEF StartsOnce
  <2>5. CASE IF mgr[m].mode = "wait" THEN Writes("queued", TRUE)
                                     ELSE Writes("interrupted", FALSE)
    BY <1>0, <2>1, <2>2, <2>3, <2>5 DEF StartsOnce, Writes, TypeOK
  <2> QED BY <1>1, <2>4, <2>5
<1>6. ClaimantWorks'
  BY <1>0, <1>1, <1>2, Undisturbed
<1>7. NoClaimLeft'
  BY <1>0, <1>1 DEF NoClaimLeft, Enters, Leaves
<1>8. Untouched'
  BY <1>0, <1>1, ActiveFacts DEF Untouched, Enters, Leaves, Writes
<1>9. CleanupTold'
  BY <1>0, <1>1, ActiveFacts DEF CleanupTold, Cleaned, Enters, Leaves, Writes, history
<1>10. ChildrenClaimed'
  BY <1>0, <1>1 DEF ChildrenClaimed, Enters, Leaves, history
<1>11. ClaimBorn'
  BY <1>0, <1>1, StaysBorn DEF Enters, Leaves, Persisted
<1> QED BY <1>1, <1>3, <1>4, <1>5, <1>6, <1>7, <1>8, <1>9, <1>10, <1>11 DEF IInv

(* Spawn keeps the invariant: a new runner has no claim. *)
LEMMA Spawn_Keeps == ASSUME OneManager, IInv, NEW m \in Managers, Spawn(m) PROVE IInv'
<1>0. TypeOK /\ Shaped /\ ClaimHeld /\ ManagerAlone /\ StartsOnce /\ ClaimantWorks
      /\ ClaimBorn /\ NoClaimLeft /\ Untouched /\ CleanupTold /\ ChildrenClaimed
  BY DEF IInv, Shaped
<1>1. /\ Shaped' /\ mgr[m].pc = "spawn" /\ UNCHANGED <<job, result, claim, child, proc, history>>
      /\ Enters(m, "publish", mgr[m].mode, mgr[m].seen)
      /\ \E r \in Runners :
           /\ runner[r].pc = "unborn" /\ mgr'[m].run = r
           /\ \A q \in Runners : q # r => runner'[q] = runner[q]
           /\ runner'[r].pc = "boot" /\ runner'[r].rec = (mgr[m].mode = "recover")
  BY <1>0, Spawn_Effect
<1>2. /\ NobodyPast /\ DeadClaim /\ job = mgr[m].seen /\ job.st \in Active
      /\ result = None
  BY <1>0, <1>1 DEF ManagerAlone, Deciding
<1>3. ClaimHeld'
  BY <1>0, <1>1 DEF ClaimHeld, Past, Enters
<1>4. ManagerAlone'
  <2>0. PICK r \in Runners :
                /\ runner[r].pc = "unborn" /\ mgr'[m].run = r
                /\ \A q \in Runners : q # r => runner'[q] = runner[q]
                /\ runner'[r].pc = "boot" /\ runner'[r].rec = (mgr[m].mode = "recover")
    BY <1>1
  <2>1. NobodyPast'
    BY <1>2, <2>0 DEF NobodyPast, Past
  <2>2. DeadClaim'
    BY <1>0, <1>1, <1>2, <2>0 DEF DeadClaim, Live, ClaimBorn, TypeOK, Claims
  <2>3. mgr[m].mode = "recover" \/ starts' = 0
    BY <1>0, <1>1 DEF ManagerAlone, Deciding, history
  <2>4. \A n \in Managers : n = m
    BY DEF OneManager
  <2>5. /\ mgr'[m].pc = "publish" /\ mgr'[m].mode = mgr[m].mode /\ mgr'[m].seen = job'
        /\ job'.st \in Active /\ result' = None
    BY <1>1, <1>2 DEF Enters
  <2> QED BY <2>0, <2>1, <2>2, <2>3, <2>4, <2>5 DEF ManagerAlone, Deciding
<1>5. StartsOnce'
  <2>0. PICK r \in Runners :
                /\ runner[r].pc = "unborn" /\ mgr'[m].run = r
                /\ \A q \in Runners : q # r => runner'[q] = runner[q]
                /\ runner'[r].pc = "boot" /\ runner'[r].rec = (mgr[m].mode = "recover")
    BY <1>1
  <2>1. ~MayStart(r)'
    BY <1>0, <1>1, <2>0 DEF MayStart, ClaimBorn
  <2>2. \A q \in Runners : q # r => MayStart(q)' = MayStart(q)
    BY <1>1, <2>0 DEF MayStart
  <2> QED BY <1>0, <1>1, <2>1, <2>2 DEF StartsOnce, history
<1>6. ClaimantWorks'
  BY <1>0, <1>1, <1>2 DEF ClaimantWorks, Live, Enters
<1>7. NoClaimLeft'
  BY <1>0, <1>1 DEF NoClaimLeft, Enters
<1>8. Untouched'
  BY <1>0, <1>1 DEF Untouched, Enters
<1>9. CleanupTold'
  BY <1>0, <1>1 DEF CleanupTold, Cleaned, Enters, history
<1>10. ChildrenClaimed'
  BY <1>0, <1>1 DEF ChildrenClaimed, Enters, history
<1>11. ClaimBorn'
  BY <1>0, <1>1 DEF ClaimBorn, Shaped, ManagerShape, Claims, Enters, TypeOK
<1> QED BY <1>1, <1>3, <1>4, <1>5, <1>6, <1>7, <1>8, <1>9, <1>10, <1>11 DEF IInv

(* SpawnFails keeps the invariant: the job ends without a runner. *)
LEMMA SpawnFails_Keeps == ASSUME OneManager, IInv, NEW m \in Managers, SpawnFails(m) PROVE IInv'
<1>0. TypeOK /\ Shaped /\ ClaimHeld /\ ManagerAlone /\ StartsOnce /\ ClaimantWorks
      /\ ClaimBorn /\ NoClaimLeft /\ Untouched /\ CleanupTold /\ ChildrenClaimed
  BY DEF IInv, Shaped
<1>1. /\ Shaped' /\ mgr[m].pc = "spawn" /\ Leaves(m) /\ UNCHANGED <<child, runner, proc, history>>
      /\ \/ mgr[m].mode = "start" /\ Persisted("runner_launch_failed")
         \/ UNCHANGED <<job, result, claim>>
  BY <1>0, SpawnFails_Effect
<1>2. /\ NobodyPast /\ DeadClaim /\ job = mgr[m].seen /\ job.st \in Active
      /\ result = None
  BY <1>0, <1>1 DEF ManagerAlone, Deciding
<1>e. /\ ClaimHeld' /\ StartsOnce' /\ ClaimantWorks' /\ NoClaimLeft' /\ Untouched'
      /\ CleanupTold' /\ NobodyPast' /\ DeadClaim'
  <2>1. Persisted("runner_launch_failed") \/ UNCHANGED <<job, result, claim>>
    BY <1>1, <1>2
  <2>2. UNCHANGED runner /\ UNCHANGED history
    BY <1>1
  <2>3. claim' \in {claim, None}
    BY <2>1 DEF Persisted
  <2> QED BY <1>0, <1>2, <2>1, <2>2, <2>3, EndedByManager, Undisturbed
<1>3. ClaimHeld'
  BY <1>1, <1>2, <1>e
<1>4. ManagerAlone'
  BY OneManager, <1>1, Undecided DEF Leaves
<1>5. StartsOnce'
  BY <1>1, <1>2, <1>e
<1>6. ClaimantWorks'
  BY <1>1, <1>2, <1>e
<1>7. NoClaimLeft'
  BY <1>1, <1>2, <1>e
<1>8. Untouched'
  BY <1>1, <1>2, <1>e
<1>9. CleanupTold'
  BY <1>1, <1>2, <1>e
<1>10. ChildrenClaimed'
  BY <1>0, <1>1 DEF ChildrenClaimed, Leaves, history
<1>11. ClaimBorn'
  BY <1>0, <1>1, StaysBorn DEF Enters, Leaves, Persisted
<1> QED BY <1>1, <1>3, <1>4, <1>5, <1>6, <1>7, <1>8, <1>9, <1>10, <1>11 DEF IInv

(* Publish keeps the invariant: the claim was free and its new owner is not  *)
(* at work.                                                                  *)
LEMMA Publish_Keeps == ASSUME OneManager, IInv, NEW m \in Managers, Publish(m) PROVE IInv'
<1>0. TypeOK /\ Shaped /\ ClaimHeld /\ ManagerAlone /\ StartsOnce /\ ClaimantWorks
      /\ ClaimBorn /\ NoClaimLeft /\ Untouched /\ CleanupTold /\ ChildrenClaimed
  BY DEF IInv, Shaped
<1>1. /\ Shaped' /\ mgr[m].pc = "publish" /\ UNCHANGED <<child, proc, history>>
      /\ \/ /\ claim = None /\ claim' = [run |-> mgr[m].run, phase |-> "provisional"]
            /\ claim' \in Claims /\ mgr'[m].run = mgr[m].run
            /\ Enters(m, "commit", mgr[m].mode, mgr[m].seen)
            /\ UNCHANGED <<job, result, runner>>
         \/ /\ claim # None /\ Leaves(m)
            /\ \A q \in Runners : \/ runner'[q] = runner[q]
                                  \/ q = mgr[m].run /\ runner'[q].pc = "dead"
            /\ \/ mgr[m].mode = "start" /\ Persisted("runner_launch_failed")
               \/ UNCHANGED <<job, result, claim>>
  BY <1>0, Publish_Effect
<1>2. /\ NobodyPast /\ DeadClaim /\ job = mgr[m].seen /\ job.st \in Active
      /\ result = None
  BY <1>0, <1>1 DEF ManagerAlone, Deciding
<1>e. ASSUME claim # None
      PROVE  /\ ClaimHeld' /\ StartsOnce' /\ ClaimantWorks' /\ NoClaimLeft' /\ Untouched'
             /\ CleanupTold'
  <2>1. Persisted("runner_launch_failed") \/ UNCHANGED <<job, result, claim>>
    BY <1>1, <1>e
  <2>2. UNCHANGED history /\ \A q \in Runners : runner'[q] = runner[q] \/ runner'[q].pc = "dead"
    BY <1>1, <1>e
  <2> QED BY <1>2, <2>1, <2>2, EndedByManager
<1>3. ClaimHeld'
  <2>1. CASE claim # None
    BY <1>e, <2>1
  <2>2. CASE claim = None
    BY <1>1, <1>2, <2>2 DEF ClaimHeld, NobodyPast
  <2> QED BY <2>1, <2>2
<1>4. ManagerAlone'
  <2>1. CASE claim # None
    BY OneManager, <1>1, <2>1, Undecided DEF Leaves
  <2>2. CASE claim = None
    <3>1. /\ claim' = [run |-> mgr[m].run, phase |-> "provisional"] /\ claim'.run = mgr[m].run
          /\ UNCHANGED <<job, result, runner, starts>>
      BY <1>1, <2>2 DEF history
    <3>2. /\ mgr'[m].pc = "commit" /\ mgr'[m].run = mgr[m].run
          /\ mgr'[m].mode = mgr[m].mode /\ mgr'[m].seen = mgr[m].seen
      BY <1>1, <2>2 DEF Enters
    <3>3. \A n \in Managers : n = m
      BY DEF OneManager
    <3>4. NobodyPast'
      BY <1>2, <3>1 DEF NobodyPast
    <3>5. /\ runner[mgr[m].run].rec = (mgr[m].mode = "recover")
          /\ mgr[m].mode # "recover" => starts = 0
      BY <1>0, <1>1 DEF ManagerAlone, Deciding
    <3> QED BY <1>2, <3>1, <3>2, <3>3, <3>4, <3>5 DEF ManagerAlone, Deciding
  <2> QED BY <2>1, <2>2
<1>5. StartsOnce'
  <2>1. CASE claim # None
    BY <1>e, <2>1
  <2>2. CASE claim = None
    <3>1. /\ claim' = [run |-> mgr[m].run, phase |-> "provisional"] /\ claim'.run = mgr[m].run
          /\ UNCHANGED <<job, result, runner, starts>>
      BY <1>1, <2>2 DEF history
    <3>2. mgr[m].run \in Runners /\ (runner[mgr[m].run].rec \/ starts = 0)
      BY <1>0, <1>1 DEF ManagerAlone, Deciding, Shaped, ManagerShape
    <3> QED BY <1>0, <3>1, <3>2 DEF StartsOnce, MayStart
  <2> QED BY <2>1, <2>2
<1>6. ClaimantWorks'
  <2>1. CASE claim # None
    BY <1>e, <2>1
  <2>2. CASE claim = None
    <3>1. /\ claim' = [run |-> mgr[m].run, phase |-> "provisional"] /\ claim'.run = mgr[m].run
          /\ UNCHANGED <<job, result, runner, starts>>
      BY <1>1, <2>2 DEF history
    <3> QED BY <1>2, <3>1 DEF ClaimantWorks, NobodyPast, Past
  <2> QED BY <2>1, <2>2
<1>7. NoClaimLeft'
  <2>1. CASE claim # None
    BY <1>e, <2>1
  <2>2. CASE claim = None
    <3>1. /\ claim' = [run |-> mgr[m].run, phase |-> "provisional"] /\ claim'.run = mgr[m].run
          /\ UNCHANGED <<job, result, runner, starts>>
      BY <1>1, <2>2 DEF history
    <3> QED BY <1>0, <1>1, <1>2, <3>1, ActiveFacts DEF NoClaimLeft, history
  <2> QED BY <2>1, <2>2
<1>8. Untouched'
  <2>1. CASE claim # None
    BY <1>e, <2>1
  <2>2. CASE claim = None
    <3>1. /\ claim' = [run |-> mgr[m].run, phase |-> "provisional"] /\ claim'.run = mgr[m].run
          /\ UNCHANGED <<job, result, runner, starts>>
      BY <1>1, <2>2 DEF history
    <3> QED BY <1>0, <1>1, <1>2, <3>1, ActiveFacts DEF Untouched, history
  <2> QED BY <2>1, <2>2
<1>9. CleanupTold'
  <2>1. CASE claim # None
    BY <1>e, <2>1
  <2>2. CASE claim = None
    <3>1. /\ claim' = [run |-> mgr[m].run, phase |-> "provisional"] /\ claim'.run = mgr[m].run
          /\ UNCHANGED <<job, result, runner, starts>>
      BY <1>1, <2>2 DEF history
    <3> QED BY <1>0, <1>1, <1>2, <3>1, ActiveFacts DEF CleanupTold, Cleaned, history
  <2> QED BY <2>1, <2>2
<1>10. ChildrenClaimed'
  BY <1>0, <1>1 DEF ChildrenClaimed, Enters, Leaves, history
<1>11. ClaimBorn'
  BY <1>0, <1>1 DEF ClaimBorn, Shaped, ManagerShape, Claims, Enters, Leaves, Persisted, TypeOK
<1> QED BY <1>1, <1>3, <1>4, <1>5, <1>6, <1>7, <1>8, <1>9, <1>10, <1>11 DEF IInv

(* Commit keeps the invariant: the claim keeps its owner. *)
LEMMA Commit_Keeps == ASSUME OneManager, IInv, NEW m \in Managers, Commit(m) PROVE IInv'
<1>0. TypeOK /\ Shaped /\ ClaimHeld /\ ManagerAlone /\ StartsOnce /\ ClaimantWorks
      /\ ClaimBorn /\ NoClaimLeft /\ Untouched /\ CleanupTold /\ ChildrenClaimed
  BY DEF IInv, Shaped
<1>1. /\ Shaped' /\ mgr[m].pc = "commit" /\ UNCHANGED <<job, result, child, runner, proc, history>>
      /\ claim' = [run |-> mgr[m].run, phase |-> "committed"] /\ claim' \in Claims
      /\ \/ /\ mgr[m].mode = "recover" /\ mgr'[m].pc = "handoff"
            /\ \A n \in Managers : n # m => mgr'[n] = mgr[n]
         \/ Leaves(m)
  BY <1>0, Commit_Effect
<1>2. /\ NobodyPast /\ job = mgr[m].seen /\ job.st \in Active /\ result = None
      /\ claim = [run |-> mgr[m].run, phase |-> "provisional"] /\ claim.run = mgr[m].run
  BY <1>0, <1>1 DEF ManagerAlone, Deciding
<1>3. ClaimHeld'
  BY <1>1, <1>2 DEF ClaimHeld, NobodyPast
<1>4. ManagerAlone'
  BY OneManager, <1>1, Undecided DEF Leaves
<1>5. StartsOnce'
  <2>1. /\ claim'.run = mgr[m].run /\ mgr[m].run \in Runners
        /\ claim = [run |-> mgr[m].run, phase |-> "provisional"]
    BY <1>0, <1>1, <1>2 DEF Shaped, ManagerShape
  <2>2. claim \in Claims /\ claim # None
    BY <2>1, NoneAssumption DEF Claims
  <2>3. \A r \in Runners : MayStart(r)' => MayStart(r)
    BY <1>1, <1>2, <2>1, <2>2 DEF MayStart
  <2> QED BY <1>0, <1>1, <2>3 DEF StartsOnce, history
<1>6. ClaimantWorks'
  <2>1. /\ claim'.run = mgr[m].run /\ mgr[m].run \in Runners
        /\ claim = [run |-> mgr[m].run, phase |-> "provisional"]
    BY <1>0, <1>1, <1>2 DEF Shaped, ManagerShape
  <2>2. claim \in Claims /\ claim # None
    BY <2>1, NoneAssumption DEF Claims
  <2> QED BY <1>1, <1>2, <2>1 DEF ClaimantWorks, NobodyPast, Past
<1>7. NoClaimLeft'
  BY <1>1, <1>2, ActiveFacts DEF NoClaimLeft, Leaves
<1>8. Untouched'
  BY <1>0, <1>1 DEF Untouched, Leaves
<1>9. CleanupTold'
  BY <1>0, <1>1 DEF CleanupTold, Cleaned, Leaves, history
<1>10. ChildrenClaimed'
  BY <1>0, <1>1 DEF ChildrenClaimed, Leaves, history
<1>11. ClaimBorn'
  BY <1>0, <1>1 DEF ClaimBorn, Leaves
<1> QED BY <1>1, <1>3, <1>4, <1>5, <1>6, <1>7, <1>8, <1>9, <1>10, <1>11 DEF IInv

(* Handoff keeps the invariant: the decision was made at the claim. *)
LEMMA Handoff_Keeps == ASSUME OneManager, IInv, NEW m \in Managers, Handoff(m) PROVE IInv'
<1>0. TypeOK /\ Shaped /\ ClaimHeld /\ ManagerAlone /\ StartsOnce /\ ClaimantWorks
      /\ ClaimBorn /\ NoClaimLeft /\ Untouched /\ CleanupTold /\ ChildrenClaimed
  BY DEF IInv, Shaped
<1>1. /\ Shaped' /\ mgr[m].pc = "handoff" /\ Leaves(m)
      /\ UNCHANGED <<job, result, claim, child, runner, proc, history>>
  BY <1>0, Handoff_Effect
<1>3. ClaimHeld'
  BY <1>0, <1>1 DEF ClaimHeld, Past, Leaves
<1>4. ManagerAlone'
  BY <1>0, <1>1 DEF ManagerAlone, NobodyPast, DeadClaim, Live, Past, Deciding, Leaves, history
<1>5. StartsOnce'
  BY <1>0, <1>1 DEF StartsOnce, MayStart, Leaves, history
<1>6. ClaimantWorks'
  BY <1>0, <1>1 DEF ClaimantWorks, Live, Leaves
<1>7. NoClaimLeft'
  BY <1>0, <1>1 DEF NoClaimLeft, Leaves
<1>8. Untouched'
  BY <1>0, <1>1 DEF Untouched, Leaves
<1>9. CleanupTold'
  BY <1>0, <1>1 DEF CleanupTold, Cleaned, Leaves, history
<1>10. ChildrenClaimed'
  BY <1>0, <1>1 DEF ChildrenClaimed, Leaves, history
<1>11. ClaimBorn'
  BY <1>0, <1>1 DEF ClaimBorn, Leaves
<1> QED BY <1>1, <1>3, <1>4, <1>5, <1>6, <1>7, <1>8, <1>9, <1>10, <1>11 DEF IInv

(* Cancel keeps the invariant: only a staged draft ends at once. *)
LEMMA Cancel_Keeps == ASSUME OneManager, IInv, NEW m \in Managers, Cancel(m) PROVE IInv'
<1>1. Shaped
  BY DEF IInv
<1>2. "cancelled_before_start" \in BeforeStart
  BY DEF BeforeStart
<1> QED BY <1>1, <1>2, Cancel_Effect, StagedEnds, NothingMoves

(* ExpireStaged keeps the invariant: a draft has started nothing. *)
LEMMA ExpireStaged_Keeps ==
    ASSUME OneManager, IInv, NEW m \in Managers, ExpireStaged(m)
    PROVE  IInv'
<1>1. Shaped
  BY DEF IInv
<1>2. "expired_before_start" \in BeforeStart
  BY DEF BeforeStart
<1> QED BY <1>1, <1>2, ExpireStaged_Effect, StagedEnds

(* ManagerCrash keeps the invariant: its files speak for it. *)
LEMMA ManagerCrash_Keeps ==
    ASSUME OneManager, IInv, NEW m \in Managers, ManagerCrash(m)
    PROVE  IInv'
<1>0. TypeOK /\ Shaped /\ ClaimHeld /\ ManagerAlone /\ StartsOnce /\ ClaimantWorks
      /\ ClaimBorn /\ NoClaimLeft /\ Untouched /\ CleanupTold /\ ChildrenClaimed
  BY DEF IInv, Shaped
<1>1. /\ Shaped' /\ Leaves(m)
      /\ UNCHANGED <<job, result, claim, child, runner, proc, history>>
  BY <1>0, ManagerCrash_Effect
<1>3. ClaimHeld'
  BY <1>0, <1>1 DEF ClaimHeld, Past, Leaves
<1>4. ManagerAlone'
  BY <1>0, <1>1 DEF ManagerAlone, NobodyPast, DeadClaim, Live, Past, Deciding, Leaves, history
<1>5. StartsOnce'
  BY <1>0, <1>1 DEF StartsOnce, MayStart, Leaves, history
<1>6. ClaimantWorks'
  BY <1>0, <1>1 DEF ClaimantWorks, Live, Leaves
<1>7. NoClaimLeft'
  BY <1>0, <1>1 DEF NoClaimLeft, Leaves
<1>8. Untouched'
  BY <1>0, <1>1 DEF Untouched, Leaves, history
<1>9. CleanupTold'
  BY <1>0, <1>1 DEF CleanupTold, Cleaned, Leaves, history
<1>10. ChildrenClaimed'
  BY <1>0, <1>1 DEF ChildrenClaimed, Leaves, history
<1>11. ClaimBorn'
  BY <1>0, <1>1 DEF ClaimBorn, Leaves
<1> QED BY <1>1, <1>3, <1>4, <1>5, <1>6, <1>7, <1>8, <1>9, <1>10, <1>11 DEF IInv

(* Age keeps the invariant: all managers are idle. *)
LEMMA Age_Keeps == ASSUME IInv, Age PROVE IInv'
<1>1. /\ Shaped' /\ (\A m \in Managers : mgr[m].pc = "idle")
      /\ job.st \notin Terminal /\ job'.st = job.st /\ job'.waiting = job.waiting
      /\ UNCHANGED <<result, claim, child, mgr, runner, proc, history>>
  BY Age_Effect DEF IInv
<1>2. ManagerAlone'
  BY <1>1 DEF ManagerAlone, Deciding
<1>3. \A r \in Runners : runner[r].pc = "scrub" /\ claim # None => claim.run # r
  BY <1>1, ActiveFacts, PastClaimant DEF IInv, ClaimantWorks, Past, Live
<1>4. ClaimantWorks'
  BY <1>1, <1>3 DEF IInv, ClaimantWorks, Live
<1>5. StartsOnce' /\ ClaimHeld' /\ ClaimBorn'
  BY <1>1 DEF IInv, StartsOnce, MayStart, ClaimHeld, ClaimBorn, history
<1>6. NoClaimLeft' /\ Untouched' /\ CleanupTold' /\ ChildrenClaimed'
  BY <1>1, ActiveFacts DEF IInv, NoClaimLeft, Untouched, CleanupTold, Cleaned, ChildrenClaimed,
     history
<1> QED BY <1>1, <1>2, <1>4, <1>5, <1>6 DEF IInv

(* A job that does not exist yet. *)
LEMMA InitHolds == Init => IInv
<1> SUFFICES ASSUME Init PROVE IInv
  OBVIOUS
<1> USE BoundsAssumption
<1>1. NoJob \in Status /\ NoJob.st = "none" /\ NoJob.waiting = FALSE
  BY DEF NoJob, Status
<1>2. Idle \in ManagerState /\ Idle.pc = "idle"
  BY IdleTyped
<1>3. Unborn \in RunnerState /\ ShapeOf(Unborn) /\ Unborn.pc = "unborn"
  BY DEF Unborn, RunnerState, ShapeOf, Points, Phases, Errors
<1>4. \A m \in Managers : mgr[m].pc = "idle"
  BY <1>2 DEF Init
<1>5. \A r \in Runners : runner[r] = Unborn
  BY DEF Init
<1>6. TypeOK
  <2>1. /\ job \in Status /\ mgr \in [Managers -> ManagerState]
        /\ runner \in [Runners -> RunnerState]
        /\ proc \in [Runners -> {"none", "main", "finally", "exited"}]
    BY <1>1, <1>2, <1>3 DEF Init
  <2>2. /\ plan \in BOOLEAN /\ cancel \in BOOLEAN /\ result \in {None} \cup Terminal
        /\ claim \in {None} \cup Claims /\ child \in {None} \cup Runners
        /\ recovery \in {None, Dead} \cup Managers \cup Runners
        /\ transition \in {None, Dead} \cup Managers
        /\ upstream \in {"none", "pending", "ok", "failed"}
    BY DEF Init
  <2>3. owned \subseteq Runners /\ cleaned \in BOOLEAN
    BY DEF Init
  <2>4. starts \in Nat /\ crashes \in 0 .. MaxCrashes /\ faults \in 0 .. MaxWriteFaults
    BY DEF Init
  <2> QED BY <2>1, <2>2, <2>3, <2>4 DEF TypeOK
<1>7. Shaped
  BY <1>3, <1>4, <1>5, <1>6 DEF Shaped, ManagerShape, RunnerShape
<1>8. ClaimHeld /\ ManagerAlone /\ StartsOnce /\ ClaimantWorks /\ ClaimBorn /\ NoClaimLeft
  BY <1>1, <1>3, <1>4, <1>5 DEF Init, ClaimHeld, Past, ManagerAlone, Deciding, StartsOnce,
     MayStart, ClaimantWorks, ClaimBorn, NoClaimLeft
<1>9. Untouched /\ CleanupTold /\ ChildrenClaimed
  BY <1>1, <1>3, <1>4, <1>5, ActiveFacts
       DEF Init, Untouched, CleanupTold, Cleaned, ChildrenClaimed
<1> QED BY <1>7, <1>8, <1>9 DEF IInv

(* Every step keeps types and shapes, with any number of managers. *)
LEMMA ShapedSteps == Shaped /\ [Next]_vars => Shaped'
<1> SUFFICES ASSUME Shaped, [Next]_vars PROVE Shaped'
  OBVIOUS
<1>1. ASSUME NEW m \in Managers, Handler(m) \/ Maintain(m) \/ Request(m) \/ ManagerCrash(m)
      PROVE  Shaped'
  BY <1>1, Accept_Effect, Replay_Effect, ScrubTerminal_Effect, AdoptResult_Effect,
     Reconcile_Effect, Recheck_Effect, Relaunch_Effect, Spawn_Effect, SpawnFails_Effect,
     Publish_Effect, Commit_Effect, Handoff_Effect, Cancel_Effect, ExpireStaged_Effect,
     ManagerCrash_Effect DEF Handler, Maintain, Request
<1>2. ASSUME NEW r \in Runners, Run(r) \/ StepEnds(r) \/ RunnerCrash(r)
      PROVE  Shaped'
  BY <1>2, Boot_Effect, Confirm_Effect, GiveUp_Effect, Reap_Effect, TakeOver_Effect,
     Begin_Effect, Gate_Effect, SpawnStep_Effect, OwnChild_Effect, Settle_Effect,
     WriteResult_Effect, WriteStatus_Effect, ScrubArtifacts_Effect, StepEnds_Effect,
     RunnerCrash_Effect DEF Run
<1>3. CASE UNCHANGED vars
  BY <1>3 DEF vars, files, history, Shaped, TypeOK, ManagerShape, RunnerShape
<1> QED BY <1>1, <1>2, <1>3, Age_Effect, UpstreamSettles_Effect DEF Next

(* With one manager every step keeps the invariant. *)
LEMMA IInvSteps == OneManager /\ IInv /\ [Next]_vars => IInv'
<1> SUFFICES ASSUME OneManager, IInv, [Next]_vars PROVE IInv'
  OBVIOUS
<1>1. ASSUME NEW m \in Managers, Handler(m) \/ Maintain(m) \/ Request(m) \/ ManagerCrash(m)
      PROVE  IInv'
  BY <1>1, Accept_Keeps, Replay_Keeps, ScrubTerminal_Keeps, AdoptResult_Keeps,
     Reconcile_Keeps, Recheck_Keeps, Relaunch_Keeps, Spawn_Keeps, SpawnFails_Keeps,
     Publish_Keeps, Commit_Keeps, Handoff_Keeps, Cancel_Keeps, ExpireStaged_Keeps,
     ManagerCrash_Keeps DEF Handler, Maintain, Request
<1>2. ASSUME NEW r \in Runners, Run(r) \/ StepEnds(r) \/ RunnerCrash(r)
      PROVE  IInv'
  BY <1>2, Boot_Keeps, Confirm_Keeps, GiveUp_Keeps, Reap_Keeps, TakeOver_Keeps,
     Begin_Keeps, Gate_Keeps, SpawnStep_Keeps, OwnChild_Keeps, Settle_Keeps,
     WriteResult_Keeps, WriteStatus_Keeps, ScrubArtifacts_Keeps, StepEnds_Keeps,
     RunnerCrash_Keeps DEF Run
<1>3. CASE Age \/ UpstreamSettles
  BY <1>3, Age_Keeps, UpstreamSettles_Effect, NothingMoves DEF IInv
<1>4. CASE UNCHANGED vars
  <2>1. Shaped'
    BY ShapedSteps DEF IInv
  <2> QED BY <1>4, <2>1, NothingMoves DEF vars, files
<1> QED BY <1>1, <1>2, <1>3, <1>4 DEF Next

(* The invariant is stronger than the properties. *)
LEMMA Safe == IInv => RecoveryNeverReplaysMain /\ OneRunnerWorks /\ SettledHonestly
<1> SUFFICES ASSUME IInv PROVE RecoveryNeverReplaysMain /\ OneRunnerWorks /\ SettledHonestly
  OBVIOUS
<1>1. RecoveryNeverReplaysMain
  BY DEF IInv, StartsOnce, RecoveryNeverReplaysMain
<1>2. \A r, q \in Working : r = q
  <2> SUFFICES ASSUME NEW r \in Working, NEW q \in Working PROVE r = q
    OBVIOUS
  <2>1. r \in Runners /\ q \in Runners /\ runner[r].pc \in Past /\ runner[q].pc \in Past
    BY DEF Working, Past
  <2> QED BY <2>1, PastClaimant
<1>3. \A r, q \in owned : {proc[r], proc[q]} \subseteq {"main", "finally"} => r = q
  BY DEF IInv, ChildrenClaimed
<1>4. SettledHonestly
  <2>1. job.st \in Terminal /\ job.saved => result = job.st
    BY DEF IInv, CleanupTold
  <2>2. starts > 0 /\ job.st \in {"succeeded", "failed", "cancelled", "recovered"} => cleaned
    BY DEF IInv, CleanupTold, Cleaned, Reached
  <2>3. job.st \in {"cancelled_before_start", "expired_before_start"} => starts = 0
    BY DEF IInv, Untouched, BeforeStart
  <2> QED BY <2>1, <2>2, <2>3 DEF SettledHonestly
<1> QED BY <1>1, <1>2, <1>3, <1>4 DEF OneRunnerWorks

(* No step takes an outcome back: while the job is active its claimant or    *)
(* the deciding manager finds no result, and once it has ended only cleanup  *)
(* is left to do.                                                            *)
LEMMA OutcomeSteps ==
    ASSUME IInv, [Next]_vars
    PROVE  /\ result # None /\ job.st # "staged" => result' = result
           /\ job.st \in Terminal => job'.st = job.st
<1> DEFINE Kept == /\ result # None /\ job.st # "staged" => result' = result
                   /\ job.st \in Terminal => job'.st = job.st
<1> SUFFICES Kept
  OBVIOUS
<1>0. Shaped
  BY DEF IInv
<1>1. ASSUME NEW m \in Managers, Handler(m)
      PROVE  Kept
  <2>1. CASE mgr[m].pc \in Deciding
    BY <2>1, ActiveFacts DEF IInv, ManagerAlone
  <2>2. CASE Handoff(m)
    BY <1>0, <2>2, Handoff_Effect
  <2> QED BY <1>1, <2>1, <2>2
        DEF Handler, Recheck, Relaunch, Spawn, SpawnFails, Publish, Commit, Deciding
<1>2. ASSUME NEW m \in Managers, Maintain(m) \/ Request(m) \/ ManagerCrash(m)
      PROVE  Kept
  <2>1. CASE Replay(m) \/ Reconcile(m) \/ ManagerCrash(m)
    BY <1>0, <2>1, Replay_Effect, Reconcile_Effect, ManagerCrash_Effect
  <2>2. CASE ScrubTerminal(m) \/ AdoptResult(m)
    BY <1>0, <2>2, ScrubTerminal_Effect, AdoptResult_Effect, ActiveFacts
  <2>3. CASE Accept(m)
    BY <1>0, <2>3, Accept_Effect, ActiveFacts DEF IInv, Untouched
  <2>4. CASE Cancel(m) \/ ExpireStaged(m)
    BY <1>0, <2>4, Cancel_Effect, ExpireStaged_Effect, ActiveFacts
  <2> QED BY <1>2, <2>1, <2>2, <2>3, <2>4 DEF Maintain, Request
<1>3. ASSUME NEW r \in Runners, runner[r].pc \in Past, Run(r)
      PROVE  Kept
  <2>1. claim # None /\ claim.run = r /\ Live(r)
    BY <1>3, PastClaimant
  <2>2. /\ runner[r].pc # "scrub" => job.st \in Active
        /\ runner[r].pc \notin {"status", "scrub"} => result = None
        /\ runner[r].pc = "scrub" => job.st = runner[r].phase
    BY <2>1 DEF IInv, ClaimantWorks
  <2>3. CASE runner[r].pc \notin {"status", "scrub"}
    BY <2>2, <2>3, ActiveFacts
  <2>4. CASE WriteStatus(r)
    BY <1>0, <2>2, <2>4, WriteStatus_Effect, ActiveFacts
  <2>5. CASE ScrubArtifacts(r)
    BY <1>0, <2>2, <2>5, ScrubArtifacts_Effect DEF SettlesAs
  <2> QED BY <1>3, <2>3, <2>4, <2>5
        DEF Run, Boot, Confirm, GiveUp, Reap, TakeOver, Begin, Gate, SpawnStep, OwnChild, Settle,
            WriteResult
<1>4. ASSUME NEW r \in Runners, Boot(r) \/ Confirm(r) \/ GiveUp(r) \/ StepEnds(r) \/ RunnerCrash(r)
      PROVE  Kept
  BY <1>0, <1>4, Boot_Effect, Confirm_Effect, GiveUp_Effect, StepEnds_Effect, RunnerCrash_Effect
<1>5. ASSUME NEW r \in Runners, Run(r)
      PROVE  Kept
  <2>1. runner[r].pc \in Past \/ Boot(r) \/ Confirm(r) \/ GiveUp(r)
    BY <1>5 DEF Run, Reap, TakeOver, Begin, Gate, SpawnStep, OwnChild, Settle, WriteResult,
        WriteStatus, ScrubArtifacts, Past
  <2> QED BY <1>3, <1>4, <1>5, <2>1
<1>6. CASE Age \/ UpstreamSettles \/ UNCHANGED vars
  BY <1>0, <1>6, Age_Effect, UpstreamSettles_Effect DEF vars, files
<1> QED BY <1>1, <1>2, <1>4, <1>5, <1>6 DEF Next

(* Files, handlers and runners hold the values the code gives them, for any  *)
(* number of managers, runners, recoveries, crashes and failing writes.      *)
THEOREM TypeCorrect == Spec => []TypeOK
<1>1. Init => Shaped
  BY InitHolds DEF IInv
<1>2. Shaped /\ [Next]_vars => Shaped'
  BY ShapedSteps
<1>3. Shaped => TypeOK
  BY DEF Shaped
<1> QED BY <1>1, <1>2, <1>3, PTL DEF Spec

(* The invariant holds of every job directory with one manager. *)
THEOREM JobInvariant == ASSUME OneManager PROVE Spec => []IInv
<1>1. Init => IInv
  BY InitHolds
<1>2. IInv /\ [Next]_vars => IInv'
  BY IInvSteps
<1> QED BY <1>1, <1>2, PTL DEF Spec

(* Recovery does not replay main steps (managed-job-relaunch.mjs, job-       *)
(* runner.mjs): with one manager they start at most once, for any number of  *)
(* runners, recoveries, crashes and failing writes. With two managers it is  *)
(* false (managed_jobs_two_managers).                                        *)
THEOREM MainStartsOnce == ASSUME OneManager PROVE Spec => []RecoveryNeverReplaysMain
<1>1. IInv => RecoveryNeverReplaysMain
  BY Safe
<1> QED BY <1>1, JobInvariant, PTL

(* With one manager one runner works at a time, and of the step processes    *)
(* that were claimed one lives (managed-job-runner-claim.mjs, managed-job-   *)
(* active-child.mjs).                                                        *)
THEOREM OneRunnerAtATime == ASSUME OneManager PROVE Spec => []OneRunnerWorks
<1>1. IInv => OneRunnerWorks
  BY Safe
<1> QED BY <1>1, JobInvariant, PTL

(* With one manager the terminal status is true: of its result, of the       *)
(* finally steps, and of nothing having been started.                        *)
THEOREM SettlesHonestly == ASSUME OneManager PROVE Spec => []SettledHonestly
<1>1. IInv => SettledHonestly
  BY Safe
<1> QED BY <1>1, JobInvariant, PTL

(* With one manager a durable outcome is final: no crash, replay, recovery   *)
(* or late cancellation changes it.                                          *)
THEOREM OutcomesStay == ASSUME OneManager PROVE Spec => OutcomeKept
<1>1. IInv /\ [Next]_vars =>
        [/\ result # None /\ job.st # "staged" => result' = result
         /\ job.st \in Terminal => job'.st = job.st]_vars
  BY OutcomeSteps
<1> QED BY <1>1, JobInvariant, PTL DEF Spec, OutcomeKept
=============================================================================
