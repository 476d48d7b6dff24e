-------------------------- MODULE PatchTransaction -------------------------
(* apply_patch on several files (local/workspace-file-transaction.mjs,       *)
(* commitPatchTransaction): stage the new contents, check that nothing moved *)
(* since the patch was computed, then per operation rename the source to a   *)
(* backup and hard-link the staged file to the target; on any error undo the *)
(* operations in reverse order.                                              *)
(*                                                                           *)
(* A directory entry holds an inode or is Absent.  A file system call is one *)
(* step, so that a crash leaves the entries of some state of this module.    *)
(* Any call may fail without effect, and between two calls another program   *)
(* may create, replace, edit or delete a workspace file; it leaves alone the *)
(* randomly named temporary files and backups.                               *)
EXTENDS Naturals, Sequences, FiniteSets

CONSTANTS
    Files,       \* workspace paths
    Plans,       \* the operation lists apply_patch may have prepared
    Absent,      \* no entry, no path
    MaxFaults,   \* bound: calls that fail
    MaxTouches   \* bound: what other programs do to workspace files

Operation ==
    [kind : {"add", "update", "move", "delete"},
     source : Files \cup {Absent}, target : Files \cup {Absent}]

(* What applyPatch prepares per kind; a move may name one file twice under   *)
(* two spellings, which the collision check lets through.                    *)
WellFormed(o) ==
    CASE o.kind = "add"    -> o.source = Absent /\ o.target \in Files
      [] o.kind = "update" -> o.source \in Files /\ o.target = o.source
      [] o.kind = "move"   -> o.source \in Files /\ o.target \in Files
      [] OTHER             -> o.source \in Files /\ o.target = Absent

PathsOf(o) == {o.source, o.target} \ {Absent}

ASSUME PatchAssumption ==
    /\ Absent \notin Files /\ Absent \notin {"original"} \X Files
    /\ Absent \notin {"staged", "foreign"} \X Nat
    /\ Plans \subseteq Seq(Operation)
    /\ \A plan \in Plans :
           /\ Len(plan) > 0
           /\ \A j \in 1 .. Len(plan) : WellFormed(plan[j])
           /\ \A j, k \in 1 .. Len(plan) :
                  j # k => PathsOf(plan[j]) \cap PathsOf(plan[k]) = {}
    /\ MaxFaults \in Nat /\ MaxTouches \in Nat

VARIABLES
    ops,        \* the operations of this call
    file, temp, backup,   \* directory: workspace files, staged files, backups
    version,    \* edits each inode has had (its change time)
    at, i,      \* the call about to be made, and for which operation
    staged,     \* staged: operations whose temporary file is complete
    committed,  \* committed.length
    created,    \* operations whose record has targetCreated
    targetIdentity, backupIdentity,   \* the identities in the records
    error,      \* the first error: none | failed | leftovers
    unrecovered,  \* rollbackFailures is not empty
    outcome,    \* pending | ok | warned | failed | leftovers | incomplete
    faults, touches,
    made,       \* history: files other programs made
    relinked,   \* history: entries other programs made, replaced or removed
    discarded,  \* history: inodes other programs removed an entry of
    raced       \* history: inodes changed in the windows the code leaves open

directory == << file, temp, backup >>
records == << staged, committed, created, targetIdentity, backupIdentity >>
verdict == << error, unrecovered, outcome >>
others == << touches, made, relinked, discarded, raced >>
vars == << ops, directory, version, at, i, records, verdict, faults, others >>

Original(f) == << "original", f >>
Staged(j) == << "staged", j >>
Foreign(n) == << "foreign", n >>

Indices == 1 .. Len(ops)
Inodes == {Original(f) : f \in Files} \cup {Staged(j) : j \in Indices}
              \cup {Foreign(n) : n \in 1 .. MaxTouches}

Op == ops[i]
HasSource(j) == ops[j].source # Absent
HasContent(j) == ops[j].kind # "delete"
NeedsAbsence(j) == ops[j].kind \in {"add", "move"}

(* filesystemIdentity: the inode and its change time.                        *)
NoIdentity == << Absent, 0 >>
Identity(x) == << x, version[x] >>

(* The content whose hash the patch was computed from.                       *)
Planned(x, f) == x = Original(f) /\ version[x] = 0

Before(plan, f) == IF \E j \in 1 .. Len(plan) : plan[j].source = f THEN Original(f) ELSE Absent

Init ==
    /\ ops \in Plans
    /\ file = [f \in Files |-> Before(ops, f)]
    /\ temp = [j \in Indices |-> Absent] /\ backup = [j \in Indices |-> Absent]
    /\ version = [x \in Inodes |-> 0]
    /\ at = "staging" /\ i = 1
    /\ staged = {} /\ committed = 0 /\ created = {}
    /\ targetIdentity = [j \in Indices |-> NoIdentity]
    /\ backupIdentity = [j \in Indices |-> NoIdentity]
    /\ error = "none" /\ unrecovered = FALSE /\ outcome = "pending"
    /\ faults = 0 /\ touches = 0
    /\ made = {} /\ relinked = {} /\ discarded = {} /\ raced = {}

-----------------------------------------------------------------------------
(* for (const operation of operations)                                       *)
Advance(here, next) ==
    IF i < Len(ops) THEN at' = here /\ i' = i + 1 ELSE at' = next /\ i' = 1

(* catch (error): undo the records, the last one first.                      *)
RaiseAfter(count, kind) == at' = "undoing" /\ i' = count /\ error' = kind
Raise == RaiseAfter(committed, "failed")

Fault == faults < MaxFaults /\ faults' = faults + 1

(* writeFlushedText; a delete has nothing to stage.                          *)
Stage ==
    /\ at = "staging"
    /\ \/ ~HasContent(i) /\ UNCHANGED << temp, staged >>
       \/ /\ HasContent(i)
          /\ temp' = [temp EXCEPT ![i] = Staged(i)]
          /\ staged' = staged \cup {i}
    /\ Advance("staging", "hashing")
    /\ UNCHANGED << ops, file, backup, version, committed, created, targetIdentity,
                    backupIdentity, verdict, faults, others >>

(* The write fails; so may the removal of what was written.                  *)
StageFails ==
    /\ at = "staging" /\ HasContent(i) /\ Fault
    /\ \/ Raise /\ UNCHANGED temp
       \/ RaiseAfter(committed, "leftovers") /\ temp' = [temp EXCEPT ![i] = Staged(i)]
    /\ UNCHANGED << ops, file, backup, version, records, unrecovered, outcome, others >>

HashSource ==
    /\ at = "hashing"
    /\ IF HasSource(i) => Planned(file[Op.source], Op.source)
       THEN at' = "absence" /\ UNCHANGED << i, error >>
       ELSE Raise
    /\ UNCHANGED << ops, directory, version, records, unrecovered, outcome, faults, others >>

CheckAbsence ==
    /\ at = "absence"
    /\ IF NeedsAbsence(i) => file[Op.target] = Absent
       THEN Advance("hashing", "moving") /\ UNCHANGED error
       ELSE Raise
    /\ UNCHANGED << ops, directory, version, records, unrecovered, outcome, faults, others >>

(* await move(source, backup), the record, and its backup identity.          *)
MoveSource ==
    /\ at = "moving" /\ HasSource(i) /\ file[Op.source] # Absent
    /\ backup' = [backup EXCEPT ![i] = file[Op.source]]
    /\ file' = [file EXCEPT ![Op.source] = Absent]
    /\ committed' = i
    /\ \/ /\ backupIdentity' = [backupIdentity EXCEPT ![i] = Identity(file[Op.source])]
          /\ at' = "rechecking" /\ UNCHANGED << i, error, faults >>
       \/ Fault /\ RaiseAfter(i, "failed") /\ UNCHANGED backupIdentity
    /\ UNCHANGED << ops, temp, version, staged, created, targetIdentity, unrecovered,
                    outcome, others >>

NoSource ==
    /\ at = "moving" /\ ~HasSource(i)
    /\ committed' = i /\ at' = "publishing"
    /\ UNCHANGED << ops, directory, version, i, staged, created, targetIdentity,
                    backupIdentity, verdict, faults, others >>

(* The path may have changed hands after HashSource; the backup cannot.      *)
RecheckBackup ==
    /\ at = "rechecking"
    /\ IF Planned(backup[i], Op.source)
       THEN at' = "publishing" /\ UNCHANGED << i, error >>
       ELSE Raise
    /\ UNCHANGED << ops, directory, version, records, unrecovered, outcome, faults, others >>

(* fault: recorded only when the publication is confirmed, too late to undo. *)
Fault_Unrecorded == created

(* record.targetCreated = true, before the publication is confirmed.         *)
CreatedWithThis == created \cup {i}

(* publishFileLinkWithIdentity: link never replaces an entry.                *)
Publish ==
    /\ at = "publishing" /\ HasContent(i) /\ file[Op.target] = Absent
    /\ file' = [file EXCEPT ![Op.target] = temp[i]]
    /\ created' = CreatedWithThis
    /\ at' = "confirming"
    /\ UNCHANGED << ops, temp, backup, version, i, staged, committed, targetIdentity,
                    backupIdentity, verdict, faults, others >>

NothingToPublish ==
    /\ at = "publishing" /\ ~HasContent(i)
    /\ Advance("moving", "cleaning")
    /\ UNCHANGED << ops, directory, version, records, verdict, faults, others >>

(* The identity is taken after the link, so an edit in between passes for    *)
(* the published content.                                                    *)
Confirm ==
    /\ at = "confirming"
    /\ IF file[Op.target] = temp[i]
       THEN /\ targetIdentity' = [targetIdentity EXCEPT ![i] = Identity(temp[i])]
            /\ raced' = IF version[temp[i]] > 0 THEN raced \cup {temp[i]} ELSE raced
            /\ Advance("moving", "cleaning") /\ UNCHANGED error
       ELSE Raise /\ UNCHANGED << targetIdentity, raced >>
    /\ UNCHANGED << ops, directory, version, staged, committed, created, backupIdentity,
                    unrecovered, outcome, faults, touches, made, relinked, discarded >>

(* ENOENT, EEXIST.                                                           *)
Refused ==
    \/ at = "moving" /\ HasSource(i) /\ file[Op.source] = Absent
    \/ at = "publishing" /\ HasContent(i) /\ file[Op.target] # Absent

(* Any other error of the call.                                              *)
Interrupted ==
    /\ \/ at \in {"hashing", "moving"} /\ HasSource(i)
       \/ at = "absence" /\ NeedsAbsence(i)
       \/ at = "publishing" /\ HasContent(i)
       \/ at \in {"rechecking", "confirming"}
    /\ Fault

ForwardFails ==
    /\ (Refused /\ UNCHANGED faults) \/ Interrupted
    /\ UNCHANGED records /\ Raise
    /\ UNCHANGED << ops, directory, version, unrecovered, outcome, others >>

-----------------------------------------------------------------------------
(* The rest of the undo of this record is skipped, or there is no more.      *)
NextRecord == at' = "undoing" /\ i' = i - 1

(* removeLinkedFileSnapshot: only the file this call published, unedited.    *)
StillOurs(j) == Identity(file[ops[j].target]) = targetIdentity[j]

NothingToRemove ==
    /\ at = "undoing" /\ i > 0
    /\ i \in created => file[Op.target] = Absent
    /\ at' = "restoring"
    /\ UNCHANGED << ops, directory, version, i, records, verdict, faults, others >>

InspectTarget ==
    /\ at = "undoing" /\ i > 0 /\ i \in created /\ file[Op.target] # Absent
    /\ \/ StillOurs(i) /\ at' = "removing" /\ UNCHANGED << unrecovered, faults >>
       \/ ~StillOurs(i) /\ at' = "restoring" /\ unrecovered' = TRUE /\ UNCHANGED faults
       \/ Fault /\ at' = "restoring" /\ unrecovered' = TRUE
    /\ UNCHANGED << ops, directory, version, i, records, error, outcome, others >>

(* The path is removed, whatever it holds by now.                            *)
RemoveTarget ==
    /\ at = "removing" /\ at' = "restoring"
    /\ \/ /\ file' = [file EXCEPT ![Op.target] = Absent]
          /\ raced' = IF file[Op.target] # Absent /\ ~StillOurs(i)
                      THEN raced \cup {file[Op.target]} ELSE raced
          /\ UNCHANGED << unrecovered, faults >>
       \/ Fault /\ unrecovered' = TRUE /\ UNCHANGED << file, raced >>
    /\ UNCHANGED << ops, temp, backup, version, i, records, error, outcome,
                    touches, made, relinked, discarded >>

(* fault: restored with rename.                                              *)
Fault_RestoreReplaces(j) == backupIdentity[j] # Identity(backup[j])

(* restoreFileSnapshotNoReplace                                              *)
RestoreRefused(j) ==
    \/ backupIdentity[j] # Identity(backup[j])
    \/ file[ops[j].source] # Absent

RestoreSource ==
    /\ at = "restoring" /\ backup[i] # Absent /\ ~RestoreRefused(i)
    /\ file' = [file EXCEPT ![Op.source] = backup[i]]
    /\ at' = "restored"
    /\ UNCHANGED << ops, temp, backup, version, i, records, verdict, faults, others >>

NothingToRestore ==
    /\ at = "restoring" /\ backup[i] = Absent
    /\ NextRecord
    /\ UNCHANGED << ops, directory, version, records, verdict, faults, others >>

(* The restored entry is confirmed, and the backup inspected once more.      *)
ConfirmRestore ==
    /\ at = "restored" /\ file[Op.source] = backup[i]
    /\ at' = "dropping"
    /\ UNCHANGED << ops, directory, version, i, records, verdict, faults, others >>

DropBackup ==
    /\ at = "dropping"
    /\ backup' = [backup EXCEPT ![i] = Absent]
    /\ NextRecord
    /\ UNCHANGED << ops, file, temp, version, records, verdict, faults, others >>

RestoreFails ==
    /\ \/ /\ UNCHANGED faults
          /\ \/ at = "restoring" /\ backup[i] # Absent /\ RestoreRefused(i)
             \/ at = "restored" /\ file[Op.source] # backup[i]
       \/ /\ Fault
          /\ \/ at \in {"restored", "dropping"}
             \/ at = "restoring" /\ backup[i] # Absent
    /\ unrecovered' = TRUE /\ NextRecord
    /\ UNCHANGED << ops, directory, version, records, error, outcome, others >>

-----------------------------------------------------------------------------
(* fault: the backups are removed with the staged files.                     *)
Fault_RemovesBackups == Indices

(* After a rollback only staged files are removed; a backup that is still    *)
(* there could not be restored.                                              *)
BackupsRemovedOnFailure == {}

(* fault: the result of the cleanup is ignored.                              *)
Fault_CleanupUnreported(keptSome) == IF unrecovered THEN "incomplete" ELSE error

FailureOutcome(keptSome) ==
    CASE unrecovered -> "incomplete"
      [] ~unrecovered /\ keptSome -> "leftovers"
      [] OTHER -> error

(* removeArtifacts: each removal may fail.                                   *)
RemoveArtifacts(temps, backups, keptTemps, keptBackups) ==
    /\ keptTemps \subseteq temps /\ keptBackups \subseteq backups
    /\ faults' = faults + Cardinality(keptTemps) + Cardinality(keptBackups)
    /\ faults' <= MaxFaults
    /\ temp' = [j \in Indices |-> IF j \in temps \ keptTemps THEN Absent ELSE temp[j]]
    /\ backup' = [j \in Indices |-> IF j \in backups \ keptBackups THEN Absent ELSE backup[j]]

Unstage ==
    /\ at = "undoing" /\ i = 0
    /\ \E keptTemps \in SUBSET staged :
           /\ RemoveArtifacts(staged, BackupsRemovedOnFailure, keptTemps, {})
           /\ outcome' = FailureOutcome(keptTemps # {})
    /\ at' = "done"
    /\ UNCHANGED << ops, file, version, i, records, error, unrecovered, others >>

CleanUp ==
    /\ at = "cleaning"
    /\ LET backups == {j \in Indices : HasSource(j)} IN
       \E keptTemps \in SUBSET staged, keptBackups \in SUBSET backups :
           /\ RemoveArtifacts(staged, backups, keptTemps, keptBackups)
           /\ outcome' = IF keptTemps = {} /\ keptBackups = {} THEN "ok" ELSE "warned"
    /\ at' = "done"
    /\ UNCHANGED << ops, file, version, i, records, error, unrecovered, others >>

-----------------------------------------------------------------------------
(* Another program's file system call on a workspace file.                   *)
Touch ==
    /\ at # "done" /\ touches < MaxTouches
    /\ touches' = touches + 1
    /\ UNCHANGED << ops, temp, backup, at, i, records, verdict, faults, raced >>

Discard(x) == discarded' = IF x = Absent THEN discarded ELSE discarded \cup {x}

(* It creates the file, or renames one of its own over it.                   *)
Replaced(f) ==
    /\ Touch
    /\ file' = [file EXCEPT ![f] = Foreign(touches')]
    /\ made' = made \cup {Foreign(touches')}
    /\ relinked' = relinked \cup {f} /\ Discard(file[f])
    /\ UNCHANGED version

Deleted(f) ==
    /\ Touch /\ file[f] # Absent
    /\ file' = [file EXCEPT ![f] = Absent]
    /\ relinked' = relinked \cup {f} /\ Discard(file[f])
    /\ UNCHANGED << version, made >>

Edited(f) ==
    /\ Touch /\ file[f] # Absent
    /\ version' = [version EXCEPT ![file[f]] = @ + 1]
    /\ UNCHANGED << file, made, relinked, discarded >>

Done == at = "done" /\ UNCHANGED vars

Next ==
    \/ Stage \/ StageFails \/ HashSource \/ CheckAbsence
    \/ MoveSource \/ NoSource \/ RecheckBackup
    \/ Publish \/ NothingToPublish \/ Confirm \/ ForwardFails
    \/ NothingToRemove \/ InspectTarget \/ RemoveTarget
    \/ RestoreSource \/ NothingToRestore \/ ConfirmRestore \/ DropBackup \/ RestoreFails
    \/ Unstage \/ CleanUp \/ Done
    \/ \E f \in Files : Replaced(f) \/ Deleted(f) \/ Edited(f)

Spec == Init /\ [][Next]_vars

-----------------------------------------------------------------------------
Undoing == {"undoing", "removing", "restoring", "restored", "dropping"}

Forward == {"hashing", "absence", "moving", "rechecking", "publishing", "confirming"}

Positions == {"staging", "cleaning", "done"} \cup Forward \cup Undoing

DirectoryOK ==
    /\ ops \in Plans
    /\ file \in [Files -> Inodes \cup {Absent}]
    /\ temp \in [Indices -> Inodes \cup {Absent}]
    /\ backup \in [Indices -> Inodes \cup {Absent}]
    /\ version \in [Inodes -> Nat]

RecordsOK ==
    /\ staged \subseteq Indices /\ created \subseteq Indices
    /\ committed \in 0 .. Len(ops)
    /\ targetIdentity \in [Indices -> (Inodes \cup {Absent}) \X Nat]
    /\ backupIdentity \in [Indices -> (Inodes \cup {Absent}) \X Nat]

PositionOK ==
    /\ at \in Positions /\ i \in 0 .. Len(ops)
    /\ at \notin {"undoing", "done"} => i > 0
    /\ at \in Undoing => error # "none"
    /\ error \in {"none", "failed", "leftovers"}
    /\ outcome \in {"pending", "ok", "warned", "failed", "leftovers", "incomplete"}
    /\ faults \in 0 .. MaxFaults

ProgressOK ==
    /\ \A j \in created : HasContent(j)
    /\ at \in {"confirming", "removing"} => i \in created
    /\ \A j \in Indices :
           HasContent(j) /\ (at \in Forward \/ (at = "staging" /\ j < i)) => temp[j] \in Inodes

OthersOK ==
    /\ touches \in 0 .. MaxTouches
    /\ relinked \subseteq Files
    /\ made \subseteq Inodes /\ discarded \subseteq Inodes /\ raced \subseteq Inodes

TypeOK ==
    /\ DirectoryOK /\ RecordsOK /\ PositionOK /\ ProgressOK /\ OthersOK
    /\ unrecovered \in BOOLEAN

Reachable(x) ==
    \/ \E f \in Files : file[f] = x
    \/ \E j \in Indices : temp[j] = x \/ backup[j] = x

(* Until every operation is committed, and so wherever the process dies, the *)
(* file an operation replaces, moves or deletes has a name: its own, or that *)
(* of a backup.  After a failure that could not be undone it still has.      *)
OriginalsKept ==
    \A j \in Indices : HasSource(j) /\ outcome \notin {"ok", "warned"} =>
        Reachable(Original(ops[j].source)) \/ Original(ops[j].source) \in discarded

(* The work of another program is never lost: a file it made, or an edit it  *)
(* made in place, is neither overwritten, nor removed with the backups, nor  *)
(* by the rollback.  The code leaves two windows open, and raced has what    *)
(* falls in them: an edit of a published target before its identity is       *)
(* taken, and what arrives between the inspection of a target and its        *)
(* removal.                                                                  *)
ForeignWorkKept ==
    \A x \in Inodes :
        /\ x \in made \/ version[x] > 0
        => Reachable(x) \/ x \in discarded \/ x \in raced

(* Where other programs left the directory entries alone, a call that fails  *)
(* without saying that recovery was incomplete has put every file back, the  *)
(* very file and not a copy of it, and one that succeeds has made every      *)
(* change.                                                                   *)
AllOrNothing ==
    \A f \in Files \ relinked :
        /\ outcome \in {"failed", "leftovers"} => file[f] = Before(ops, f)
        /\ outcome \in {"ok", "warned"} =>
              \/ \E j \in Indices : ops[j].target = f /\ file[f] = Staged(j)
              \/ (\A j \in Indices : ops[j].target # f) /\ file[f] = Absent

(* A temporary file or a backup that stays behind is reported.               *)
ArtifactsReported ==
    at = "done" /\ (\E j \in Indices : temp[j] # Absent \/ backup[j] # Absent)
        => outcome \in {"warned", "leftovers", "incomplete"}
=============================================================================
