---------------------------- MODULE FileMutations --------------------------
(* FileMutationCoordinator (local/file-mutation-coordinator.mjs): the file   *)
(* mutations of one runtime that touch the same paths run one at a time.     *)
(*                                                                           *)
(* Per path key the coordinator keeps the tail of a chain of promises.  A    *)
(* mutation appends itself to the chain of each of its keys in one           *)
(* synchronous step, waits for what was last on each, runs, and releases     *)
(* its place.  tail = current.then(() => gate) settles in later microtasks,  *)
(* which is when a successor may see it: TailSettles is that step.           *)
EXTENDS Naturals

CONSTANTS
    Mutations,   \* calls of withPaths
    Paths,       \* absolute paths
    KeyOf,       \* fileMutationPathKey: the path that stands for all its spellings
    Targets,     \* the paths each mutation names
    Hanging,     \* mutations whose callback may never end
    NoMutation   \* no entry in the map of queues

ASSUME FileMutationsAssumption ==
    /\ KeyOf \in [Paths -> Paths] /\ \A p \in Paths : KeyOf[KeyOf[p]] = KeyOf[p]
    /\ Targets \in [Mutations -> (SUBSET Paths) \ {{}}]
    /\ Hanging \subseteq Mutations
    /\ NoMutation \notin Mutations

VARIABLES
    phase,    \* new | waiting | running | done, per call
    queues,   \* this.queues: whose tail is last, per key
    current,  \* reservation.current: whose tail each call found, per key
    settled,  \* the keys on which a call's tail has settled
    ticket,   \* history: the order in which the calls reserved (0: not yet)
    clock     \* history: the next ticket

mutationVars == << phase, queues, current, settled, ticket, clock >>

Phases == {"new", "waiting", "running", "done"}

(* fault: spellings are not folded.                                          *)
Fault_RawKeys(m) == Targets[m]

(* The set drops the spellings of one file a mutation names twice.           *)
KeysOf(m) == {KeyOf[p] : p \in Targets[m]}

MutationsInit ==
    /\ phase = [m \in Mutations |-> "new"]
    /\ queues = [k \in Paths |-> NoMutation]
    /\ current = [m \in Mutations |-> [k \in Paths |-> NoMutation]]
    /\ settled = [m \in Mutations |-> {}]
    /\ ticket = [m \in Mutations |-> 0]
    /\ clock = 1

(* An absent entry is a promise already resolved.                            *)
HasSettled(p, k) == p # NoMutation => k \in settled[p]

(* fault: Promise.race.                                                      *)
Fault_AnyTail(m) == \E k \in KeysOf(m) : HasSettled(current[m][k], k)

(* Promise.all(reservations.map(({current}) => current))                     *)
MayStart(m) == \A k \in KeysOf(m) : HasSettled(current[m][k], k)

(* fault: the set is taken of the paths, so that a call which names a file   *)
(* under two spellings reserves it twice and waits for itself.               *)
Fault_ReservesTwice(m) ==
    /\ phase[m] = "new"
    /\ phase' = [phase EXCEPT ![m] = "waiting"]
    /\ current' = [current EXCEPT ![m] = [k \in Paths |->
           CASE \E p, q \in Targets[m] : p # q /\ KeyOf[p] = k /\ KeyOf[q] = k -> m
             [] k \in KeysOf(m) -> queues[k]
             [] OTHER -> NoMutation]]
    /\ queues' = [k \in Paths |-> IF k \in KeysOf(m) THEN m ELSE queues[k]]
    /\ ticket' = [ticket EXCEPT ![m] = clock]
    /\ clock' = clock + 1
    /\ UNCHANGED settled

(* Up to the first await: every key is reserved before any is waited for.    *)
WithPaths(m) ==
    /\ phase[m] = "new"
    /\ phase' = [phase EXCEPT ![m] = "waiting"]
    /\ current' = [current EXCEPT ![m] =
           [k \in Paths |-> IF k \in KeysOf(m) THEN queues[k] ELSE NoMutation]]
    /\ queues' = [k \in Paths |-> IF k \in KeysOf(m) THEN m ELSE queues[k]]
    /\ ticket' = [ticket EXCEPT ![m] = clock]
    /\ clock' = clock + 1
    /\ UNCHANGED settled

(* The wait is over and the callback is called.                              *)
Start(m) ==
    /\ phase[m] = "waiting" /\ MayStart(m)
    /\ phase' = [phase EXCEPT ![m] = "running"]
    /\ UNCHANGED << queues, current, settled, ticket, clock >>

(* An entry is removed only by the call whose tail it holds.                 *)
Removed(m, k) == k \in KeysOf(m) /\ queues[k] = m

(* The callback returned or threw: finally releases every gate, then removes *)
(* the queues nobody joined in the meantime.                                 *)
Finish(m) ==
    /\ phase[m] = "running"
    /\ phase' = [phase EXCEPT ![m] = "done"]
    /\ queues' = [k \in Paths |-> IF Removed(m, k) THEN NoMutation ELSE queues[k]]
    /\ UNCHANGED << current, settled, ticket, clock >>

(* current.then(() => gate): both have settled, and a microtask settles it.  *)
TailSettles(m, k) ==
    /\ phase[m] = "done" /\ k \in KeysOf(m) \ settled[m]
    /\ HasSettled(current[m][k], k)
    /\ settled' = [settled EXCEPT ![m] = @ \cup {k}]
    /\ UNCHANGED << phase, queues, current, ticket, clock >>

(* Every call returned and every promise settled.                            *)
Quiet ==
    /\ \A m \in Mutations : phase[m] = "done" /\ settled[m] = KeysOf(m)
    /\ UNCHANGED mutationVars

MutationsNext ==
    \/ \E m \in Mutations : WithPaths(m) \/ Start(m) \/ Finish(m)
    \/ \E m \in Mutations, k \in Paths : TailSettles(m, k)
    \/ Quiet

(* Microtasks run, and a callback that does not hang ends.                   *)
MutationsFairness ==
    /\ \A m \in Mutations : WF_mutationVars(Start(m))
    /\ \A m \in Mutations, k \in Paths : WF_mutationVars(TailSettles(m, k))
    /\ \A m \in Mutations \ Hanging : WF_mutationVars(Finish(m))

MutationsSpec == MutationsInit /\ [][MutationsNext]_mutationVars

MutationsFairSpec == MutationsSpec /\ MutationsFairness

-----------------------------------------------------------------------------
MutationsTypeOK ==
    /\ phase \in [Mutations -> Phases]
    /\ queues \in [Paths -> Mutations \cup {NoMutation}]
    /\ \A p \in Paths : queues[p] # NoMutation => KeyOf[p] = p
    /\ current \in [Mutations -> [Paths -> Mutations \cup {NoMutation}]]
    /\ settled \in [Mutations -> SUBSET Paths]
    /\ ticket \in [Mutations -> Nat]
    /\ clock \in Nat \ {0}

Registered(m) == phase[m] # "new"
Unfinished(m) == phase[m] \in {"waiting", "running"}

SameFile(m, n) == \E p \in Targets[m], q \in Targets[n] : KeyOf[p] = KeyOf[q]

(* Two mutations that name the same file, under whatever spelling and        *)
(* however many other files each names, never run their callbacks at once:   *)
(* what withMutationPaths promises write_file, edit_file and apply_patch.    *)
MutualExclusion ==
    \A m, n \in Mutations :
        /\ m # n /\ SameFile(m, n)
        => ~(phase[m] = "running" /\ phase[n] = "running")

(* Overlapping mutations run in the order they reserved, so the content a    *)
(* later one reads and hashes is what the earlier one left.                  *)
RunInOrder ==
    \A m, n \in Mutations :
        /\ Registered(m) /\ ticket[m] < ticket[n] /\ SameFile(m, n)
        /\ phase[n] \in {"running", "done"}
        => phase[m] = "done"

(* The map has an entry for a path exactly while a mutation waits for it or  *)
(* runs on it, and the entry is the last of those: the deletion in finally   *)
(* neither forgets a waiter nor leaves a path behind for good.               *)
QueuesExact ==
    \A k \in Paths :
        LET onKey == {m \in Mutations : Unfinished(m) /\ k \in KeysOf(m)} IN
        IF onKey = {} THEN queues[k] = NoMutation
        ELSE queues[k] \in onKey /\ \A m \in onKey : ticket[m] <= ticket[queues[k]]

(* No cyclic wait, however the path sets overlap: a mutation that reserved   *)
(* runs, unless an earlier one on one of its own files never ends.  A        *)
(* callback that hangs holds up nobody else.                                 *)
EventuallyRuns ==
    \A m \in Mutations :
        (phase[m] = "waiting")
        ~> (phase[m] # "waiting"
            \/ [](\E e \in Mutations : ticket[e] < ticket[m] /\ SameFile(e, m) /\ Unfinished(e)))
=============================================================================
