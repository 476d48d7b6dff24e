-------------------------- MODULE FileChangesProofs -------------------------
(* How the daemon changes files: the theorems of FileMutations, which        *)
(* decides who may, and of PatchTransaction, which does it.                  *)
EXTENDS FileMutations, PatchTransaction, FiniteSetTheorems, TLAPS

(* Exclusion, order and exact queues of FileMutations, for any number of     *)
(* mutations and any sets of paths.  The argument is that of a ticket lock,  *)
(* except that a mutation sees only its direct predecessor on each key: the  *)
(* invariant says that this predecessor stands for all the earlier ones.     *)

OnKey(m, k) == k \in KeysOf(m)

Earlier(e, m) == Registered(e) /\ ticket[e] < ticket[m]

(* Reserving is one step, so that tickets are distinct and in the past.      *)
TicketsOrdered ==
    /\ \A m \in Mutations : ticket[m] < clock
    /\ \A m \in Mutations : ~Registered(m) => settled[m] = {}
    /\ \A m, n \in Mutations :
           Registered(m) /\ Registered(n) /\ m # n => ticket[m] # ticket[n]

(* What a mutation found on a key covers every earlier one on it that is not *)
(* done.                                                                     *)
PredecessorCovers ==
    \A m, e \in Mutations : \A k \in Paths :
        /\ Registered(m) /\ OnKey(m, k)
        /\ Earlier(e, m) /\ OnKey(e, k) /\ phase[e] # "done"
        => \E p \in Mutations :
               current[m][k] = p /\ Registered(p) /\ ticket[e] <= ticket[p]

(* A settled tail speaks for its whole chain.                                *)
SettledCovers ==
    \A p, e \in Mutations : \A k \in settled[p] :
        /\ Registered(p) /\ phase[p] = "done"
        /\ Earlier(e, p) /\ OnKey(e, k) => phase[e] = "done"

StartedAfter ==
    \A m, e \in Mutations : \A k \in Paths :
        /\ phase[m] \in {"running", "done"}
        /\ Earlier(e, m) /\ OnKey(m, k) /\ OnKey(e, k)
        => phase[e] = "done"

(* A queue holds the last mutation on its key that is not done.              *)
QueueIsLast ==
    \A k \in Paths :
        /\ queues[k] = NoMutation =>
              \A m \in Mutations : Unfinished(m) => ~OnKey(m, k)
        /\ queues[k] # NoMutation =>
              /\ Unfinished(queues[k]) /\ OnKey(queues[k], k)
              /\ \A m \in Mutations :
                     Unfinished(m) /\ OnKey(m, k) => ticket[m] <= ticket[queues[k]]

MutationsInv ==
    /\ MutationsTypeOK
    /\ TicketsOrdered
    /\ PredecessorCovers
    /\ SettledCovers
    /\ StartedAfter
    /\ QueueIsLast

-----------------------------------------------------------------------------
(* The keys of a mutation are paths, and each stands for itself.             *)
LEMMA KeysArePaths ==
    ASSUME NEW m \in Mutations
    PROVE  KeysOf(m) \subseteq Paths /\ \A k \in KeysOf(m) : KeyOf[k] = k
  BY FileMutationsAssumption DEF KeysOf

(* Two mutations name the same file exactly when they share a key.           *)
LEMMA SameFileSharesKey ==
    ASSUME NEW m \in Mutations, NEW n \in Mutations
    PROVE  SameFile(m, n) <=> \E k \in Paths : OnKey(m, k) /\ OnKey(n, k)
  <1>1. SameFile(m, n) => \E k \in Paths : OnKey(m, k) /\ OnKey(n, k)
    BY KeysArePaths DEF SameFile, OnKey, KeysOf
  <1>2. (\E k \in Paths : OnKey(m, k) /\ OnKey(n, k)) => SameFile(m, n)
    BY DEF SameFile, OnKey, KeysOf
  <1>3. QED
    BY <1>1, <1>2

(* A predecessor whose tail has settled leaves nothing unfinished before m.  *)
LEMMA SettledPredecessor ==
    ASSUME MutationsInv, NEW m \in Mutations, NEW e \in Mutations, NEW k \in Paths,
           Registered(m), OnKey(m, k), Earlier(e, m), OnKey(e, k),
           HasSettled(current[m][k], k)
    PROVE  phase[e] = "done"
  <1> SUFFICES ASSUME phase[e] # "done" PROVE FALSE
    OBVIOUS
  <1> DEFINE p == current[m][k]
  <1>1. p \in Mutations /\ Registered(p) /\ ticket[e] <= ticket[p]
    BY DEF MutationsInv, PredecessorCovers
  <1>2. k \in settled[p]
    BY <1>1, FileMutationsAssumption DEF HasSettled
  <1>3. phase[p] = "done"
    BY <1>1, <1>2 DEF MutationsInv, SettledCovers
  <1>4. ticket[e] # ticket[p]
    BY <1>1, <1>3 DEF MutationsInv, TicketsOrdered, Earlier
  <1>5. Earlier(e, p)
    <2>1. Registered(e)
      BY DEF Earlier
    <2>2. ticket[e] \in Nat /\ ticket[p] \in Nat
      BY <1>1 DEF MutationsInv, MutationsTypeOK
    <2>3. ticket[e] < ticket[p]
      BY <1>1, <1>4, <2>2
    <2>4. QED
      BY <2>1, <2>3 DEF Earlier
  <1>6. QED
    BY <1>1, <1>2, <1>5 DEF MutationsInv, SettledCovers

-----------------------------------------------------------------------------
LEMMA InitHolds == MutationsInit => MutationsInv
  <1> SUFFICES ASSUME MutationsInit PROVE MutationsInv
    OBVIOUS
  <1>1. MutationsTypeOK
    BY DEF MutationsInit, MutationsTypeOK, Phases
  <1>2. TicketsOrdered /\ PredecessorCovers /\ SettledCovers /\ StartedAfter
    BY DEF MutationsInit, TicketsOrdered, PredecessorCovers, SettledCovers, StartedAfter,
           Registered, Earlier
  <1>3. QueueIsLast
    BY DEF MutationsInit, QueueIsLast, Unfinished
  <1>4. QED
    BY <1>1, <1>2, <1>3 DEF MutationsInv

LEMMA MutationsTypeStep == MutationsTypeOK /\ [MutationsNext]_mutationVars => MutationsTypeOK'
  <1> SUFFICES ASSUME MutationsTypeOK, [MutationsNext]_mutationVars PROVE MutationsTypeOK'
    OBVIOUS
  <1> USE DEF MutationsTypeOK, Phases
  <1>1. ASSUME NEW m \in Mutations, WithPaths(m) PROVE MutationsTypeOK'
    <2>1. \A k \in Paths : queues'[k] # NoMutation => KeyOf[k] = k
      BY <1>1, KeysArePaths DEF WithPaths
    <2>2. current' \in [Mutations -> [Paths -> Mutations \cup {NoMutation}]]
      BY <1>1 DEF WithPaths
    <2>3. queues' \in [Paths -> Mutations \cup {NoMutation}]
      BY <1>1 DEF WithPaths
    <2>4. QED
      BY <1>1, <2>1, <2>2, <2>3 DEF WithPaths
  <1>2. ASSUME NEW m \in Mutations, Start(m) PROVE MutationsTypeOK'
    BY <1>2 DEF Start
  <1>3. ASSUME NEW m \in Mutations, Finish(m) PROVE MutationsTypeOK'
    <2>1. /\ queues' \in [Paths -> Mutations \cup {NoMutation}]
          /\ \A k \in Paths : queues'[k] # NoMutation => queues'[k] = queues[k]
      BY <1>3 DEF Finish
    <2>2. QED
      BY <1>3, <2>1 DEF Finish
  <1>4. ASSUME NEW m \in Mutations, NEW k \in Paths, TailSettles(m, k) PROVE MutationsTypeOK'
    BY <1>4 DEF TailSettles
  <1>5. CASE UNCHANGED mutationVars
    BY <1>5 DEF mutationVars
  <1>6. QED
    BY <1>1, <1>2, <1>3, <1>4, <1>5 DEF MutationsNext, Quiet

(* WithPaths: the new ticket is the largest, and what is found on a key is   *)
(* the last mutation there that is not done.                                 *)
LEMMA ReserveStep ==
    ASSUME MutationsInv, NEW m \in Mutations, WithPaths(m)
    PROVE  MutationsInv'
  <1> USE DEF MutationsInv
  <1>1. MutationsTypeOK'
    BY MutationsTypeStep DEF MutationsNext
  <1>2. /\ ~Registered(m) /\ Registered(m)' /\ ticket'[m] = clock
        /\ phase'[m] = "waiting" /\ settled' = settled
    BY DEF WithPaths, MutationsTypeOK, Registered
  <1>3. \A n \in Mutations \ {m} :
            /\ phase'[n] = phase[n] /\ ticket'[n] = ticket[n]
            /\ current'[n] = current[n] /\ Registered(n)' = Registered(n)
    BY DEF WithPaths, MutationsTypeOK, Registered
  <1>4. \A n \in Mutations : \A k \in Paths : OnKey(n, k)' = OnKey(n, k)
    BY DEF OnKey, KeysOf
  <1>5. \A n \in Mutations \ {m} : ticket[n] \in Nat /\ ticket[n] < clock
    BY DEF MutationsTypeOK, TicketsOrdered
  <1>6. \A e, n \in Mutations \ {m} : Earlier(e, n)' = Earlier(e, n)
    BY <1>3 DEF Earlier
  <1>7. \A n \in Mutations : ~Earlier(m, n)'
    <2> SUFFICES ASSUME NEW n \in Mutations PROVE ~(ticket'[m] < ticket'[n])
      BY DEF Earlier
    <2>1. CASE n = m
      BY <2>1, <1>2 DEF MutationsTypeOK
    <2>2. CASE n # m
      BY <2>2, <1>2, <1>3, <1>5 DEF MutationsTypeOK
    <2>3. QED
      BY <2>1, <2>2
  <1>8. TicketsOrdered'
    <2>1. \A n \in Mutations : ticket'[n] < clock'
      BY <1>2, <1>3, <1>5 DEF WithPaths, MutationsTypeOK
    <2>2. \A n \in Mutations : ~Registered(n)' => settled'[n] = {}
      BY <1>2, <1>3 DEF TicketsOrdered
    <2>3. \A n, e \in Mutations :
              Registered(n)' /\ Registered(e)' /\ n # e => ticket'[n] # ticket'[e]
      BY <1>2, <1>3, <1>5 DEF TicketsOrdered, MutationsTypeOK
    <2>4. QED
      BY <2>1, <2>2, <2>3 DEF TicketsOrdered
  <1>9. PredecessorCovers'
    <2> SUFFICES ASSUME NEW n \in Mutations, NEW e \in Mutations, NEW k \in Paths,
                        Registered(n)', OnKey(n, k), Earlier(e, n)', OnKey(e, k),
                        phase'[e] # "done"
                 PROVE  \E p \in Mutations :
                            current'[n][k] = p /\ Registered(p)' /\ ticket'[e] <= ticket'[p]
      BY <1>4 DEF PredecessorCovers
    <2>1. e # m
      BY <1>7
    <2>2. CASE n = m
      <3>1. Unfinished(e)
        BY <2>1, <1>3 DEF Unfinished, Earlier, Registered, MutationsTypeOK, Phases
      <3>2. queues[k] # NoMutation /\ ticket[e] <= ticket[queues[k]] /\ Unfinished(queues[k])
        BY <3>1 DEF QueueIsLast
      <3>3. current'[n][k] = queues[k]
        BY <2>2 DEF WithPaths, OnKey, MutationsTypeOK
      <3>4. queues[k] \in Mutations \ {m}
        BY <3>2, <1>2 DEF MutationsTypeOK, Unfinished, Registered
      <3>5. Registered(queues[k])
        BY <3>2 DEF Unfinished, Registered
      <3>6. QED
        BY <3>2, <3>3, <3>4, <3>5, <2>1, <1>3
    <2>3. CASE n # m
      <3>1. Registered(n) /\ Earlier(e, n) /\ phase[e] # "done"
        BY <2>1, <2>3, <1>3, <1>6
      <3>2. PICK p \in Mutations :
                current[n][k] = p /\ Registered(p) /\ ticket[e] <= ticket[p]
        BY <3>1 DEF PredecessorCovers
      <3>3. p # m
        BY <3>2, <1>2
      <3>4. QED
        BY <3>2, <3>3, <2>1, <2>3, <1>3
    <2>4. QED
      BY <2>2, <2>3
  <1>10. SettledCovers'
    <2> SUFFICES ASSUME NEW n \in Mutations, NEW e \in Mutations, NEW k \in settled[n]
                 PROVE  /\ Registered(n)' /\ phase'[n] = "done"
                        /\ Earlier(e, n)' /\ OnKey(e, k)' => phase'[e] = "done"
      BY <1>2 DEF SettledCovers
    <2>1. n # m
      BY <1>2 DEF TicketsOrdered
    <2>2. k \in Paths
      BY DEF MutationsTypeOK
    <2>3. Registered(n) /\ phase[n] = "done" /\ (Earlier(e, n) /\ OnKey(e, k) => phase[e] = "done")
      BY DEF SettledCovers
    <2>4. QED
      BY <2>1, <2>2, <2>3, <1>3, <1>4, <1>6, <1>7
  <1>11. StartedAfter'
    BY <1>2, <1>3, <1>4, <1>6, <1>7 DEF StartedAfter
  <1>12. QueueIsLast'
    <2> SUFFICES ASSUME NEW k \in Paths
                 PROVE  QueueIsLast!(k)'
      BY DEF QueueIsLast
    <2>1. \A n \in Mutations \ {m} : Unfinished(n)' = Unfinished(n)
      BY <1>3 DEF Unfinished
    <2>2. Unfinished(m)' /\ ~Unfinished(m)
      BY <1>2 DEF Unfinished, Registered
    <2>3. CASE OnKey(m, k)
      <3>1. queues'[k] = m
        BY <2>3 DEF WithPaths, OnKey
      <3>2. \A n \in Mutations : ticket'[n] <= ticket'[m]
        BY <1>2, <1>3, <1>5 DEF MutationsTypeOK
      <3>3. QED
        BY <3>1, <3>2, <2>2, <2>3, <1>4, FileMutationsAssumption
    <2>4. CASE ~OnKey(m, k)
      <3>1. queues'[k] = queues[k]
        BY <2>4 DEF WithPaths, OnKey
      <3>2. queues[k] # NoMutation => queues[k] \in Mutations \ {m}
        BY <2>2 DEF MutationsTypeOK, QueueIsLast
      <3>3. QED
        BY <3>1, <3>2, <2>1, <2>4, <1>3, <1>4 DEF QueueIsLast
    <2>5. QED
      BY <2>3, <2>4
  <1>13. QED
    BY <1>1, <1>8, <1>9, <1>10, <1>11, <1>12

(* Start: every predecessor has settled, so that nothing earlier remains.    *)
LEMMA StartStep ==
    ASSUME MutationsInv, NEW m \in Mutations, Start(m)
    PROVE  MutationsInv'
  <1> USE DEF MutationsInv
  <1>1. MutationsTypeOK'
    BY MutationsTypeStep DEF MutationsNext
  <1>2. phase[m] = "waiting" /\ phase' = [phase EXCEPT ![m] = "running"]
    BY DEF Start
  <1>3. /\ queues' = queues /\ current' = current /\ settled' = settled
        /\ ticket' = ticket /\ clock' = clock
    BY DEF Start
  <1>4. \A n \in Mutations :
            /\ Registered(n)' = Registered(n) /\ Unfinished(n)' = Unfinished(n)
            /\ (phase'[n] = "done") = (phase[n] = "done")
            /\ n # m => phase'[n] = phase[n]
    BY <1>2 DEF MutationsTypeOK, Registered, Unfinished
  <1>5. \A n \in Mutations : \A k \in Paths : OnKey(n, k)' = OnKey(n, k)
    BY DEF OnKey, KeysOf
  <1>6. \A e, n \in Mutations : Earlier(e, n)' = Earlier(e, n)
    BY <1>3, <1>4 DEF Earlier
  <1>7. TicketsOrdered'
    BY <1>3, <1>4 DEF TicketsOrdered
  <1>8. PredecessorCovers'
    BY <1>3, <1>4, <1>5, <1>6 DEF PredecessorCovers
  <1>9. SettledCovers'
    BY <1>3, <1>4, <1>5, <1>6 DEF SettledCovers, MutationsTypeOK
  <1>10. StartedAfter'
    <2> SUFFICES ASSUME NEW n \in Mutations, NEW e \in Mutations, NEW k \in Paths,
                        phase'[n] \in {"running", "done"},
                        Earlier(e, n), OnKey(n, k), OnKey(e, k)
                 PROVE  phase[e] = "done"
      BY <1>4, <1>5, <1>6 DEF StartedAfter
    <2>1. CASE n = m
      <3>1. HasSettled(current[m][k], k)
        BY <2>1 DEF Start, MayStart, OnKey
      <3>2. Registered(m)
        BY <1>2 DEF Registered
      <3>3. QED
        BY <2>1, <3>1, <3>2, SettledPredecessor
    <2>2. CASE n # m
      BY <2>2, <1>4 DEF StartedAfter
    <2>3. QED
      BY <2>1, <2>2
  <1>11. QueueIsLast'
    <2> SUFFICES ASSUME NEW k \in Paths PROVE QueueIsLast!(k)'
      BY DEF QueueIsLast
    <2>1. queues[k] # NoMutation => queues[k] \in Mutations
      BY DEF MutationsTypeOK
    <2>2. QED
      BY <2>1, <1>3, <1>4, <1>5 DEF QueueIsLast
  <1>12. QED
    BY <1>1, <1>7, <1>8, <1>9, <1>10, <1>11

(* Finish: an entry that holds the finished mutation had no later one on its *)
(* key, and the earlier ones are done.                                       *)
LEMMA FinishStep ==
    ASSUME MutationsInv, NEW m \in Mutations, Finish(m)
    PROVE  MutationsInv'
  <1> USE DEF MutationsInv
  <1>1. MutationsTypeOK'
    BY MutationsTypeStep DEF MutationsNext
  <1>2. phase[m] = "running" /\ phase' = [phase EXCEPT ![m] = "done"]
    BY DEF Finish
  <1>3. /\ current' = current /\ settled' = settled
        /\ ticket' = ticket /\ clock' = clock
    BY DEF Finish
  <1>4. \A n \in Mutations :
            /\ Registered(n)' = Registered(n)
            /\ phase[n] = "done" => phase'[n] = "done"
            /\ n # m => phase'[n] = phase[n] /\ Unfinished(n)' = Unfinished(n)
    BY <1>2 DEF MutationsTypeOK, Registered, Unfinished
  <1>5. \A n \in Mutations : \A k \in Paths : OnKey(n, k)' = OnKey(n, k)
    BY DEF OnKey, KeysOf
  <1>6. \A e, n \in Mutations : Earlier(e, n)' = Earlier(e, n)
    BY <1>3, <1>4 DEF Earlier
  <1>7. TicketsOrdered'
    BY <1>3, <1>4 DEF TicketsOrdered
  <1>8. PredecessorCovers'
    BY <1>3, <1>4, <1>5, <1>6 DEF PredecessorCovers
  <1>9. SettledCovers'
    BY <1>3, <1>4, <1>5, <1>6 DEF SettledCovers, MutationsTypeOK
  <1>10. StartedAfter'
    BY <1>2, <1>4, <1>5, <1>6 DEF StartedAfter
  <1>11. QueueIsLast'
    <2> SUFFICES ASSUME NEW k \in Paths PROVE QueueIsLast!(k)'
      BY DEF QueueIsLast
    <2>1. ~Unfinished(m)'
      BY <1>2 DEF Unfinished, MutationsTypeOK
    <2>2. CASE queues[k] = m
      <3>1. OnKey(m, k)
        BY <2>2, FileMutationsAssumption DEF QueueIsLast
      <3>2. queues'[k] = NoMutation
        BY <2>2, <3>1 DEF Finish, Removed, OnKey
      <3>3. ASSUME NEW e \in Mutations, Unfinished(e), OnKey(e, k), e # m PROVE FALSE
        <4>1. ticket[e] <= ticket[m]
          BY <2>2, <3>3, FileMutationsAssumption DEF QueueIsLast
        <4>2. ticket[e] # ticket[m]
          BY <3>3, <1>2 DEF TicketsOrdered, Registered, Unfinished
        <4>3. Earlier(e, m)
          <5>1. ticket[e] \in Nat /\ ticket[m] \in Nat
            BY <3>3 DEF MutationsTypeOK
          <5>2. Registered(e) /\ ticket[e] < ticket[m]
            BY <4>1, <4>2, <5>1, <3>3 DEF Registered, Unfinished
          <5>3. QED
            BY <5>2 DEF Earlier
        <4>4. phase[e] = "done"
          BY <4>3, <3>1, <3>3, <1>2 DEF StartedAfter
        <4>5. QED
          BY <4>4, <3>3 DEF Unfinished
      <3>4. \A e \in Mutations : Unfinished(e)' => ~OnKey(e, k)
        BY <3>3, <2>1, <1>4
      <3>5. QED
        BY <3>2, <3>4, <1>5
    <2>3. CASE queues[k] # m
      <3>1. queues'[k] = queues[k]
        BY <2>3 DEF Finish, Removed
      <3>2. queues[k] # NoMutation => queues[k] \in Mutations \ {m}
        BY <2>3 DEF MutationsTypeOK
      <3>3. \A e \in Mutations : Unfinished(e)' => Unfinished(e)
        BY <2>1, <1>4
      <3>4. QED
        BY <3>1, <3>2, <3>3, <1>3, <1>4, <1>5 DEF QueueIsLast
    <2>4. QED
      BY <2>2, <2>3
  <1>12. QED
    BY <1>1, <1>7, <1>8, <1>9, <1>10, <1>11

(* TailSettles: the chain up to the settled tail is done.                    *)
LEMMA SettleStep ==
    ASSUME MutationsInv, NEW m \in Mutations, NEW k \in Paths, TailSettles(m, k)
    PROVE  MutationsInv'
  <1> USE DEF MutationsInv
  <1>1. MutationsTypeOK'
    BY MutationsTypeStep DEF MutationsNext
  <1>2. /\ phase' = phase /\ queues' = queues /\ current' = current
        /\ ticket' = ticket /\ clock' = clock
    BY DEF TailSettles
  <1>3. \A n \in Mutations :
            Registered(n)' = Registered(n) /\ Unfinished(n)' = Unfinished(n)
    BY <1>2 DEF Registered, Unfinished
  <1>4. \A n \in Mutations : \A j \in Paths : OnKey(n, j)' = OnKey(n, j)
    BY DEF OnKey, KeysOf
  <1>5. \A e, n \in Mutations : Earlier(e, n)' = Earlier(e, n)
    BY <1>2, <1>3 DEF Earlier
  <1>6. phase[m] = "done" /\ Registered(m) /\ OnKey(m, k) /\ HasSettled(current[m][k], k)
    BY DEF TailSettles, Registered, OnKey
  <1>7. /\ settled'[m] = settled[m] \cup {k}
        /\ \A n \in Mutations \ {m} : settled'[n] = settled[n]
    BY DEF TailSettles, MutationsTypeOK
  <1>8. TicketsOrdered'
    BY <1>2, <1>3, <1>6, <1>7 DEF TicketsOrdered
  <1>9. PredecessorCovers'
    BY <1>2, <1>3, <1>4, <1>5 DEF PredecessorCovers
  <1>10. SettledCovers'
    <2> SUFFICES ASSUME NEW p \in Mutations, NEW e \in Mutations, NEW j \in settled'[p]
                 PROVE  /\ Registered(p) /\ phase[p] = "done"
                        /\ Earlier(e, p) /\ OnKey(e, j) => phase[e] = "done"
      BY <1>1, <1>2, <1>3, <1>4, <1>5 DEF SettledCovers, MutationsTypeOK
    <2>1. CASE j \in settled[p]
      BY <2>1 DEF SettledCovers
    <2>2. CASE p = m /\ j = k
      BY <2>2, <1>6, SettledPredecessor
    <2>3. QED
      BY <2>1, <2>2, <1>7
  <1>11. StartedAfter'
    BY <1>2, <1>4, <1>5 DEF StartedAfter
  <1>12. QueueIsLast'
    <2> SUFFICES ASSUME NEW j \in Paths PROVE QueueIsLast!(j)'
      BY DEF QueueIsLast
    <2>1. queues[j] # NoMutation => queues[j] \in Mutations
      BY DEF MutationsTypeOK
    <2>2. QED
      BY <2>1, <1>2, <1>3, <1>4 DEF QueueIsLast
  <1>13. QED
    BY <1>1, <1>8, <1>9, <1>10, <1>11, <1>12

LEMMA StutterStep == MutationsInv /\ UNCHANGED mutationVars => MutationsInv'
  BY DEF MutationsInv, mutationVars, MutationsTypeOK, TicketsOrdered, PredecessorCovers,
         SettledCovers, StartedAfter, QueueIsLast, Registered, Unfinished, Earlier, OnKey, KeysOf

LEMMA Inductive == MutationsInv /\ [MutationsNext]_mutationVars => MutationsInv'
  <1> SUFFICES ASSUME MutationsInv, [MutationsNext]_mutationVars PROVE MutationsInv'
    OBVIOUS
  <1>1. ASSUME NEW m \in Mutations, WithPaths(m) PROVE MutationsInv'
    BY <1>1, ReserveStep
  <1>2. ASSUME NEW m \in Mutations, Start(m) PROVE MutationsInv'
    BY <1>2, StartStep
  <1>3. ASSUME NEW m \in Mutations, Finish(m) PROVE MutationsInv'
    BY <1>3, FinishStep
  <1>4. ASSUME NEW m \in Mutations, NEW k \in Paths, TailSettles(m, k) PROVE MutationsInv'
    BY <1>4, SettleStep
  <1>5. CASE UNCHANGED mutationVars
    BY <1>5, StutterStep
  <1>6. QED
    BY <1>1, <1>2, <1>3, <1>4, <1>5 DEF MutationsNext, Quiet

LEMMA MutationsInvariance == MutationsSpec => []MutationsInv
  BY InitHolds, Inductive, PTL DEF MutationsSpec

-----------------------------------------------------------------------------
(* The coordinator's state keeps its type, and only keys have queues.        *)
THEOREM MutationsTypeCorrect == MutationsSpec => []MutationsTypeOK
  BY MutationsInvariance, PTL DEF MutationsInv

(* Overlapping mutations take effect in the order they reserved, for any     *)
(* number of them and any path sets.                                         *)
THEOREM Ordered == MutationsSpec => []RunInOrder
  <1>1. MutationsInv => RunInOrder
    BY SameFileSharesKey DEF MutationsInv, RunInOrder, StartedAfter, Earlier
  <1>2. QED
    BY <1>1, MutationsInvariance, PTL

(* Two mutations that name the same file never run at once.                  *)
THEOREM Exclusive == MutationsSpec => []MutualExclusion
  <1>1. MutationsInv => MutualExclusion
    <2> SUFFICES ASSUME MutationsInv, NEW m \in Mutations, NEW n \in Mutations,
                        m # n, SameFile(m, n), phase[m] = "running", phase[n] = "running"
                 PROVE  FALSE
      BY DEF MutualExclusion
    <2>1. PICK k \in Paths : OnKey(m, k) /\ OnKey(n, k)
      BY SameFileSharesKey
    <2>2. Registered(m) /\ Registered(n)
      BY DEF Registered
    <2>3. ticket[m] \in Nat /\ ticket[n] \in Nat /\ ticket[m] # ticket[n]
      BY <2>2 DEF MutationsInv, MutationsTypeOK, TicketsOrdered
    <2>4. Earlier(m, n) \/ Earlier(n, m)
      BY <2>2, <2>3 DEF Earlier
    <2>5. QED
      BY <2>1, <2>4 DEF MutationsInv, StartedAfter
  <1>2. QED
    BY <1>1, MutationsInvariance, PTL

(* The map of queues holds exactly the paths in use, each with its last user.*)
THEOREM NothingLeftBehind == MutationsSpec => []QueuesExact
  <1>1. MutationsInv => QueuesExact
    <2> SUFFICES ASSUME MutationsInv, NEW k \in Paths PROVE QueuesExact!(k)
      BY DEF QueuesExact
    <2>1. CASE queues[k] = NoMutation
      BY <2>1 DEF MutationsInv, QueueIsLast, OnKey
    <2>2. CASE queues[k] # NoMutation
      <3>1. queues[k] \in Mutations
        BY <2>2 DEF MutationsInv, MutationsTypeOK
      <3>2. /\ Unfinished(queues[k]) /\ k \in KeysOf(queues[k])
            /\ \A m \in Mutations :
                   Unfinished(m) /\ k \in KeysOf(m) => ticket[m] <= ticket[queues[k]]
        BY <2>2 DEF MutationsInv, QueueIsLast, OnKey
      <3>3. QED
        BY <3>1, <3>2
    <2>3. QED
      BY <2>1, <2>2
  <1>2. QED
    BY <1>1, MutationsInvariance, PTL

-----------------------------------------------------------------------------
(* For every patch, any number of failing calls and of interferences by      *)
(* other programs: the types of PatchTransaction, that no crash and no       *)
(* failure costs an original file, that the work of other programs is kept,  *)
(* that a call does everything or nothing, and that it reports what it       *)
(* leaves behind.                                                            *)

(* The three kinds of inodes.                                                *)
LEMMA InodeKinds ==
    /\ \A f \in Files : Original(f) \in Inodes
    /\ \A j \in Indices : Staged(j) \in Inodes
    /\ \A n \in 1 .. MaxTouches : Foreign(n) \in Inodes
  BY DEF Inodes

(* The bounds are numbers.                                                   *)
LEMMA Bounds == MaxFaults \in Nat /\ MaxTouches \in Nat
  BY PatchAssumption

(* An original file is not the absence of one.                               *)
LEMMA AbsentIsNoFile == \A f \in Files : Original(f) # Absent
  BY PatchAssumption DEF Original

(* What PatchAssumption says of the plan a call carries out.                 *)
LEMMA PlanFacts ==
    ASSUME ops \in Plans
    PROVE  /\ ops \in Seq(Operation) /\ Len(ops) \in Nat \ {0} /\ Indices = 1 .. Len(ops)
           /\ \A j \in Indices :
                  /\ ops[j].source \in Files \cup {Absent}
                  /\ ops[j].target \in Files \cup {Absent}
                  /\ HasContent(j) => ops[j].target \in Files
                  /\ HasSource(j) => ops[j].source \in Files
           /\ \A j, k \in Indices :
                  j # k => /\ HasSource(j) => ops[j].source # ops[k].source
                           /\ HasSource(j) => ops[j].source # ops[k].target
  <1>1. /\ ops \in Seq(Operation) /\ Len(ops) > 0
        /\ \A j \in 1 .. Len(ops) : WellFormed(ops[j])
        /\ \A j, k \in 1 .. Len(ops) :
               j # k => PathsOf(ops[j]) \cap PathsOf(ops[k]) = {}
    BY PatchAssumption
  <1>2. Len(ops) \in Nat \ {0} /\ Indices = 1 .. Len(ops)
    BY <1>1 DEF Indices
  <1>3. \A j \in Indices : ops[j] \in Operation
    BY <1>1, <1>2
  <1>4. ASSUME NEW j \in Indices
        PROVE  /\ ops[j].source \in Files \cup {Absent}
               /\ ops[j].target \in Files \cup {Absent}
               /\ HasContent(j) => ops[j].target \in Files
               /\ HasSource(j) => ops[j].source \in Files
    <2>1. WellFormed(ops[j]) /\ ops[j] \in Operation
      BY <1>1, <1>2, <1>3
    <2>2. QED
      BY <2>1 DEF WellFormed, Operation, HasContent, HasSource
  <1>5. ASSUME NEW j \in Indices, NEW k \in Indices, j # k, HasSource(j)
        PROVE  ops[j].source # ops[k].source /\ ops[j].source # ops[k].target
    <2>1. PathsOf(ops[j]) \cap PathsOf(ops[k]) = {}
      BY <1>1, <1>2, <1>5
    <2>2. QED
      BY <2>1, <1>5 DEF PathsOf, HasSource
  <1>6. QED
    BY <1>1, <1>2, <1>4, <1>5

(* The artifacts of one call are finitely many.                              *)
LEMMA StagedFinite ==
    ASSUME TypeOK
    PROVE  /\ IsFiniteSet(Indices) /\ IsFiniteSet(staged)
           /\ IsFiniteSet({j \in Indices : HasSource(j)})
  <1>1. Len(ops) \in Nat /\ staged \subseteq Indices
    BY PlanFacts DEF TypeOK, DirectoryOK, RecordsOK
  <1>2. IsFiniteSet(Indices)
    BY <1>1, FS_Interval DEF Indices
  <1>3. QED
    BY <1>1, <1>2, FS_Subset

-----------------------------------------------------------------------------
(* Types.                                                                    *)
LEMMA TypeInit == Init => TypeOK
  <1> SUFFICES ASSUME Init PROVE TypeOK
    OBVIOUS
  <1>1. ops \in Plans
    BY DEF Init
  <1>2. Len(ops) \in Nat \ {0}
    BY <1>1, PlanFacts
  <1>3. DirectoryOK
    <2>1. file \in [Files -> Inodes \cup {Absent}]
      BY InodeKinds DEF Init, Before
    <2>2. QED
      BY <1>1, <2>1 DEF Init, DirectoryOK
  <1>4. RecordsOK
    BY <1>2 DEF Init, RecordsOK, NoIdentity
  <1>5. PositionOK
    <2>1. at = "staging" /\ i = 1 /\ error = "none" /\ outcome = "pending" /\ faults = 0
      BY DEF Init
    <2>2. i \in 0 .. Len(ops) /\ faults \in 0 .. MaxFaults
      BY <2>1, <1>2, Bounds
    <2>3. at \in Positions /\ at \notin Undoing
      BY <2>1 DEF Positions, Forward, Undoing
    <2>4. QED
      BY <2>1, <2>2, <2>3 DEF PositionOK
  <1>6. OthersOK
    BY Bounds DEF Init, OthersOK
  <1>7. unrecovered \in BOOLEAN
    BY DEF Init
  <1>8. ProgressOK
    BY <1>2 DEF Init, ProgressOK, Forward, Indices
  <1>9. QED
    BY <1>3, <1>4, <1>5, <1>6, <1>7, <1>8 DEF TypeOK

(* The plan of a call never changes.                                         *)
LEMMA PlanFixed ==
    ASSUME [Next]_vars
    PROVE  ops' = ops /\ Indices' = Indices /\ Inodes' = Inodes
  <1>1. ops' = ops
    <2>1. CASE Stage
      BY <2>1 DEF Stage
    <2>2. CASE StageFails
      BY <2>2 DEF StageFails
    <2>3. CASE HashSource
      BY <2>3 DEF HashSource
    <2>4. CASE CheckAbsence
      BY <2>4 DEF CheckAbsence
    <2>5. CASE MoveSource
      BY <2>5 DEF MoveSource
    <2>6. CASE NoSource
      BY <2>6 DEF NoSource
    <2>7. CASE RecheckBackup
      BY <2>7 DEF RecheckBackup
    <2>8. CASE Publish
      BY <2>8 DEF Publish
    <2>9. CASE NothingToPublish
      BY <2>9 DEF NothingToPublish
    <2>10. CASE Confirm
      BY <2>10 DEF Confirm
    <2>11. CASE ForwardFails
      BY <2>11 DEF ForwardFails
    <2>12. CASE NothingToRemove
      BY <2>12 DEF NothingToRemove
    <2>13. CASE InspectTarget
      BY <2>13 DEF InspectTarget
    <2>14. CASE RemoveTarget
      BY <2>14 DEF RemoveTarget
    <2>15. CASE RestoreSource
      BY <2>15 DEF RestoreSource
    <2>16. CASE NothingToRestore
      BY <2>16 DEF NothingToRestore
    <2>17. CASE ConfirmRestore
      BY <2>17 DEF ConfirmRestore
    <2>18. CASE DropBackup
      BY <2>18 DEF DropBackup
    <2>19. CASE RestoreFails
      BY <2>19 DEF RestoreFails
    <2>20. CASE Unstage
      BY <2>20 DEF Unstage
    <2>21. CASE CleanUp
      BY <2>21 DEF CleanUp
    <2>22. CASE Done
      BY <2>22 DEF Done, vars
    <2>23. ASSUME NEW f \in Files, Replaced(f) \/ Deleted(f) \/ Edited(f) PROVE ops' = ops
      BY <2>23 DEF Replaced, Deleted, Edited, Touch
    <2>24. CASE UNCHANGED vars
      BY <2>24 DEF vars
    <2> QED
      BY <2>1, <2>2, <2>3, <2>4, <2>5, <2>6, <2>7, <2>8, <2>9, <2>10, <2>11, <2>12,
         <2>13, <2>14, <2>15, <2>16, <2>17, <2>18, <2>19, <2>20, <2>21, <2>22, <2>23,
         <2>24
        DEF Next
  <1>2. QED
    BY <1>1 DEF Indices, Inodes

(* The directory.                                                            *)
LEMMA DirectoryStep == TypeOK /\ [Next]_vars => DirectoryOK'
  <1> SUFFICES ASSUME TypeOK, [Next]_vars PROVE DirectoryOK'
    OBVIOUS
  <1> USE DEF DirectoryOK, directory, records, verdict, others
  <1>a. ops' = ops /\ Indices' = Indices /\ Inodes' = Inodes
    BY PlanFixed
  <1>b. DirectoryOK /\ (at \notin {"undoing", "done"} => i \in Indices)
    BY PlanFacts DEF TypeOK, DirectoryOK, PositionOK
  <1>c. /\ \A j \in Indices : Staged(j) \in Inodes
        /\ at = "moving" /\ HasSource(i) => Op.source \in Files
        /\ at = "publishing" /\ HasContent(i) => Op.target \in Files
    BY <1>b, PlanFacts, InodeKinds DEF DirectoryOK, Op
  <1>d. \A n \in 1 .. MaxTouches : Foreign(n) \in Inodes
    BY InodeKinds
  <1>1. CASE Stage
    BY <1>1, <1>a, <1>b, <1>c DEF Stage, Advance
  <1>2. CASE StageFails
    BY <1>2, <1>a, <1>b, <1>c DEF StageFails, Raise, RaiseAfter, Fault
  <1>3. CASE MoveSource
    BY <1>3, <1>a, <1>b, <1>c DEF MoveSource, RaiseAfter, Fault, Identity
  <1>4. CASE Publish
    BY <1>4, <1>a, <1>b DEF Publish, CreatedWithThis, Op
  <1>5. CASE RemoveTarget
    BY <1>5, <1>a, <1>b DEF RemoveTarget, Fault, Op
  <1>6. CASE RestoreSource
    BY <1>6, <1>a, <1>b DEF RestoreSource, Op
  <1>7. CASE DropBackup
    BY <1>7, <1>a, <1>b DEF DropBackup, NextRecord
  <1>8. CASE Unstage
    BY <1>8, <1>a, <1>b
      DEF Unstage, RemoveArtifacts, FailureOutcome, BackupsRemovedOnFailure
  <1>9. CASE CleanUp
    BY <1>9, <1>a, <1>b DEF CleanUp, RemoveArtifacts
  <1>10. ASSUME NEW f \in Files, Replaced(f) PROVE DirectoryOK'
    BY <1>10, <1>a, <1>b, <1>d, Bounds DEF Replaced, Touch, Discard, TypeOK, OthersOK
  <1>11. ASSUME NEW f \in Files, Deleted(f) PROVE DirectoryOK'
    BY <1>11, <1>a, <1>b DEF Deleted, Touch, Discard
  <1>12. ASSUME NEW f \in Files, Edited(f) PROVE DirectoryOK'
    BY <1>12, <1>a, <1>b DEF Edited, Touch
  <1>13. CASE HashSource \/ CheckAbsence \/ NoSource \/ RecheckBackup
              \/ NothingToPublish \/ Confirm \/ ForwardFails \/ NothingToRemove
              \/ InspectTarget \/ NothingToRestore \/ ConfirmRestore \/ RestoreFails
              \/ Done \/ UNCHANGED vars
    BY <1>13, <1>a, <1>b
      DEF HashSource, CheckAbsence, NoSource, RecheckBackup, NothingToPublish, Confirm,
          ForwardFails, NothingToRemove, InspectTarget, NothingToRestore,
          ConfirmRestore, RestoreFails, Done, vars
  <1>14. QED
    BY <1>1, <1>2, <1>3, <1>4, <1>5, <1>6, <1>7, <1>8, <1>9, <1>10, <1>11, <1>12, <1>13
      DEF Next

(* The records of the transaction.                                           *)
LEMMA RecordsStep == TypeOK /\ [Next]_vars => RecordsOK'
  <1> SUFFICES ASSUME TypeOK, [Next]_vars PROVE RecordsOK'
    OBVIOUS
  <1> USE DEF RecordsOK, directory, records, verdict, others
  <1>a. ops' = ops /\ Indices' = Indices /\ Inodes' = Inodes
    BY PlanFixed
  <1>b. /\ RecordsOK /\ (at \notin {"undoing", "done"} => i \in Indices)
        /\ Len(ops) \in Nat /\ Indices = 1 .. Len(ops)
        /\ DirectoryOK
    BY PlanFacts DEF TypeOK, DirectoryOK, PositionOK
  <1>c. /\ at = "moving" /\ HasSource(i) => Op.source \in Files
        /\ at = "publishing" /\ HasContent(i) => Op.target \in Files
    BY <1>b, PlanFacts DEF DirectoryOK, Op
  <1>1. CASE Stage
    BY <1>1, <1>a, <1>b DEF Stage, Advance
  <1>2. CASE MoveSource
    <2>1. Op.source \in Files /\ file[Op.source] \in Inodes
      BY <1>2, <1>b, <1>c DEF MoveSource, DirectoryOK
    <2>2. Identity(file[Op.source]) \in (Inodes \cup {Absent}) \X Nat
      BY <2>1, <1>b DEF Identity, DirectoryOK
    <2>3. i \in Indices
      BY <1>2, <1>b DEF MoveSource
    <2>4. /\ committed' = i /\ UNCHANGED <<staged, created, targetIdentity>>
          /\ \/ backupIdentity' = [backupIdentity EXCEPT ![i] = Identity(file[Op.source])]
             \/ UNCHANGED backupIdentity
      BY <1>2 DEF MoveSource
    <2>5. backupIdentity' \in [Indices -> (Inodes \cup {Absent}) \X Nat]
      BY <2>2, <2>4, <1>b
    <2>6. QED
      BY <1>a, <1>b, <2>3, <2>4, <2>5
  <1>3. CASE NoSource
    BY <1>3, <1>a, <1>b DEF NoSource
  <1>4. CASE Publish
    BY <1>4, <1>a, <1>b DEF Publish, CreatedWithThis, Op
  <1>5. CASE Confirm
    <2>1. i \in Indices /\ temp[i] \in Inodes
      BY <1>5, <1>b DEF Confirm, TypeOK, ProgressOK, Forward, RecordsOK
    <2>2. Identity(temp[i]) \in (Inodes \cup {Absent}) \X Nat
      BY <2>1, <1>b DEF Identity, DirectoryOK
    <2>3. QED
      BY <1>5, <1>a, <1>b, <2>1, <2>2 DEF RecordsOK, Confirm
  <1>6. CASE StageFails \/ HashSource \/ CheckAbsence \/ RecheckBackup
             \/ NothingToPublish \/ ForwardFails \/ NothingToRemove \/ InspectTarget
             \/ RemoveTarget \/ RestoreSource \/ NothingToRestore \/ ConfirmRestore
             \/ DropBackup \/ RestoreFails \/ Unstage \/ CleanUp \/ Done
             \/ UNCHANGED vars
    BY <1>6, <1>a, <1>b
      DEF StageFails, HashSource, CheckAbsence, RecheckBackup, NothingToPublish,
          ForwardFails, NothingToRemove, InspectTarget, RemoveTarget, RestoreSource,
          NothingToRestore, ConfirmRestore, DropBackup, RestoreFails, Unstage, CleanUp,
          Done, vars
  <1>7. ASSUME NEW f \in Files, Replaced(f) \/ Deleted(f) \/ Edited(f) PROVE RecordsOK'
    BY <1>7, <1>a, <1>b DEF Replaced, Deleted, Edited, Touch
  <1>8. QED
    BY <1>1, <1>2, <1>3, <1>4, <1>5, <1>6, <1>7 DEF Next

(* Where the transaction is, and what it has to report.                      *)
LEMMA PositionStep == TypeOK /\ [Next]_vars => PositionOK'
  <1> SUFFICES ASSUME TypeOK, [Next]_vars PROVE PositionOK'
    OBVIOUS
  <1> USE DEF PositionOK, directory, records, verdict, others
  <1>a. ops' = ops /\ Indices' = Indices /\ Inodes' = Inodes
    BY PlanFixed
  <1>b. /\ PositionOK /\ (at \notin {"undoing", "done"} => i \in Indices)
        /\ Len(ops) \in Nat \ {0} /\ committed \in 0 .. Len(ops)
    BY PlanFacts DEF TypeOK, DirectoryOK, PositionOK, RecordsOK
  <1>1. CASE Stage
    BY <1>1, <1>a, <1>b, Bounds DEF Stage, Advance, Positions, Forward, Undoing
  <1>2. CASE StageFails
    BY <1>2, <1>a, <1>b, Bounds
      DEF StageFails, Raise, RaiseAfter, Fault, Positions, Forward, Undoing
  <1>3. CASE HashSource
    BY <1>3, <1>a, <1>b, Bounds
      DEF HashSource, Raise, RaiseAfter, Positions, Forward, Undoing
  <1>4. CASE CheckAbsence
    BY <1>4, <1>a, <1>b, Bounds
      DEF CheckAbsence, Advance, Raise, RaiseAfter, Positions, Forward, Undoing
  <1>5. CASE MoveSource
    BY <1>5, <1>a, <1>b, Bounds
      DEF MoveSource, RaiseAfter, Fault, Identity, Positions, Forward, Undoing
  <1>6. CASE NoSource
    BY <1>6, <1>a, <1>b, Bounds DEF NoSource, Positions, Forward, Undoing
  <1>7. CASE RecheckBackup
    BY <1>7, <1>a, <1>b, Bounds
      DEF RecheckBackup, Raise, RaiseAfter, Positions, Forward, Undoing
  <1>8. CASE Publish
    BY <1>8, <1>a, <1>b, Bounds
      DEF Publish, CreatedWithThis, Op, Positions, Forward, Undoing
  <1>9. CASE NothingToPublish
    BY <1>9, <1>a, <1>b, Bounds
      DEF NothingToPublish, Advance, Positions, Forward, Undoing
  <1>10. CASE Confirm
    BY <1>10, <1>a, <1>b, Bounds
      DEF Confirm, Advance, Raise, RaiseAfter, Identity, Positions, Forward, Undoing
  <1>11. CASE ForwardFails
    BY <1>11, <1>a, <1>b, Bounds
      DEF ForwardFails, Refused, Interrupted, Raise, RaiseAfter, Fault, Positions,
          Forward, Undoing
  <1>12. CASE NothingToRemove
    BY <1>12, <1>a, <1>b, Bounds DEF NothingToRemove, Positions, Forward, Undoing
  <1>13. CASE InspectTarget
    BY <1>13, <1>a, <1>b, Bounds DEF InspectTarget, Fault, Positions, Forward, Undoing
  <1>14. CASE RemoveTarget
    BY <1>14, <1>a, <1>b, Bounds
      DEF RemoveTarget, Fault, Op, Positions, Forward, Undoing
  <1>15. CASE RestoreSource
    BY <1>15, <1>a, <1>b, Bounds DEF RestoreSource, Op, Positions, Forward, Undoing
  <1>16. CASE NothingToRestore
    BY <1>16, <1>a, <1>b, Bounds
      DEF NothingToRestore, NextRecord, Positions, Forward, Undoing
  <1>17. CASE ConfirmRestore
    BY <1>17, <1>a, <1>b, Bounds DEF ConfirmRestore, Positions, Forward, Undoing
  <1>18. CASE DropBackup
    BY <1>18, <1>a, <1>b, Bounds DEF DropBackup, NextRecord, Positions, Forward, Undoing
  <1>19. CASE RestoreFails
    BY <1>19, <1>a, <1>b, Bounds
      DEF RestoreFails, NextRecord, Fault, Positions, Forward, Undoing
  <1>20. CASE Unstage
    <2>1. PICK kept \in SUBSET staged :
              /\ RemoveArtifacts(staged, {}, kept, {})
              /\ outcome' = FailureOutcome(kept # {})
      BY <1>20 DEF Unstage, BackupsRemovedOnFailure
    <2>2. IsFiniteSet(kept) /\ Cardinality(kept) \in Nat /\ Cardinality({}) \in Nat
      BY StagedFinite, FS_Subset, FS_CardinalityType, FS_EmptySet
    <2>3. faults' \in 0 .. MaxFaults
      BY <2>1, <2>2, <1>b, Bounds DEF RemoveArtifacts, PositionOK
    <2>4. outcome' \in {"failed", "leftovers", "incomplete"}
      BY <2>1, <1>b, <1>20 DEF FailureOutcome, PositionOK, Undoing, Unstage
    <2>5. QED
      BY <1>20, <1>a, <1>b, <2>3, <2>4 DEF Unstage, PositionOK, Positions, Undoing
  <1>21. CASE CleanUp
    <2>1. PICK keptT \in SUBSET staged, keptB \in SUBSET {j \in Indices : HasSource(j)} :
              /\ RemoveArtifacts(staged, {j \in Indices : HasSource(j)}, keptT, keptB)
              /\ outcome' \in {"ok", "warned"}
      BY <1>21 DEF CleanUp
    <2>2. Cardinality(keptT) \in Nat /\ Cardinality(keptB) \in Nat
      BY StagedFinite, FS_Subset, FS_CardinalityType
    <2>3. faults' \in 0 .. MaxFaults
      BY <2>1, <2>2, <1>b, Bounds DEF RemoveArtifacts, PositionOK
    <2>4. QED
      BY <1>21, <1>a, <1>b, <2>1, <2>3 DEF CleanUp, PositionOK, Positions, Undoing
  <1>22. CASE Done \/ UNCHANGED vars
    BY <1>22, <1>a, <1>b DEF Done, vars
  <1>23. ASSUME NEW f \in Files, Replaced(f) \/ Deleted(f) \/ Edited(f) PROVE PositionOK'
    BY <1>23, <1>a, <1>b DEF Replaced, Deleted, Edited, Touch
  <1>24. QED
    BY <1>1, <1>2, <1>3, <1>4, <1>5, <1>6, <1>7, <1>8, <1>9, <1>10, <1>11, <1>12, <1>13,
       <1>14, <1>15, <1>16, <1>17, <1>18, <1>19, <1>20, <1>21, <1>22, <1>23
      DEF Next

(* What other programs did.                                                  *)
LEMMA OthersStep == TypeOK /\ [Next]_vars => OthersOK'
  <1> SUFFICES ASSUME TypeOK, [Next]_vars PROVE OthersOK'
    OBVIOUS
  <1> USE DEF OthersOK, directory, records, verdict, others
  <1>a. ops' = ops /\ Indices' = Indices /\ Inodes' = Inodes
    BY PlanFixed
  <1>b. ProgressOK /\ OthersOK /\ file \in [Files -> Inodes \cup {Absent}]
        /\ temp \in [Indices -> Inodes \cup {Absent}]
        /\ \A n \in 1 .. MaxTouches : Foreign(n) \in Inodes
    BY InodeKinds DEF TypeOK, DirectoryOK
  <1>c. \A j \in Indices : HasContent(j) => ops[j].target \in Files
    BY PlanFacts DEF TypeOK, DirectoryOK
  <1>d. created \subseteq Indices
    BY DEF TypeOK, RecordsOK
  <1>1. CASE Confirm
    BY <1>1, <1>a, <1>b, <1>c, <1>d
      DEF Confirm, Advance, Raise, RaiseAfter, Identity, ProgressOK, Forward
  <1>2. CASE RemoveTarget
    BY <1>2, <1>a, <1>b, <1>c, <1>d DEF RemoveTarget, Fault, Op, ProgressOK
  <1>3. ASSUME NEW f \in Files, Replaced(f) PROVE OthersOK'
    BY <1>3, <1>a, <1>b, Bounds DEF Replaced, Touch, Discard
  <1>4. ASSUME NEW f \in Files, Deleted(f) PROVE OthersOK'
    BY <1>4, <1>a, <1>b, Bounds DEF Deleted, Touch, Discard
  <1>5. ASSUME NEW f \in Files, Edited(f) PROVE OthersOK'
    BY <1>5, <1>a, <1>b, Bounds DEF Edited, Touch
  <1>6. CASE Stage \/ StageFails \/ HashSource \/ CheckAbsence \/ MoveSource
             \/ NoSource \/ RecheckBackup \/ Publish \/ NothingToPublish
             \/ ForwardFails \/ NothingToRemove \/ InspectTarget \/ RestoreSource
             \/ NothingToRestore \/ ConfirmRestore \/ DropBackup \/ RestoreFails
             \/ Unstage \/ CleanUp \/ Done \/ UNCHANGED vars
    BY <1>6, <1>a, <1>b
      DEF Stage, StageFails, HashSource, CheckAbsence, MoveSource, NoSource,
          RecheckBackup, Publish, NothingToPublish, ForwardFails, NothingToRemove,
          InspectTarget, RestoreSource, NothingToRestore, ConfirmRestore, DropBackup,
          RestoreFails, Unstage, CleanUp, Done, vars
  <1>7. QED
    BY <1>1, <1>2, <1>3, <1>4, <1>5, <1>6 DEF Next

(* What was staged and created so far.                                       *)
LEMMA ProgressStep == TypeOK /\ [Next]_vars => ProgressOK'
  <1> SUFFICES ASSUME TypeOK, [Next]_vars PROVE ProgressOK'
    OBVIOUS
  <1> USE DEF ProgressOK, directory, records, verdict, others
  <1>a. ops' = ops /\ Indices' = Indices /\ Inodes' = Inodes
    BY PlanFixed
  <1>b. /\ ProgressOK /\ (at \notin {"undoing", "done"} => i \in Indices)
        /\ Len(ops) \in Nat \ {0} /\ Indices = 1 .. Len(ops)
        /\ \A j \in Indices : Staged(j) \in Inodes
        /\ temp \in [Indices -> Inodes \cup {Absent}]
        /\ staged \subseteq Indices /\ created \subseteq Indices
    BY PlanFacts, InodeKinds DEF TypeOK, DirectoryOK, PositionOK, RecordsOK
  <1>c. \A j \in Indices : HasContent(j)' = HasContent(j)
    BY <1>a DEF HasContent
  <1>1. CASE Stage
    BY <1>1, <1>a, <1>b, <1>c DEF Stage, Advance, Forward
  <1>2. CASE StageFails
    BY <1>2, <1>a, <1>b, <1>c DEF StageFails, Raise, RaiseAfter, Fault, Forward
  <1>3. CASE HashSource
    BY <1>3, <1>a, <1>b, <1>c DEF HashSource, Raise, RaiseAfter, Forward
  <1>4. CASE CheckAbsence
    BY <1>4, <1>a, <1>b, <1>c DEF CheckAbsence, Advance, Raise, RaiseAfter, Forward
  <1>5. CASE MoveSource
    BY <1>5, <1>a, <1>b, <1>c DEF MoveSource, RaiseAfter, Fault, Identity, Forward
  <1>6. CASE NoSource
    BY <1>6, <1>a, <1>b, <1>c DEF NoSource, Forward
  <1>7. CASE RecheckBackup
    BY <1>7, <1>a, <1>b, <1>c DEF RecheckBackup, Raise, RaiseAfter, Forward
  <1>8. CASE Publish
    BY <1>8, <1>a, <1>b, <1>c DEF Publish, CreatedWithThis, Op, Forward
  <1>9. CASE NothingToPublish
    BY <1>9, <1>a, <1>b, <1>c DEF NothingToPublish, Advance, Forward
  <1>10. CASE Confirm
    BY <1>10, <1>a, <1>b, <1>c
      DEF Confirm, Advance, Raise, RaiseAfter, Identity, Forward
  <1>11. CASE ForwardFails
    BY <1>11, <1>a, <1>b, <1>c
      DEF ForwardFails, Refused, Interrupted, Raise, RaiseAfter, Fault, Forward
  <1>12. CASE NothingToRemove
    BY <1>12, <1>a, <1>b, <1>c DEF NothingToRemove, Forward
  <1>13. CASE InspectTarget
    BY <1>13, <1>a, <1>b, <1>c DEF InspectTarget, Fault, Forward
  <1>14. CASE RemoveTarget
    BY <1>14, <1>a, <1>b, <1>c DEF RemoveTarget, Fault, Op, Forward
  <1>15. CASE RestoreSource
    BY <1>15, <1>a, <1>b, <1>c DEF RestoreSource, Op, Forward
  <1>16. CASE NothingToRestore
    BY <1>16, <1>a, <1>b, <1>c DEF NothingToRestore, NextRecord, Forward
  <1>17. CASE ConfirmRestore
    BY <1>17, <1>a, <1>b, <1>c DEF ConfirmRestore, Forward
  <1>18. CASE DropBackup
    BY <1>18, <1>a, <1>b, <1>c DEF DropBackup, NextRecord, Forward
  <1>19. CASE RestoreFails
    BY <1>19, <1>a, <1>b, <1>c DEF RestoreFails, NextRecord, Fault, Forward
  <1>20. CASE Unstage
    <2>1. at' = "done" /\ created' = created
      BY <1>20 DEF Unstage, CleanUp, records
    <2>2. QED
      BY <2>1, <1>a, <1>b, <1>c DEF ProgressOK, Forward
  <1>21. CASE CleanUp
    <2>1. at' = "done" /\ created' = created
      BY <1>21 DEF Unstage, CleanUp, records
    <2>2. QED
      BY <2>1, <1>a, <1>b, <1>c DEF ProgressOK, Forward
  <1>22. CASE Done \/ UNCHANGED vars
    BY <1>22, <1>a, <1>b, <1>c DEF Done, vars
  <1>23. ASSUME NEW f \in Files, Replaced(f) \/ Deleted(f) \/ Edited(f) PROVE ProgressOK'
    BY <1>23, <1>a, <1>b, <1>c DEF Replaced, Deleted, Edited, Touch
  <1>24. QED
    BY <1>1, <1>2, <1>3, <1>4, <1>5, <1>6, <1>7, <1>8, <1>9, <1>10, <1>11, <1>12, <1>13,
       <1>14, <1>15, <1>16, <1>17, <1>18, <1>19, <1>20, <1>21, <1>22, <1>23
      DEF Next

(* The five parts together, and that rollbackFailures is a flag.             *)
LEMMA TypeStep == TypeOK /\ [Next]_vars => TypeOK'
  <1> SUFFICES ASSUME TypeOK, [Next]_vars PROVE TypeOK'
    OBVIOUS
  <1>1. unrecovered' \in BOOLEAN
    <2>1. CASE InspectTarget
      BY <2>1 DEF InspectTarget, TypeOK
    <2>2. CASE RemoveTarget
      BY <2>2 DEF RemoveTarget, TypeOK
    <2>3. CASE RestoreFails
      BY <2>3 DEF RestoreFails, TypeOK
    <2>4. CASE Stage \/ StageFails \/ HashSource \/ CheckAbsence \/ MoveSource
               \/ NoSource \/ RecheckBackup \/ Publish \/ NothingToPublish \/ Confirm
               \/ ForwardFails \/ NothingToRemove \/ RestoreSource \/ NothingToRestore
               \/ ConfirmRestore \/ DropBackup \/ Unstage \/ CleanUp \/ Done
               \/ UNCHANGED vars
      BY <2>4
        DEF TypeOK, Stage, StageFails, HashSource, CheckAbsence, MoveSource, NoSource,
            RecheckBackup, Publish, NothingToPublish, Confirm, ForwardFails,
            NothingToRemove, RestoreSource, NothingToRestore, ConfirmRestore,
            DropBackup, Unstage, CleanUp, Done, vars, verdict
    <2>5. ASSUME NEW f \in Files, Replaced(f) \/ Deleted(f) \/ Edited(f)
          PROVE  unrecovered' \in BOOLEAN
      BY <2>5 DEF TypeOK, Replaced, Deleted, Edited, Touch, verdict
    <2> QED
      BY <2>1, <2>2, <2>3, <2>4, <2>5 DEF Next
  <1>2. QED
    BY <1>1, DirectoryStep, RecordsStep, PositionStep, ProgressStep, OthersStep
      DEF TypeOK

-----------------------------------------------------------------------------
(* How far the transaction is, and which backups it has made.                *)
Counts ==
    /\ at # "done" => outcome = "pending"
    /\ at \in {"staging", "hashing", "absence"} => committed = 0
    /\ at = "moving" => committed = i - 1
    /\ at \in {"rechecking", "publishing", "confirming"} => committed = i
    /\ at \in Undoing => i <= committed
    /\ \A j \in Indices : backup[j] # Absent => HasSource(j) /\ j <= committed
    /\ at \in {"restored", "dropping"} => HasSource(i)

SourceOf(j) == Original(ops[j].source)

Kept(j) ==
    file[ops[j].source] = SourceOf(j) \/ backup[j] = SourceOf(j) \/ SourceOf(j) \in discarded

(* A file that was moved, and not yet restored, is in its backup; one that   *)
(* was restored is in its place before its backup goes.                      *)
MovedKept ==
    \A j \in Indices :
        /\ HasSource(j) /\ j <= committed /\ at # "done"
        /\ at \in Undoing => j <= i
        => backup[j] = SourceOf(j) \/ SourceOf(j) \in discarded

RestoredKept ==
    at = "dropping" => file[Op.source] = SourceOf(i) \/ SourceOf(i) \in discarded

AllKept ==
    outcome \notin {"ok", "warned"} => \A j \in Indices : HasSource(j) => Kept(j)

FilesKept == MovedKept /\ RestoredKept /\ AllKept

KeptInv == Counts /\ FilesKept

(* The counts.                                                               *)
LEMMA CountsStep == TypeOK /\ KeptInv /\ [Next]_vars => Counts'
  <1> SUFFICES ASSUME TypeOK /\ KeptInv, [Next]_vars PROVE Counts'
    OBVIOUS
  <1> USE DEF Counts, directory, records, verdict, others
  <1>a. ops' = ops /\ Indices' = Indices /\ Inodes' = Inodes
    BY PlanFixed
  <1>b. /\ Counts /\ (at \notin {"undoing", "done"} => i \in Indices)
        /\ Len(ops) \in Nat \ {0} /\ Indices = 1 .. Len(ops)
        /\ backup \in [Indices -> Inodes \cup {Absent}]
        /\ committed \in 0 .. Len(ops) /\ i \in 0 .. Len(ops)
    BY PlanFacts DEF KeptInv, TypeOK, DirectoryOK, PositionOK, RecordsOK
  <1>c. \A j \in Indices : HasSource(j)' = HasSource(j)
    BY <1>a DEF HasSource
  <1>1. CASE Stage
    BY <1>1, <1>a, <1>b, <1>c DEF Stage, Advance, Undoing
  <1>2. CASE StageFails
    BY <1>2, <1>a, <1>b, <1>c DEF StageFails, Raise, RaiseAfter, Fault, Undoing
  <1>3. CASE HashSource
    BY <1>3, <1>a, <1>b, <1>c DEF HashSource, Raise, RaiseAfter, Undoing
  <1>4. CASE CheckAbsence
    BY <1>4, <1>a, <1>b, <1>c DEF CheckAbsence, Advance, Raise, RaiseAfter, Undoing
  <1>5. CASE MoveSource
    BY <1>5, <1>a, <1>b, <1>c DEF MoveSource, RaiseAfter, Fault, Identity, Undoing
  <1>6. CASE NoSource
    BY <1>6, <1>a, <1>b, <1>c DEF NoSource, Undoing
  <1>7. CASE RecheckBackup
    BY <1>7, <1>a, <1>b, <1>c DEF RecheckBackup, Raise, RaiseAfter, Undoing
  <1>8. CASE Publish
    BY <1>8, <1>a, <1>b, <1>c DEF Publish, CreatedWithThis, Op, Undoing
  <1>9. CASE NothingToPublish
    BY <1>9, <1>a, <1>b, <1>c DEF NothingToPublish, Advance, Undoing
  <1>10. CASE Confirm
    BY <1>10, <1>a, <1>b, <1>c
      DEF Confirm, Advance, Raise, RaiseAfter, Identity, Undoing
  <1>11. CASE ForwardFails
    BY <1>11, <1>a, <1>b, <1>c
      DEF ForwardFails, Refused, Interrupted, Raise, RaiseAfter, Fault, Undoing
  <1>12. CASE NothingToRemove
    BY <1>12, <1>a, <1>b, <1>c DEF NothingToRemove, Undoing
  <1>13. CASE InspectTarget
    BY <1>13, <1>a, <1>b, <1>c DEF InspectTarget, Fault, Undoing
  <1>14. CASE RemoveTarget
    BY <1>14, <1>a, <1>b, <1>c DEF RemoveTarget, Fault, Op, Undoing
  <1>15. CASE RestoreSource
    BY <1>15, <1>a, <1>b, <1>c DEF RestoreSource, Op, Undoing
  <1>16. CASE NothingToRestore
    BY <1>16, <1>a, <1>b, <1>c DEF NothingToRestore, NextRecord, Undoing
  <1>17. CASE ConfirmRestore
    BY <1>17, <1>a, <1>b, <1>c DEF ConfirmRestore, Undoing
  <1>18. CASE DropBackup
    BY <1>18, <1>a, <1>b, <1>c DEF DropBackup, NextRecord, Undoing
  <1>19. CASE RestoreFails
    BY <1>19, <1>a, <1>b, <1>c DEF RestoreFails, NextRecord, Fault, Undoing
  <1>20. CASE Unstage
    BY <1>20, <1>a, <1>b, <1>c
      DEF Unstage, RemoveArtifacts, FailureOutcome, BackupsRemovedOnFailure, Undoing
  <1>21. CASE CleanUp
    BY <1>21, <1>a, <1>b, <1>c DEF CleanUp, RemoveArtifacts, Undoing
  <1>22. CASE Done \/ UNCHANGED vars
    BY <1>22, <1>a, <1>b, <1>c DEF Done, vars
  <1>23. ASSUME NEW f \in Files, Replaced(f) \/ Deleted(f) \/ Edited(f) PROVE Counts'
    BY <1>23, <1>a, <1>b, <1>c DEF Replaced, Deleted, Edited, Touch
  <1>24. QED
    BY <1>1, <1>2, <1>3, <1>4, <1>5, <1>6, <1>7, <1>8, <1>9, <1>10, <1>11, <1>12, <1>13,
       <1>14, <1>15, <1>16, <1>17, <1>18, <1>19, <1>20, <1>21, <1>22, <1>23
      DEF Next

(* The original files.                                                       *)
LEMMA KeptStep == TypeOK /\ KeptInv /\ [Next]_vars => FilesKept'
  <1> SUFFICES ASSUME TypeOK /\ KeptInv, [Next]_vars PROVE FilesKept'
    OBVIOUS
  <1> USE DEF FilesKept, MovedKept, RestoredKept, AllKept, Kept, Op, directory, records,
              verdict, others
  <1>a. ops' = ops /\ Indices' = Indices /\ Inodes' = Inodes
    BY PlanFixed
  <1>b. /\ Counts /\ FilesKept
        /\ at \notin {"undoing", "done"} => i \in Indices
        /\ Len(ops) \in Nat \ {0} /\ Indices = 1 .. Len(ops)
        /\ file \in [Files -> Inodes \cup {Absent}]
        /\ backup \in [Indices -> Inodes \cup {Absent}]
        /\ committed \in 0 .. Len(ops) /\ i \in 0 .. Len(ops)
        /\ \A j \in created : HasContent(j)
        /\ at = "removing" => i \in created
    BY PlanFacts DEF KeptInv, TypeOK, DirectoryOK, PositionOK, RecordsOK, ProgressOK
  <1>c. \A j \in Indices : HasSource(j)' = HasSource(j) /\ SourceOf(j)' = SourceOf(j)
    BY <1>a DEF HasSource, SourceOf
  <1>d. /\ \A j \in Indices : HasSource(j) => ops[j].source \in Files /\ SourceOf(j) # Absent
        /\ \A j, k \in Indices : j # k /\ HasSource(j) =>
               ops[j].source # ops[k].source /\ ops[j].source # ops[k].target
    BY PlanFacts, AbsentIsNoFile DEF TypeOK, DirectoryOK, SourceOf
  <1>1. CASE StageFails
    BY <1>1, <1>a, <1>b, <1>c, <1>d
      DEF StageFails, Raise, RaiseAfter, Fault, Undoing, Counts
  <1>2. CASE HashSource
    BY <1>2, <1>a, <1>b, <1>c, <1>d DEF HashSource, Raise, RaiseAfter, Undoing, Counts
  <1>3. CASE CheckAbsence
    BY <1>3, <1>a, <1>b, <1>c, <1>d
      DEF CheckAbsence, Advance, Raise, RaiseAfter, Undoing, Counts
  <1>4. CASE MoveSource
    BY <1>4, <1>a, <1>b, <1>c, <1>d
      DEF MoveSource, RaiseAfter, Fault, Identity, Undoing, Counts
  <1>5. CASE NoSource
    BY <1>5, <1>a, <1>b, <1>c, <1>d DEF NoSource, Undoing, Counts
  <1>6. CASE Publish
    BY <1>6, <1>a, <1>b, <1>c, <1>d DEF Publish, CreatedWithThis, Op, Undoing, Counts
  <1>7. CASE Confirm
    BY <1>7, <1>a, <1>b, <1>c, <1>d
      DEF Confirm, Advance, Raise, RaiseAfter, Identity, Undoing, Counts
  <1>8. CASE ForwardFails
    BY <1>8, <1>a, <1>b, <1>c, <1>d
      DEF ForwardFails, Refused, Interrupted, Raise, RaiseAfter, Fault, Undoing, Counts
  <1>9. CASE InspectTarget
    BY <1>9, <1>a, <1>b, <1>c, <1>d DEF InspectTarget, Fault, Undoing, Counts
  <1>10. CASE RemoveTarget
    BY <1>10, <1>a, <1>b, <1>c, <1>d DEF RemoveTarget, Fault, Op, Undoing, Counts
  <1>11. CASE RestoreSource
    BY <1>11, <1>a, <1>b, <1>c, <1>d
      DEF RestoreSource, Op, Undoing, Counts, RestoreRefused
  <1>12. CASE NothingToRestore
    BY <1>12, <1>a, <1>b, <1>c, <1>d DEF NothingToRestore, NextRecord, Undoing, Counts
  <1>13. CASE ConfirmRestore
    BY <1>13, <1>a, <1>b, <1>c, <1>d DEF ConfirmRestore, Undoing, Counts
  <1>14. CASE DropBackup
    BY <1>14, <1>a, <1>b, <1>c, <1>d DEF DropBackup, NextRecord, Undoing, Counts
  <1>15. CASE RestoreFails
    BY <1>15, <1>a, <1>b, <1>c, <1>d
      DEF RestoreFails, NextRecord, Fault, Undoing, Counts
  <1>16. CASE Unstage
    BY <1>16, <1>a, <1>b, <1>c, <1>d
      DEF Unstage, RemoveArtifacts, FailureOutcome, BackupsRemovedOnFailure, Undoing,
          Counts
  <1>17. CASE CleanUp
    BY <1>17, <1>a, <1>b, <1>c, <1>d DEF CleanUp, RemoveArtifacts, Undoing, Counts
  <1>18. ASSUME NEW f \in Files, Replaced(f) PROVE FilesKept'
    BY <1>18, <1>a, <1>b, <1>c, <1>d DEF Replaced, Touch, Discard, Undoing, Counts
  <1>19. ASSUME NEW f \in Files, Deleted(f) PROVE FilesKept'
    BY <1>19, <1>a, <1>b, <1>c, <1>d DEF Deleted, Touch, Discard, Undoing, Counts
  <1>20. ASSUME NEW f \in Files, Edited(f) PROVE FilesKept'
    BY <1>20, <1>a, <1>b, <1>c, <1>d DEF Edited, Touch, Undoing, Counts
  <1>21. CASE Stage \/ RecheckBackup \/ NothingToPublish \/ NothingToRemove \/ Done
              \/ UNCHANGED vars
    BY <1>21, <1>a, <1>b, <1>c, <1>d
      DEF Stage, RecheckBackup, NothingToPublish, NothingToRemove, Done, Advance,
          Raise, RaiseAfter, Undoing, Counts, vars
  <1>22. QED
    BY <1>1, <1>2, <1>3, <1>4, <1>5, <1>6, <1>7, <1>8, <1>9, <1>10, <1>11, <1>12, <1>13,
       <1>14, <1>15, <1>16, <1>17, <1>18, <1>19, <1>20, <1>21
      DEF Next

(* When the transaction starts every source is in its place.                 *)
LEMMA KeptInit == Init => KeptInv
  <1> SUFFICES ASSUME Init PROVE KeptInv
    OBVIOUS
  <1>1. Counts /\ MovedKept /\ RestoredKept
    <2>1. \A j \in Indices : backup[j] = Absent
      BY DEF Init
    <2>2. /\ at = "staging" /\ committed = 0 /\ outcome = "pending"
          /\ Indices = 1 .. Len(ops) /\ Len(ops) \in Nat
      BY PlanFacts DEF Init
    <2>3. QED
      BY <2>1, <2>2 DEF Counts, MovedKept, RestoredKept, Undoing
  <1>2. ASSUME NEW j \in Indices, HasSource(j)
        PROVE  file[ops[j].source] = SourceOf(j)
    <2>1. ops[j].source \in Files /\ Indices = 1 .. Len(ops)
      BY <1>2, PlanFacts DEF Init
    <2>2. Before(ops, ops[j].source) = SourceOf(j)
      BY <2>1, <1>2 DEF Before, SourceOf
    <2>3. QED
      BY <2>1, <2>2 DEF Init
  <1>3. QED
    BY <1>1, <1>2 DEF KeptInv, FilesKept, AllKept, Kept

(* The inductive invariant.                                                  *)
LEMMA Invariance == Spec => [](TypeOK /\ KeptInv)
  <1>1. TypeOK /\ KeptInv /\ [Next]_vars => (TypeOK /\ KeptInv)'
    BY TypeStep, CountsStep, KeptStep DEF KeptInv
  <1>2. QED
    BY <1>1, TypeInit, KeptInit, PTL DEF Spec

-----------------------------------------------------------------------------
(* What the types say wherever the transaction is.                           *)
LEMMA Setting ==
    ASSUME TypeOK
    PROVE  /\ Len(ops) \in Nat \ {0} /\ Indices = 1 .. Len(ops)
           /\ i \in 0 .. Len(ops) /\ committed \in 0 .. Len(ops)
           /\ at \notin {"undoing", "done"} => i \in Indices
           /\ file \in [Files -> Inodes \cup {Absent}]
           /\ temp \in [Indices -> Inodes \cup {Absent}]
           /\ backup \in [Indices -> Inodes \cup {Absent}]
           /\ version \in [Inodes -> Nat]
           /\ staged \subseteq Indices /\ created \subseteq Indices
  BY PlanFacts DEF TypeOK, DirectoryOK, RecordsOK, PositionOK

(* No two inodes are the same, and none is the absence of one.               *)
LEMMA InodesApart ==
    /\ \A f \in Files : Original(f) # Absent
    /\ \A j \in Nat : Staged(j) # Absent /\ Foreign(j) # Absent
    /\ \A j, k : Staged(j) = Staged(k) => j = k
    /\ \A j, k : Foreign(j) = Foreign(k) => j = k
    /\ \A f, g : Original(f) = Original(g) => f = g
    /\ \A j, k :
           Staged(j) # Foreign(k) /\ Original(j) # Staged(k) /\ Original(j) # Foreign(k)
  BY PatchAssumption DEF Original, Staged, Foreign

-----------------------------------------------------------------------------
(* What is left behind: a temporary file the records do not know is one      *)
(* whose removal failed, and the backups of undone operations are gone.      *)
ArtifactsInv ==
    /\ \A j \in Indices : temp[j] \in {Absent, Staged(j)}
    /\ \A j \in Indices : temp[j] # Absent => j \in staged \/ error = "leftovers"
    /\ at \notin Undoing \cup {"done"} => error = "none" /\ ~unrecovered
    /\ at \in Undoing /\ ~unrecovered => \A j \in Indices : j > i => backup[j] = Absent
    /\ ArtifactsReported

(* The artifacts.                                                            *)
LEMMA ArtifactsStep ==
    TypeOK /\ KeptInv /\ ArtifactsInv /\ [Next]_vars => ArtifactsInv'
  <1> SUFFICES ASSUME TypeOK /\ KeptInv /\ ArtifactsInv, [Next]_vars
               PROVE ArtifactsInv'
    OBVIOUS
  <1> USE DEF ArtifactsInv, ArtifactsReported, directory, records, verdict, others
  <1>a. ops' = ops /\ Indices' = Indices
    BY PlanFixed
  <1>b. TypeOK /\ Counts /\ ArtifactsInv /\ unrecovered \in BOOLEAN
    BY DEF KeptInv, TypeOK
  <1>c. \A j \in Indices : HasSource(j)' = HasSource(j)
    BY <1>a DEF HasSource
  <1>d. /\ Len(ops) \in Nat \ {0} /\ Indices = 1 .. Len(ops)
        /\ i \in 0 .. Len(ops) /\ committed \in 0 .. Len(ops)
        /\ at \notin {"undoing", "done"} => i \in Indices
        /\ temp \in [Indices -> Inodes \cup {Absent}]
        /\ backup \in [Indices -> Inodes \cup {Absent}]
        /\ staged \subseteq Indices
        /\ at \in Undoing => error \in {"failed", "leftovers"}
    BY Setting DEF TypeOK, PositionOK
  <1>1. CASE Stage
    BY <1>1, <1>a, <1>b, <1>c, <1>d DEF Stage, Advance, Counts, Undoing
  <1>2. CASE StageFails
    BY <1>2, <1>a, <1>b, <1>c, <1>d
      DEF StageFails, Raise, RaiseAfter, Fault, Counts, Undoing
  <1>3. CASE HashSource
    BY <1>3, <1>a, <1>b, <1>c, <1>d
      DEF HashSource, Raise, RaiseAfter, Counts, Undoing
  <1>4. CASE CheckAbsence
    BY <1>4, <1>a, <1>b, <1>c, <1>d
      DEF CheckAbsence, Advance, Raise, RaiseAfter, Counts, Undoing
  <1>5. CASE MoveSource
    BY <1>5, <1>a, <1>b, <1>c, <1>d
      DEF MoveSource, RaiseAfter, Fault, Identity, Counts, Undoing
  <1>6. CASE NoSource
    BY <1>6, <1>a, <1>b, <1>c, <1>d DEF NoSource, Counts, Undoing
  <1>7. CASE RecheckBackup
    BY <1>7, <1>a, <1>b, <1>c, <1>d
      DEF RecheckBackup, Raise, RaiseAfter, Counts, Undoing
  <1>8. CASE Publish
    BY <1>8, <1>a, <1>b, <1>c, <1>d DEF Publish, CreatedWithThis, Counts, Undoing
  <1>9. CASE NothingToPublish
    BY <1>9, <1>a, <1>b, <1>c, <1>d DEF NothingToPublish, Advance, Counts, Undoing
  <1>10. CASE Confirm
    BY <1>10, <1>a, <1>b, <1>c, <1>d
      DEF Confirm, Advance, Raise, RaiseAfter, Identity, Counts, Undoing
  <1>11. CASE ForwardFails
    BY <1>11, <1>a, <1>b, <1>c, <1>d
      DEF ForwardFails, Refused, Interrupted, Raise, RaiseAfter, Fault, Counts,
          Undoing
  <1>12. CASE NothingToRemove
    BY <1>12, <1>a, <1>b, <1>c, <1>d DEF NothingToRemove, Counts, Undoing
  <1>13. CASE InspectTarget
    BY <1>13, <1>a, <1>b, <1>c, <1>d DEF InspectTarget, Fault, Counts, Undoing
  <1>14. CASE RemoveTarget
    BY <1>14, <1>a, <1>b, <1>c, <1>d DEF RemoveTarget, Fault, Counts, Undoing
  <1>15. CASE RestoreSource
    BY <1>15, <1>a, <1>b, <1>c, <1>d DEF RestoreSource, Counts, Undoing
  <1>16. CASE NothingToRestore
    BY <1>16, <1>a, <1>b, <1>c, <1>d
      DEF NothingToRestore, NextRecord, Counts, Undoing
  <1>17. CASE ConfirmRestore
    BY <1>17, <1>a, <1>b, <1>c, <1>d DEF ConfirmRestore, Counts, Undoing
  <1>18. CASE DropBackup
    BY <1>18, <1>a, <1>b, <1>c, <1>d DEF DropBackup, NextRecord, Counts, Undoing
  <1>19. CASE RestoreFails
    BY <1>19, <1>a, <1>b, <1>c, <1>d
      DEF RestoreFails, NextRecord, Fault, Counts, Undoing
  <1>20. CASE Unstage
    BY <1>20, <1>a, <1>b, <1>c, <1>d
      DEF Unstage, RemoveArtifacts, FailureOutcome, BackupsRemovedOnFailure, Counts,
          Undoing
  <1>21. CASE CleanUp
    BY <1>21, <1>a, <1>b, <1>c, <1>d DEF CleanUp, RemoveArtifacts, Counts, Undoing
  <1>22. CASE Done \/ UNCHANGED vars
    BY <1>22, <1>a, <1>b, <1>c, <1>d DEF Done, vars, Counts, Undoing
  <1>23. ASSUME NEW f \in Files, Replaced(f) PROVE ArtifactsInv'
    BY <1>23, <1>a, <1>b, <1>c, <1>d DEF Replaced, Touch, Discard, Counts, Undoing
  <1>24. ASSUME NEW f \in Files, Deleted(f) PROVE ArtifactsInv'
    BY <1>24, <1>a, <1>b, <1>c, <1>d DEF Deleted, Touch, Discard, Counts, Undoing
  <1>25. ASSUME NEW f \in Files, Edited(f) PROVE ArtifactsInv'
    BY <1>25, <1>a, <1>b, <1>c, <1>d DEF Edited, Touch, Counts, Undoing
  <1>26. QED
    BY <1>1, <1>2, <1>3, <1>4, <1>5, <1>6, <1>7, <1>8, <1>9, <1>10, <1>11, <1>12,
       <1>13, <1>14, <1>15, <1>16, <1>17, <1>18, <1>19, <1>20, <1>21, <1>22, <1>23,
       <1>24, <1>25
      DEF Next

(* At the start nothing is left behind.                                      *)
LEMMA ArtifactsInit == Init => ArtifactsInv
  BY DEF Init, ArtifactsInv, ArtifactsReported, Undoing

-----------------------------------------------------------------------------
(* The rollback has not begun.                                               *)
Ahead == at \notin Undoing \cup {"done"}

(* The records say which targets were created.                               *)
CreatedOK ==
    /\ \A j \in Indices : j \in created => j <= committed
    /\ at \in {"rechecking", "publishing"} => i \notin created
    /\ at \in Forward \cup {"staging"} =>
           \A j \in Indices : j <= committed /\ HasContent(j) => j \in created \/ j = i
    /\ at = "cleaning" =>
           committed = Len(ops) /\ \A j \in Indices : HasContent(j) => j \in created

(* A staged file is published at its target only and never moved; the files  *)
(* of other programs are the ones they made so far.                          *)
Names ==
    /\ \A f \in Files, j \in Indices :
           file[f] = Staged(j) => j \in created /\ ops[j].target = f
    /\ \A j, k \in Indices : backup[j] # Staged(k)
    /\ \A n \in 1 .. MaxTouches : n > touches =>
           /\ \A f \in Files : file[f] # Foreign(n)
           /\ \A j \in Indices : backup[j] # Foreign(n)
    /\ \A x \in made : \E n \in 1 .. MaxTouches : x = Foreign(n)

(* Until the rollback begins every inode has one name at most, and a backup  *)
(* that passed its check holds the very content the patch was computed from. *)
Apart ==
    Ahead =>
        /\ \A f, g \in Files : f # g /\ file[f] # Absent => file[f] # file[g]
        /\ \A f \in Files, j \in Indices : backup[j] # Absent => file[f] # backup[j]
        /\ \A j \in Indices :
               backup[j] # Absent /\ ~(at = "rechecking" /\ j = i) =>
                   Planned(backup[j], ops[j].source)

(* The identity of a published target is that of its staged file, edited     *)
(* only in the window the code leaves open.                                  *)
Confirmed ==
    \A j \in Indices :
        \/ targetIdentity[j] = NoIdentity
        \/ \E n \in Nat :
               targetIdentity[j] = << Staged(j), n >> /\ (n > 0 => Staged(j) \in raced)

(* A backup is dropped only when its file is back.                           *)
Dropped ==
    /\ at \in {"restored", "dropping"} => backup[i] # Absent
    /\ at = "dropping" => file[Op.source] = backup[i] \/ backup[i] \in discarded

(* ForeignWorkKept without the staged files, which the cleanup removes.      *)
WorkKept ==
    \A x \in Inodes : x \in made \/ version[x] > 0 =>
        \/ \E f \in Files : file[f] = x
        \/ \E j \in Indices : backup[j] = x
        \/ x \in discarded \/ x \in raced

WorkInv == CreatedOK /\ Names /\ Apart /\ Confirmed /\ Dropped /\ WorkKept

(* The records of created targets.                                           *)
LEMMA CreatedStep ==
    TypeOK /\ KeptInv /\ ArtifactsInv /\ WorkInv /\ [Next]_vars => CreatedOK'
  <1> SUFFICES ASSUME TypeOK /\ KeptInv /\ ArtifactsInv /\ WorkInv, [Next]_vars
               PROVE CreatedOK'
    OBVIOUS
  <1> USE DEF CreatedOK, directory, records, verdict, others
  <1>a. ops' = ops /\ Indices' = Indices /\ Inodes' = Inodes
    BY PlanFixed
  <1>b. Counts /\ CreatedOK /\ (at = "confirming" => i \in created)
    BY DEF KeptInv, WorkInv, TypeOK, ProgressOK
  <1>c. \A j \in Indices : HasSource(j)' = HasSource(j) /\ HasContent(j)' = HasContent(j)
    BY <1>a DEF HasSource, HasContent
  <1>d. /\ Len(ops) \in Nat \ {0} /\ Indices = 1 .. Len(ops)
        /\ i \in 0 .. Len(ops) /\ committed \in 0 .. Len(ops)
        /\ at \notin {"undoing", "done"} => i \in Indices
        /\ file \in [Files -> Inodes \cup {Absent}]
        /\ temp \in [Indices -> Inodes \cup {Absent}]
        /\ backup \in [Indices -> Inodes \cup {Absent}]
        /\ version \in [Inodes -> Nat]
        /\ staged \subseteq Indices /\ created \subseteq Indices
    BY Setting
  <1>1. CASE Stage
    BY <1>1, <1>a, <1>b, <1>c, <1>d DEF Stage, Advance, Counts, Undoing, Forward
  <1>2. CASE StageFails
    BY <1>2, <1>a, <1>b, <1>c, <1>d
      DEF StageFails, Raise, RaiseAfter, Fault, Counts, Undoing, Forward
  <1>3. CASE HashSource
    BY <1>3, <1>a, <1>b, <1>c, <1>d
      DEF HashSource, Raise, RaiseAfter, Counts, Undoing, Forward
  <1>4. CASE CheckAbsence
    BY <1>4, <1>a, <1>b, <1>c, <1>d
      DEF CheckAbsence, Advance, Raise, RaiseAfter, Counts, Undoing, Forward
  <1>5. CASE MoveSource
    BY <1>5, <1>a, <1>b, <1>c, <1>d
      DEF MoveSource, RaiseAfter, Fault, Identity, Counts, Undoing, Forward
  <1>6. CASE NoSource
    BY <1>6, <1>a, <1>b, <1>c, <1>d DEF NoSource, Counts, Undoing, Forward
  <1>7. CASE RecheckBackup
    BY <1>7, <1>a, <1>b, <1>c, <1>d
      DEF RecheckBackup, Raise, RaiseAfter, Counts, Undoing, Forward
  <1>8. CASE Publish
    BY <1>8, <1>a, <1>b, <1>c, <1>d
      DEF Publish, CreatedWithThis, Counts, Undoing, Forward
  <1>9. CASE NothingToPublish
    BY <1>9, <1>a, <1>b, <1>c, <1>d
      DEF NothingToPublish, Advance, Counts, Undoing, Forward
  <1>10. CASE Confirm
    BY <1>10, <1>a, <1>b, <1>c, <1>d
      DEF Confirm, Advance, Raise, RaiseAfter, Identity, Counts, Undoing, Forward
  <1>11. CASE ForwardFails
    BY <1>11, <1>a, <1>b, <1>c, <1>d
      DEF ForwardFails, Refused, Interrupted, Raise, RaiseAfter, Fault, Counts,
          Undoing, Forward
  <1>12. CASE NothingToRemove
    BY <1>12, <1>a, <1>b, <1>c, <1>d DEF NothingToRemove, Counts, Undoing, Forward
  <1>13. CASE InspectTarget
    BY <1>13, <1>a, <1>b, <1>c, <1>d
      DEF InspectTarget, Fault, Counts, Undoing, Forward
  <1>14. CASE RemoveTarget
    BY <1>14, <1>a, <1>b, <1>c, <1>d
      DEF RemoveTarget, Fault, Counts, Undoing, Forward
  <1>15. CASE RestoreSource
    BY <1>15, <1>a, <1>b, <1>c, <1>d DEF RestoreSource, Counts, Undoing, Forward
  <1>16. CASE NothingToRestore
    BY <1>16, <1>a, <1>b, <1>c, <1>d
      DEF NothingToRestore, NextRecord, Counts, Undoing, Forward
  <1>17. CASE ConfirmRestore
    BY <1>17, <1>a, <1>b, <1>c, <1>d DEF ConfirmRestore, Counts, Undoing, Forward
  <1>18. CASE DropBackup
    BY <1>18, <1>a, <1>b, <1>c, <1>d
      DEF DropBackup, NextRecord, Counts, Undoing, Forward
  <1>19. CASE RestoreFails
    BY <1>19, <1>a, <1>b, <1>c, <1>d
      DEF RestoreFails, NextRecord, Fault, Counts, Undoing, Forward
  <1>20. CASE Unstage
    BY <1>20, <1>a, <1>b, <1>c, <1>d
      DEF Unstage, RemoveArtifacts, FailureOutcome, BackupsRemovedOnFailure, Counts,
          Undoing, Forward
  <1>21. CASE CleanUp
    BY <1>21, <1>a, <1>b, <1>c, <1>d
      DEF CleanUp, RemoveArtifacts, Counts, Undoing, Forward
  <1>22. CASE Done \/ UNCHANGED vars
    BY <1>22, <1>a, <1>b, <1>c, <1>d DEF Done, vars, Counts, Undoing, Forward
  <1>23. ASSUME NEW f \in Files, Replaced(f) PROVE CreatedOK'
    BY <1>23, <1>a, <1>b, <1>c, <1>d
      DEF Replaced, Touch, Discard, Counts, Undoing, Forward
  <1>24. ASSUME NEW f \in Files, Deleted(f) PROVE CreatedOK'
    BY <1>24, <1>a, <1>b, <1>c, <1>d
      DEF Deleted, Touch, Discard, Counts, Undoing, Forward
  <1>25. ASSUME NEW f \in Files, Edited(f) PROVE CreatedOK'
    BY <1>25, <1>a, <1>b, <1>c, <1>d DEF Edited, Touch, Counts, Undoing, Forward
  <1>26. QED
    BY <1>1, <1>2, <1>3, <1>4, <1>5, <1>6, <1>7, <1>8, <1>9, <1>10, <1>11, <1>12,
       <1>13, <1>14, <1>15, <1>16, <1>17, <1>18, <1>19, <1>20, <1>21, <1>22, <1>23,
       <1>24, <1>25
      DEF Next

(* The names of the inodes.                                                  *)
LEMMA NamesStep ==
    TypeOK /\ KeptInv /\ ArtifactsInv /\ WorkInv /\ [Next]_vars => Names'
  <1> SUFFICES ASSUME TypeOK /\ KeptInv /\ ArtifactsInv /\ WorkInv, [Next]_vars
               PROVE Names'
    OBVIOUS
  <1> USE DEF Names, Op, directory, records, verdict, others
  <1>a. ops' = ops /\ Indices' = Indices /\ Inodes' = Inodes
    BY PlanFixed
  <1>b. Counts /\ CreatedOK /\ Names /\ ArtifactsInv
    BY DEF KeptInv, WorkInv
  <1>c. \A j \in Indices : HasSource(j)' = HasSource(j) /\ HasContent(j)' = HasContent(j)
    BY <1>a DEF HasSource, HasContent
  <1>d. /\ Len(ops) \in Nat \ {0} /\ Indices = 1 .. Len(ops)
        /\ i \in 0 .. Len(ops) /\ committed \in 0 .. Len(ops)
        /\ at \notin {"undoing", "done"} => i \in Indices
        /\ file \in [Files -> Inodes \cup {Absent}]
        /\ temp \in [Indices -> Inodes \cup {Absent}]
        /\ backup \in [Indices -> Inodes \cup {Absent}]
        /\ version \in [Inodes -> Nat]
        /\ staged \subseteq Indices /\ created \subseteq Indices
    BY Setting
  <1>e. \A j \in Indices :
            /\ HasSource(j) => ops[j].source \in Files
            /\ HasContent(j) => ops[j].target \in Files
            /\ \A k \in Indices : j # k /\ HasSource(j) =>
                   ops[j].source # ops[k].source /\ ops[j].source # ops[k].target
    BY PlanFacts DEF TypeOK, DirectoryOK
  <1>f. /\ touches \in 0 .. MaxTouches /\ MaxTouches \in Nat
        /\ at \in {"publishing", "confirming"} /\ HasContent(i) => temp[i] = Staged(i)
    BY Setting, Bounds, InodesApart
      DEF TypeOK, OthersOK, ProgressOK, ArtifactsInv, Forward, Inodes
  <1>g. /\ \A j \in Nat : Staged(j) # Absent /\ Foreign(j) # Absent
        /\ \A j, k : Staged(j) = Staged(k) => j = k
        /\ \A j, k : Foreign(j) = Foreign(k) => j = k
        /\ \A j, k : Staged(j) # Foreign(k)
    BY InodesApart
  <1>1. CASE Stage
    BY <1>1, <1>a, <1>b, <1>c, <1>d, <1>e, <1>f, <1>g
      DEF Stage, Advance, Counts, CreatedOK, Undoing, Forward
  <1>2. CASE StageFails
    BY <1>2, <1>a, <1>b, <1>c, <1>d, <1>e, <1>f, <1>g
      DEF StageFails, Raise, RaiseAfter, Fault, Counts, CreatedOK, Undoing, Forward
  <1>3. CASE HashSource
    BY <1>3, <1>a, <1>b, <1>c, <1>d, <1>e, <1>f, <1>g
      DEF HashSource, Raise, RaiseAfter, Counts, CreatedOK, Undoing, Forward
  <1>4. CASE CheckAbsence
    BY <1>4, <1>a, <1>b, <1>c, <1>d, <1>e, <1>f, <1>g
      DEF CheckAbsence, Advance, Raise, RaiseAfter, Counts, CreatedOK, Undoing,
          Forward
  <1>5. CASE MoveSource
    <2>1. at = "moving" /\ HasSource(i) /\ i \in Indices /\ committed = i - 1
      BY <1>5, <1>b, <1>d DEF MoveSource, Counts
    <2>2. i \notin created
      BY <2>1, <1>b, <1>d DEF CreatedOK
    <2>3. ASSUME NEW k \in Indices, file[ops[i].source] = Staged(k) PROVE FALSE
      <3>1. ops[i].source \in Files /\ (k # i => ops[i].source # ops[k].target)
        BY <2>1, <1>e
      <3>2. k \in created /\ ops[k].target = ops[i].source
        BY <2>3, <3>1, <1>b
      <3>3. QED
        BY <3>1, <3>2, <2>2
    <2>4. /\ backup' = [backup EXCEPT ![i] = file[ops[i].source]]
          /\ file' = [file EXCEPT ![ops[i].source] = Absent]
          /\ UNCHANGED << ops, created, touches, made >>
      BY <1>5 DEF MoveSource
    <2>5. QED
      BY <2>1, <2>3, <2>4, <1>a, <1>b, <1>d, <1>e, <1>f, <1>g
  <1>6. CASE NoSource
    BY <1>6, <1>a, <1>b, <1>c, <1>d, <1>e, <1>f, <1>g
      DEF NoSource, Counts, CreatedOK, Undoing, Forward
  <1>7. CASE RecheckBackup
    BY <1>7, <1>a, <1>b, <1>c, <1>d, <1>e, <1>f, <1>g
      DEF RecheckBackup, Raise, RaiseAfter, Counts, CreatedOK, Undoing, Forward
  <1>8. CASE Publish
    BY <1>8, <1>a, <1>b, <1>c, <1>d, <1>e, <1>f, <1>g
      DEF Publish, CreatedWithThis, Counts, CreatedOK, Undoing, Forward
  <1>9. CASE NothingToPublish
    BY <1>9, <1>a, <1>b, <1>c, <1>d, <1>e, <1>f, <1>g
      DEF NothingToPublish, Advance, Counts, CreatedOK, Undoing, Forward
  <1>10. CASE Confirm
    BY <1>10, <1>a, <1>b, <1>c, <1>d, <1>e, <1>f, <1>g
      DEF Confirm, Advance, Raise, RaiseAfter, Identity, Counts, CreatedOK, Undoing,
          Forward
  <1>11. CASE ForwardFails
    BY <1>11, <1>a, <1>b, <1>c, <1>d, <1>e, <1>f, <1>g
      DEF ForwardFails, Refused, Interrupted, Raise, RaiseAfter, Fault, Counts,
          CreatedOK, Undoing, Forward
  <1>12. CASE NothingToRemove
    BY <1>12, <1>a, <1>b, <1>c, <1>d, <1>e, <1>f, <1>g
      DEF NothingToRemove, Counts, CreatedOK, Undoing, Forward
  <1>13. CASE InspectTarget
    BY <1>13, <1>a, <1>b, <1>c, <1>d, <1>e, <1>f, <1>g
      DEF InspectTarget, Fault, Counts, CreatedOK, Undoing, Forward
  <1>14. CASE RemoveTarget
    BY <1>14, <1>a, <1>b, <1>c, <1>d, <1>e, <1>f, <1>g
      DEF RemoveTarget, Fault, Counts, CreatedOK, Undoing, Forward
  <1>15. CASE RestoreSource
    BY <1>15, <1>a, <1>b, <1>c, <1>d, <1>e, <1>f, <1>g
      DEF RestoreSource, Counts, CreatedOK, Undoing, Forward
  <1>16. CASE NothingToRestore
    BY <1>16, <1>a, <1>b, <1>c, <1>d, <1>e, <1>f, <1>g
      DEF NothingToRestore, NextRecord, Counts, CreatedOK, Undoing, Forward
  <1>17. CASE ConfirmRestore
    BY <1>17, <1>a, <1>b, <1>c, <1>d, <1>e, <1>f, <1>g
      DEF ConfirmRestore, Counts, CreatedOK, Undoing, Forward
  <1>18. CASE DropBackup
    BY <1>18, <1>a, <1>b, <1>c, <1>d, <1>e, <1>f, <1>g
      DEF DropBackup, NextRecord, Counts, CreatedOK, Undoing, Forward
  <1>19. CASE RestoreFails
    BY <1>19, <1>a, <1>b, <1>c, <1>d, <1>e, <1>f, <1>g
      DEF RestoreFails, NextRecord, Fault, Counts, CreatedOK, Undoing, Forward
  <1>20. CASE Unstage
    BY <1>20, <1>a, <1>b, <1>c, <1>d, <1>e, <1>f, <1>g
      DEF Unstage, RemoveArtifacts, FailureOutcome, BackupsRemovedOnFailure, Counts,
          CreatedOK, Undoing, Forward
  <1>21. CASE CleanUp
    BY <1>21, <1>a, <1>b, <1>c, <1>d, <1>e, <1>f, <1>g
      DEF CleanUp, RemoveArtifacts, Counts, CreatedOK, Undoing, Forward
  <1>22. CASE Done \/ UNCHANGED vars
    BY <1>22, <1>a, <1>b, <1>c, <1>d, <1>e, <1>f, <1>g
      DEF Done, vars, Counts, CreatedOK, Undoing, Forward
  <1>23. ASSUME NEW f \in Files, Replaced(f) PROVE Names'
    BY <1>23, <1>a, <1>b, <1>c, <1>d, <1>e, <1>f, <1>g
      DEF Replaced, Touch, Discard, Counts, CreatedOK, Undoing, Forward
  <1>24. ASSUME NEW f \in Files, Deleted(f) PROVE Names'
    BY <1>24, <1>a, <1>b, <1>c, <1>d, <1>e, <1>f, <1>g
      DEF Deleted, Touch, Discard, Counts, CreatedOK, Undoing, Forward
  <1>25. ASSUME NEW f \in Files, Edited(f) PROVE Names'
    BY <1>25, <1>a, <1>b, <1>c, <1>d, <1>e, <1>f, <1>g
      DEF Edited, Touch, Counts, CreatedOK, Undoing, Forward
  <1>26. QED
    BY <1>1, <1>2, <1>3, <1>4, <1>5, <1>6, <1>7, <1>8, <1>9, <1>10, <1>11, <1>12,
       <1>13, <1>14, <1>15, <1>16, <1>17, <1>18, <1>19, <1>20, <1>21, <1>22, <1>23,
       <1>24, <1>25
      DEF Next

(* One name for every inode.                                                 *)
LEMMA ApartStep ==
    TypeOK /\ KeptInv /\ ArtifactsInv /\ WorkInv /\ [Next]_vars => Apart'
  <1> SUFFICES ASSUME TypeOK /\ KeptInv /\ ArtifactsInv /\ WorkInv, [Next]_vars
               PROVE Apart'
    OBVIOUS
  <1> USE DEF Apart, Op, Planned, directory, records, verdict, others
  <1>a. ops' = ops /\ Indices' = Indices /\ Inodes' = Inodes
    BY PlanFixed
  <1>b. Counts /\ CreatedOK /\ Names /\ Apart
    BY DEF KeptInv, WorkInv
  <1>c. \A j \in Indices : HasSource(j)' = HasSource(j) /\ HasContent(j)' = HasContent(j)
    BY <1>a DEF HasSource, HasContent
  <1>d. /\ Len(ops) \in Nat \ {0} /\ Indices = 1 .. Len(ops)
        /\ i \in 0 .. Len(ops) /\ committed \in 0 .. Len(ops)
        /\ at \notin {"undoing", "done"} => i \in Indices
        /\ file \in [Files -> Inodes \cup {Absent}]
        /\ temp \in [Indices -> Inodes \cup {Absent}]
        /\ backup \in [Indices -> Inodes \cup {Absent}]
        /\ version \in [Inodes -> Nat]
        /\ staged \subseteq Indices /\ created \subseteq Indices
    BY Setting
  <1>e. \A j \in Indices :
            /\ HasSource(j) => ops[j].source \in Files
            /\ HasContent(j) => ops[j].target \in Files
            /\ \A k \in Indices : j # k /\ HasSource(j) =>
                   ops[j].source # ops[k].source /\ ops[j].source # ops[k].target
    BY PlanFacts DEF TypeOK, DirectoryOK
  <1>f. /\ touches \in 0 .. MaxTouches /\ MaxTouches \in Nat
        /\ at \in {"publishing", "confirming"} /\ HasContent(i) => temp[i] = Staged(i)
    BY Setting, Bounds, InodesApart
      DEF TypeOK, OthersOK, ProgressOK, ArtifactsInv, Forward, Inodes
  <1>g. /\ \A j \in Nat : Staged(j) # Absent /\ Foreign(j) # Absent
        /\ \A j, k : Staged(j) = Staged(k) => j = k
        /\ \A j, k : Foreign(j) = Foreign(k) => j = k
        /\ \A j, k : Staged(j) # Foreign(k)
    BY InodesApart
  <1>1. CASE Stage
    BY <1>1, <1>a, <1>b, <1>c, <1>d, <1>e, <1>f, <1>g
      DEF Stage, Advance, Counts, Ahead, Undoing
  <1>2. CASE StageFails
    BY <1>2, <1>a, <1>b, <1>c, <1>d, <1>e, <1>f, <1>g
      DEF StageFails, Raise, RaiseAfter, Fault, Counts, Ahead, Undoing
  <1>3. CASE HashSource
    BY <1>3, <1>a, <1>b, <1>c, <1>d, <1>e, <1>f, <1>g
      DEF HashSource, Raise, RaiseAfter, Counts, Ahead, Undoing
  <1>4. CASE CheckAbsence
    BY <1>4, <1>a, <1>b, <1>c, <1>d, <1>e, <1>f, <1>g
      DEF CheckAbsence, Advance, Raise, RaiseAfter, Counts, Ahead, Undoing
  <1>5. CASE MoveSource
    BY <1>5, <1>a, <1>b, <1>c, <1>d, <1>e, <1>f, <1>g
      DEF MoveSource, RaiseAfter, Fault, Identity, Counts, Ahead, Undoing
  <1>6. CASE NoSource
    BY <1>6, <1>a, <1>b, <1>c, <1>d, <1>e, <1>f, <1>g
      DEF NoSource, Counts, Ahead, Undoing
  <1>7. CASE RecheckBackup
    BY <1>7, <1>a, <1>b, <1>c, <1>d, <1>e, <1>f, <1>g
      DEF RecheckBackup, Raise, RaiseAfter, Counts, Ahead, Undoing
  <1>8. CASE Publish
    BY <1>8, <1>a, <1>b, <1>c, <1>d, <1>e, <1>f, <1>g
      DEF Publish, CreatedWithThis, Counts, Ahead, Undoing, Names, CreatedOK
  <1>9. CASE NothingToPublish
    BY <1>9, <1>a, <1>b, <1>c, <1>d, <1>e, <1>f, <1>g
      DEF NothingToPublish, Advance, Counts, Ahead, Undoing
  <1>10. CASE Confirm
    BY <1>10, <1>a, <1>b, <1>c, <1>d, <1>e, <1>f, <1>g
      DEF Confirm, Advance, Raise, RaiseAfter, Identity, Counts, Ahead, Undoing
  <1>11. CASE ForwardFails
    BY <1>11, <1>a, <1>b, <1>c, <1>d, <1>e, <1>f, <1>g
      DEF ForwardFails, Refused, Interrupted, Raise, RaiseAfter, Fault, Counts,
          Ahead, Undoing
  <1>12. CASE NothingToRemove
    BY <1>12, <1>a, <1>b, <1>c, <1>d, <1>e, <1>f, <1>g
      DEF NothingToRemove, Counts, Ahead, Undoing
  <1>13. CASE InspectTarget
    BY <1>13, <1>a, <1>b, <1>c, <1>d, <1>e, <1>f, <1>g
      DEF InspectTarget, Fault, Counts, Ahead, Undoing
  <1>14. CASE RemoveTarget
    BY <1>14, <1>a, <1>b, <1>c, <1>d, <1>e, <1>f, <1>g
      DEF RemoveTarget, Fault, Counts, Ahead, Undoing
  <1>15. CASE RestoreSource
    BY <1>15, <1>a, <1>b, <1>c, <1>d, <1>e, <1>f, <1>g
      DEF RestoreSource, Counts, Ahead, Undoing
  <1>16. CASE NothingToRestore
    BY <1>16, <1>a, <1>b, <1>c, <1>d, <1>e, <1>f, <1>g
      DEF NothingToRestore, NextRecord, Counts, Ahead, Undoing
  <1>17. CASE ConfirmRestore
    BY <1>17, <1>a, <1>b, <1>c, <1>d, <1>e, <1>f, <1>g
      DEF ConfirmRestore, Counts, Ahead, Undoing
  <1>18. CASE DropBackup
    BY <1>18, <1>a, <1>b, <1>c, <1>d, <1>e, <1>f, <1>g
      DEF DropBackup, NextRecord, Counts, Ahead, Undoing
  <1>19. CASE RestoreFails
    BY <1>19, <1>a, <1>b, <1>c, <1>d, <1>e, <1>f, <1>g
      DEF RestoreFails, NextRecord, Fault, Counts, Ahead, Undoing
  <1>20. CASE Unstage
    BY <1>20, <1>a, <1>b, <1>c, <1>d, <1>e, <1>f, <1>g
      DEF Unstage, RemoveArtifacts, FailureOutcome, BackupsRemovedOnFailure, Counts,
          Ahead, Undoing
  <1>21. CASE CleanUp
    BY <1>21, <1>a, <1>b, <1>c, <1>d, <1>e, <1>f, <1>g
      DEF CleanUp, RemoveArtifacts, Counts, Ahead, Undoing
  <1>22. CASE Done \/ UNCHANGED vars
    BY <1>22, <1>a, <1>b, <1>c, <1>d, <1>e, <1>f, <1>g
      DEF Done, vars, Counts, Ahead, Undoing
  <1>23. ASSUME NEW f \in Files, Replaced(f) PROVE Apart'
    BY <1>23, <1>a, <1>b, <1>c, <1>d, <1>e, <1>f, <1>g
      DEF Replaced, Touch, Discard, Counts, Ahead, Undoing, Names
  <1>24. ASSUME NEW f \in Files, Deleted(f) PROVE Apart'
    BY <1>24, <1>a, <1>b, <1>c, <1>d, <1>e, <1>f, <1>g
      DEF Deleted, Touch, Discard, Counts, Ahead, Undoing
  <1>25. ASSUME NEW f \in Files, Edited(f) PROVE Apart'
    BY <1>25, <1>a, <1>b, <1>c, <1>d, <1>e, <1>f, <1>g
      DEF Edited, Touch, Counts, Ahead, Undoing
  <1>26. QED
    BY <1>1, <1>2, <1>3, <1>4, <1>5, <1>6, <1>7, <1>8, <1>9, <1>10, <1>11, <1>12,
       <1>13, <1>14, <1>15, <1>16, <1>17, <1>18, <1>19, <1>20, <1>21, <1>22, <1>23,
       <1>24, <1>25
      DEF Next

(* The identities of the published targets.                                  *)
LEMMA ConfirmedStep ==
    TypeOK /\ KeptInv /\ ArtifactsInv /\ WorkInv /\ [Next]_vars => Confirmed'
  <1> SUFFICES ASSUME TypeOK /\ KeptInv /\ ArtifactsInv /\ WorkInv, [Next]_vars
               PROVE Confirmed'
    OBVIOUS
  <1> USE DEF Confirmed, Op, directory, records, verdict, others
  <1>a. ops' = ops /\ Indices' = Indices /\ Inodes' = Inodes
    BY PlanFixed
  <1>b. Confirmed /\ (at = "confirming" => HasContent(i))
    BY DEF KeptInv, WorkInv, TypeOK, ProgressOK
  <1>c. \A j \in Indices : HasSource(j)' = HasSource(j) /\ HasContent(j)' = HasContent(j)
    BY <1>a DEF HasSource, HasContent
  <1>d. /\ Len(ops) \in Nat \ {0} /\ Indices = 1 .. Len(ops)
        /\ i \in 0 .. Len(ops) /\ committed \in 0 .. Len(ops)
        /\ at \notin {"undoing", "done"} => i \in Indices
        /\ file \in [Files -> Inodes \cup {Absent}]
        /\ temp \in [Indices -> Inodes \cup {Absent}]
        /\ backup \in [Indices -> Inodes \cup {Absent}]
        /\ version \in [Inodes -> Nat]
        /\ staged \subseteq Indices /\ created \subseteq Indices
    BY Setting
  <1>f. /\ touches \in 0 .. MaxTouches /\ MaxTouches \in Nat
        /\ at \in {"publishing", "confirming"} /\ HasContent(i) => temp[i] = Staged(i)
    BY Setting, Bounds, InodesApart
      DEF TypeOK, OthersOK, ProgressOK, ArtifactsInv, Forward, Inodes
  <1>g. /\ targetIdentity \in [Indices -> (Inodes \cup {Absent}) \X Nat]
        /\ i # 0 => Staged(i) \in Inodes
    BY Setting, InodeKinds DEF TypeOK, RecordsOK
  <1>1. CASE Confirm
    <2>1. /\ i \in Indices /\ temp[i] = Staged(i)
          /\ Staged(i) \in Inodes /\ version[Staged(i)] \in Nat
      BY <1>1, <1>b, <1>d, <1>f, <1>g DEF Confirm
    <2>2. CASE file[Op.target] = temp[i]
      <3>1. PICK n \in Nat : n = version[Staged(i)]
        BY <2>1
      <3>2. /\ targetIdentity' = [targetIdentity EXCEPT ![i] = << Staged(i), n >>]
            /\ raced \subseteq raced' /\ (n > 0 => Staged(i) \in raced')
        BY <1>1, <2>1, <2>2, <3>1 DEF Confirm, Identity
      <3>3. ASSUME NEW j \in Indices
            PROVE  \/ targetIdentity'[j] = NoIdentity
                   \/ \E m \in Nat : /\ targetIdentity'[j] = << Staged(j), m >>
                                     /\ (m > 0 => Staged(j) \in raced')
        BY <3>2, <2>1, <1>b, <1>g
      <3>4. QED
        BY <3>3, <1>a DEF NoIdentity
    <2>3. CASE file[Op.target] # temp[i]
      BY <1>1, <2>3, <1>a, <1>b, <1>d DEF Confirm, NoIdentity
    <2>4. QED
      BY <2>2, <2>3
  <1>2. CASE RemoveTarget
    BY <1>2, <1>a, <1>b, <1>c, <1>d, <1>f, <1>g DEF RemoveTarget, Fault, NoIdentity
  <1>3. CASE Stage \/ StageFails \/ HashSource \/ CheckAbsence \/ MoveSource \/
            NoSource \/ RecheckBackup \/ Publish \/ NothingToPublish
            \/ ForwardFails \/ NothingToRemove \/ InspectTarget \/
            RestoreSource \/ NothingToRestore \/ ConfirmRestore \/
            DropBackup \/ RestoreFails \/ Unstage \/ CleanUp \/ Done
            \/ UNCHANGED vars
    BY <1>3, <1>a, <1>b, <1>c, <1>d, <1>f, <1>g
      DEF Stage, Advance, StageFails, Raise, RaiseAfter, Fault, HashSource,
          CheckAbsence, MoveSource, Identity, NoSource, RecheckBackup, Publish,
          CreatedWithThis, NothingToPublish, ForwardFails, Refused, Interrupted,
          NothingToRemove, InspectTarget, RestoreSource, NothingToRestore,
          NextRecord, ConfirmRestore, DropBackup, RestoreFails, Unstage,
          RemoveArtifacts, FailureOutcome, BackupsRemovedOnFailure, CleanUp, Done,
          vars, NoIdentity
  <1>4. ASSUME NEW f \in Files, Replaced(f) PROVE Confirmed'
    BY <1>4, <1>a, <1>b, <1>c, <1>d, <1>f, <1>g
      DEF Replaced, Touch, Discard, NoIdentity
  <1>5. ASSUME NEW f \in Files, Deleted(f) PROVE Confirmed'
    BY <1>5, <1>a, <1>b, <1>c, <1>d, <1>f, <1>g
      DEF Deleted, Touch, Discard, NoIdentity
  <1>6. ASSUME NEW f \in Files, Edited(f) PROVE Confirmed'
    BY <1>6, <1>a, <1>b, <1>c, <1>d, <1>f, <1>g DEF Edited, Touch, NoIdentity
  <1>7. QED
    BY <1>1, <1>2, <1>3, <1>4, <1>5, <1>6
      DEF Next

(* A backup that is about to be dropped.                                     *)
LEMMA DroppedStep ==
    TypeOK /\ KeptInv /\ ArtifactsInv /\ WorkInv /\ [Next]_vars => Dropped'
  <1> SUFFICES ASSUME TypeOK /\ KeptInv /\ ArtifactsInv /\ WorkInv, [Next]_vars
               PROVE Dropped'
    OBVIOUS
  <1> USE DEF Dropped, Op, directory, records, verdict, others
  <1>a. ops' = ops /\ Indices' = Indices /\ Inodes' = Inodes
    BY PlanFixed
  <1>b. Counts /\ Dropped
    BY DEF KeptInv, WorkInv
  <1>c. \A j \in Indices : HasSource(j)' = HasSource(j) /\ HasContent(j)' = HasContent(j)
    BY <1>a DEF HasSource, HasContent
  <1>d. /\ Len(ops) \in Nat \ {0} /\ Indices = 1 .. Len(ops)
        /\ i \in 0 .. Len(ops) /\ committed \in 0 .. Len(ops)
        /\ at \notin {"undoing", "done"} => i \in Indices
        /\ file \in [Files -> Inodes \cup {Absent}]
        /\ temp \in [Indices -> Inodes \cup {Absent}]
        /\ backup \in [Indices -> Inodes \cup {Absent}]
        /\ version \in [Inodes -> Nat]
        /\ staged \subseteq Indices /\ created \subseteq Indices
    BY Setting
  <1>e. \A j \in Indices :
            /\ HasSource(j) => ops[j].source \in Files
            /\ HasContent(j) => ops[j].target \in Files
            /\ \A k \in Indices : j # k /\ HasSource(j) =>
                   ops[j].source # ops[k].source /\ ops[j].source # ops[k].target
    BY PlanFacts DEF TypeOK, DirectoryOK
  <1>1. CASE Stage
    BY <1>1, <1>a, <1>b, <1>c, <1>d, <1>e DEF Stage, Advance, Counts, Undoing
  <1>2. CASE StageFails
    BY <1>2, <1>a, <1>b, <1>c, <1>d, <1>e
      DEF StageFails, Raise, RaiseAfter, Fault, Counts, Undoing
  <1>3. CASE HashSource
    BY <1>3, <1>a, <1>b, <1>c, <1>d, <1>e
      DEF HashSource, Raise, RaiseAfter, Counts, Undoing
  <1>4. CASE CheckAbsence
    BY <1>4, <1>a, <1>b, <1>c, <1>d, <1>e
      DEF CheckAbsence, Advance, Raise, RaiseAfter, Counts, Undoing
  <1>5. CASE MoveSource
    BY <1>5, <1>a, <1>b, <1>c, <1>d, <1>e
      DEF MoveSource, RaiseAfter, Fault, Identity, Counts, Undoing
  <1>6. CASE NoSource
    BY <1>6, <1>a, <1>b, <1>c, <1>d, <1>e DEF NoSource, Counts, Undoing
  <1>7. CASE RecheckBackup
    BY <1>7, <1>a, <1>b, <1>c, <1>d, <1>e
      DEF RecheckBackup, Raise, RaiseAfter, Counts, Undoing
  <1>8. CASE Publish
    BY <1>8, <1>a, <1>b, <1>c, <1>d, <1>e
      DEF Publish, CreatedWithThis, Counts, Undoing
  <1>9. CASE NothingToPublish
    BY <1>9, <1>a, <1>b, <1>c, <1>d, <1>e
      DEF NothingToPublish, Advance, Counts, Undoing
  <1>10. CASE Confirm
    BY <1>10, <1>a, <1>b, <1>c, <1>d, <1>e
      DEF Confirm, Advance, Raise, RaiseAfter, Identity, Counts, Undoing
  <1>11. CASE ForwardFails
    BY <1>11, <1>a, <1>b, <1>c, <1>d, <1>e
      DEF ForwardFails, Refused, Interrupted, Raise, RaiseAfter, Fault, Counts,
          Undoing
  <1>12. CASE NothingToRemove
    BY <1>12, <1>a, <1>b, <1>c, <1>d, <1>e DEF NothingToRemove, Counts, Undoing
  <1>13. CASE InspectTarget
    BY <1>13, <1>a, <1>b, <1>c, <1>d, <1>e DEF InspectTarget, Fault, Counts, Undoing
  <1>14. CASE RemoveTarget
    BY <1>14, <1>a, <1>b, <1>c, <1>d, <1>e DEF RemoveTarget, Fault, Counts, Undoing
  <1>15. CASE RestoreSource
    BY <1>15, <1>a, <1>b, <1>c, <1>d, <1>e DEF RestoreSource, Counts, Undoing
  <1>16. CASE NothingToRestore
    BY <1>16, <1>a, <1>b, <1>c, <1>d, <1>e
      DEF NothingToRestore, NextRecord, Counts, Undoing
  <1>17. CASE ConfirmRestore
    BY <1>17, <1>a, <1>b, <1>c, <1>d, <1>e DEF ConfirmRestore, Counts, Undoing
  <1>18. CASE DropBackup
    BY <1>18, <1>a, <1>b, <1>c, <1>d, <1>e
      DEF DropBackup, NextRecord, Counts, Undoing
  <1>19. CASE RestoreFails
    BY <1>19, <1>a, <1>b, <1>c, <1>d, <1>e
      DEF RestoreFails, NextRecord, Fault, Counts, Undoing
  <1>20. CASE Unstage
    BY <1>20, <1>a, <1>b, <1>c, <1>d, <1>e
      DEF Unstage, RemoveArtifacts, FailureOutcome, BackupsRemovedOnFailure, Counts,
          Undoing
  <1>21. CASE CleanUp
    BY <1>21, <1>a, <1>b, <1>c, <1>d, <1>e
      DEF CleanUp, RemoveArtifacts, Counts, Undoing
  <1>22. CASE Done \/ UNCHANGED vars
    BY <1>22, <1>a, <1>b, <1>c, <1>d, <1>e DEF Done, vars, Counts, Undoing
  <1>23. ASSUME NEW f \in Files, Replaced(f) PROVE Dropped'
    BY <1>23, <1>a, <1>b, <1>c, <1>d, <1>e
      DEF Replaced, Touch, Discard, Counts, Undoing
  <1>24. ASSUME NEW f \in Files, Deleted(f) PROVE Dropped'
    BY <1>24, <1>a, <1>b, <1>c, <1>d, <1>e
      DEF Deleted, Touch, Discard, Counts, Undoing
  <1>25. ASSUME NEW f \in Files, Edited(f) PROVE Dropped'
    BY <1>25, <1>a, <1>b, <1>c, <1>d, <1>e DEF Edited, Touch, Counts, Undoing
  <1>26. QED
    BY <1>1, <1>2, <1>3, <1>4, <1>5, <1>6, <1>7, <1>8, <1>9, <1>10, <1>11, <1>12,
       <1>13, <1>14, <1>15, <1>16, <1>17, <1>18, <1>19, <1>20, <1>21, <1>22, <1>23,
       <1>24, <1>25
      DEF Next

(* The work of other programs.                                               *)
LEMMA WorkStep ==
    TypeOK /\ KeptInv /\ ArtifactsInv /\ WorkInv /\ [Next]_vars => WorkKept'
  <1> SUFFICES ASSUME TypeOK /\ KeptInv /\ ArtifactsInv /\ WorkInv, [Next]_vars
               PROVE WorkKept'
    OBVIOUS
  <1> USE DEF WorkKept, Op, directory, records, verdict, others
  <1>a. ops' = ops /\ Indices' = Indices /\ Inodes' = Inodes
    BY PlanFixed
  <1>b. /\ Counts /\ Names /\ Apart /\ Confirmed /\ Dropped /\ WorkKept
        /\ at = "removing" => i \in created /\ HasContent(i)
    BY DEF KeptInv, WorkInv, TypeOK, ProgressOK
  <1>c. \A j \in Indices : HasSource(j)' = HasSource(j) /\ HasContent(j)' = HasContent(j)
    BY <1>a DEF HasSource, HasContent
  <1>d. /\ Len(ops) \in Nat \ {0} /\ Indices = 1 .. Len(ops)
        /\ i \in 0 .. Len(ops) /\ committed \in 0 .. Len(ops)
        /\ at \notin {"undoing", "done"} => i \in Indices
        /\ file \in [Files -> Inodes \cup {Absent}]
        /\ temp \in [Indices -> Inodes \cup {Absent}]
        /\ backup \in [Indices -> Inodes \cup {Absent}]
        /\ version \in [Inodes -> Nat]
        /\ staged \subseteq Indices /\ created \subseteq Indices
    BY Setting
  <1>e. \A j \in Indices :
            /\ HasSource(j) => ops[j].source \in Files
            /\ HasContent(j) => ops[j].target \in Files
            /\ \A k \in Indices : j # k /\ HasSource(j) =>
                   ops[j].source # ops[k].source /\ ops[j].source # ops[k].target
    BY PlanFacts DEF TypeOK, DirectoryOK
  <1>f. /\ touches \in 0 .. MaxTouches /\ MaxTouches \in Nat
        /\ at \in {"publishing", "confirming"} /\ HasContent(i) => temp[i] = Staged(i)
    BY Setting, Bounds, InodesApart
      DEF TypeOK, OthersOK, ProgressOK, ArtifactsInv, Forward, Inodes
  <1>h. Absent \notin Inodes /\ made \subseteq Inodes
    <2>1. /\ \A f \in Files : Original(f) # Absent
          /\ \A j \in Nat : Staged(j) # Absent /\ Foreign(j) # Absent
      BY InodesApart
    <2>2. Indices \subseteq Nat /\ 1 .. MaxTouches \subseteq Nat
      BY <1>d, Bounds
    <2>3. Absent \notin Inodes
      BY <2>1, <2>2 DEF Inodes
    <2>4. QED
      BY <2>3 DEF TypeOK, OthersOK
  <1>1. CASE Stage
    BY <1>1, <1>a, <1>b, <1>c, <1>d, <1>e, <1>f, <1>h DEF Stage, Advance
  <1>2. CASE StageFails
    BY <1>2, <1>a, <1>b, <1>c, <1>d, <1>e, <1>f, <1>h
      DEF StageFails, Raise, RaiseAfter, Fault
  <1>3. CASE HashSource
    BY <1>3, <1>a, <1>b, <1>c, <1>d, <1>e, <1>f, <1>h
      DEF HashSource, Raise, RaiseAfter
  <1>4. CASE CheckAbsence
    BY <1>4, <1>a, <1>b, <1>c, <1>d, <1>e, <1>f, <1>h
      DEF CheckAbsence, Advance, Raise, RaiseAfter
  <1>5. CASE MoveSource
    BY <1>5, <1>a, <1>b, <1>c, <1>d, <1>e, <1>f, <1>h
      DEF MoveSource, RaiseAfter, Fault, Identity, Counts
  <1>6. CASE NoSource
    BY <1>6, <1>a, <1>b, <1>c, <1>d, <1>e, <1>f, <1>h DEF NoSource
  <1>7. CASE RecheckBackup
    BY <1>7, <1>a, <1>b, <1>c, <1>d, <1>e, <1>f, <1>h
      DEF RecheckBackup, Raise, RaiseAfter
  <1>8. CASE Publish
    BY <1>8, <1>a, <1>b, <1>c, <1>d, <1>e, <1>f, <1>h DEF Publish, CreatedWithThis
  <1>9. CASE NothingToPublish
    BY <1>9, <1>a, <1>b, <1>c, <1>d, <1>e, <1>f, <1>h DEF NothingToPublish, Advance
  <1>10. CASE Confirm
    BY <1>10, <1>a, <1>b, <1>c, <1>d, <1>e, <1>f, <1>h
      DEF Confirm, Advance, Raise, RaiseAfter, Identity
  <1>11. CASE ForwardFails
    BY <1>11, <1>a, <1>b, <1>c, <1>d, <1>e, <1>f, <1>h
      DEF ForwardFails, Refused, Interrupted, Raise, RaiseAfter, Fault
  <1>12. CASE NothingToRemove
    BY <1>12, <1>a, <1>b, <1>c, <1>d, <1>e, <1>f, <1>h DEF NothingToRemove
  <1>13. CASE InspectTarget
    BY <1>13, <1>a, <1>b, <1>c, <1>d, <1>e, <1>f, <1>h DEF InspectTarget, Fault
  <1>14. CASE RemoveTarget
    <2>1. CASE UNCHANGED << file, raced >>
      BY <1>14, <2>1, <1>a, <1>b, <1>d DEF RemoveTarget
    <2>2. CASE file' = [file EXCEPT ![Op.target] = Absent]
      <3>1. /\ i \in Indices /\ HasContent(i) /\ ops[i].target \in Files
            /\ UNCHANGED << backup, version, made, discarded >>
        BY <1>14, <1>b, <1>d, <1>e DEF RemoveTarget
      <3>2. PICK x : x = file[ops[i].target]
        OBVIOUS
      <3>3. \/ x = Absent \/ x \in raced'
            \/ StillOurs(i) /\ raced' = raced
        BY <1>14, <3>1, <3>2, <2>2, <1>d DEF RemoveTarget
      <3>4. raced \subseteq raced'
        BY <1>14 DEF RemoveTarget
      <3>5. ASSUME StillOurs(i), x # Absent, x \in made \/ version[x] > 0
            PROVE  x \in raced
        <4>1. targetIdentity[i] = << x, version[x] >>
          BY <3>5, <3>2 DEF StillOurs, Identity
        <4>2. PICK n \in Nat :
                  targetIdentity[i] = << Staged(i), n >> /\ (n > 0 => Staged(i) \in raced)
          BY <4>1, <3>1, <3>5, <1>b DEF Confirmed, NoIdentity
        <4>3. x = Staged(i) /\ version[x] = n
          BY <4>1, <4>2
        <4>4. x \notin made
          BY <4>3, <1>b, InodesApart DEF Names
        <4>5. QED
          BY <4>2, <4>3, <4>4, <3>5
      <3>6. \A f \in Files : file'[f] = file[f] \/ (f = ops[i].target /\ file[f] = x)
        BY <2>2, <3>1, <3>2, <1>d
      <3>7. ASSUME NEW y \in Inodes, y \in made \/ version[y] > 0
            PROVE  \/ \E f \in Files : file'[f] = y
                   \/ \E j \in Indices : backup[j] = y
                   \/ y \in discarded \/ y \in raced'
        <4>1. y # Absent
          BY <1>h
        <4>2. CASE y = x
          BY <4>1, <4>2, <3>3, <3>4, <3>5, <3>7
        <4>3. CASE y # x
          BY <4>3, <3>4, <3>6, <3>7, <1>b
        <4>4. QED
          BY <4>2, <4>3
      <3>8. QED
        BY <3>1, <3>7, <1>a
    <2>3. QED
      BY <1>14, <2>1, <2>2 DEF RemoveTarget
  <1>15. CASE RestoreSource
    BY <1>15, <1>a, <1>b, <1>c, <1>d, <1>e, <1>f, <1>h
      DEF RestoreSource, Counts, RestoreRefused
  <1>16. CASE NothingToRestore
    BY <1>16, <1>a, <1>b, <1>c, <1>d, <1>e, <1>f, <1>h
      DEF NothingToRestore, NextRecord
  <1>17. CASE ConfirmRestore
    BY <1>17, <1>a, <1>b, <1>c, <1>d, <1>e, <1>f, <1>h DEF ConfirmRestore
  <1>18. CASE DropBackup
    BY <1>18, <1>a, <1>b, <1>c, <1>d, <1>e, <1>f, <1>h
      DEF DropBackup, NextRecord, Dropped, Counts
  <1>19. CASE RestoreFails
    BY <1>19, <1>a, <1>b, <1>c, <1>d, <1>e, <1>f, <1>h
      DEF RestoreFails, NextRecord, Fault
  <1>20. CASE Unstage
    BY <1>20, <1>a, <1>b, <1>c, <1>d, <1>e, <1>f, <1>h
      DEF Unstage, RemoveArtifacts, FailureOutcome, BackupsRemovedOnFailure
  <1>21. CASE CleanUp
    <2>1. ASSUME NEW j \in Indices, backup[j] # Absent
          PROVE  backup[j] \notin made /\ version[backup[j]] = 0
      <3>1. Planned(backup[j], ops[j].source)
        BY <1>21, <2>1, <1>b DEF CleanUp, Apart, Ahead, Undoing
      <3>2. QED
        BY <3>1, <1>b, InodesApart DEF Planned, Names
    <2>2. UNCHANGED << file, version, made, discarded, raced >>
      BY <1>21 DEF CleanUp
    <2>3. ASSUME NEW x \in Inodes, x \in made \/ version[x] > 0
          PROVE  (\E f \in Files : file[f] = x) \/ x \in discarded \/ x \in raced
      <3>1. \A j \in Indices : backup[j] # x
        BY <2>1, <2>3, <1>h
      <3>2. QED
        BY <2>3, <3>1, <1>b
    <2>4. QED
      BY <2>2, <2>3, <1>a
  <1>22. CASE Done \/ UNCHANGED vars
    BY <1>22, <1>a, <1>b, <1>c, <1>d, <1>e, <1>f, <1>h DEF Done, vars
  <1>23. ASSUME NEW f \in Files, Replaced(f) PROVE WorkKept'
    BY <1>23, <1>a, <1>b, <1>c, <1>d, <1>e, <1>f, <1>h DEF Replaced, Touch, Discard
  <1>24. ASSUME NEW f \in Files, Deleted(f) PROVE WorkKept'
    BY <1>24, <1>a, <1>b, <1>c, <1>d, <1>e, <1>f, <1>h DEF Deleted, Touch, Discard
  <1>25. ASSUME NEW f \in Files, Edited(f) PROVE WorkKept'
    BY <1>25, <1>a, <1>b, <1>c, <1>d, <1>e, <1>f, <1>h DEF Edited, Touch
  <1>26. QED
    BY <1>1, <1>2, <1>3, <1>4, <1>5, <1>6, <1>7, <1>8, <1>9, <1>10, <1>11, <1>12,
       <1>13, <1>14, <1>15, <1>16, <1>17, <1>18, <1>19, <1>20, <1>21, <1>22, <1>23,
       <1>24, <1>25
      DEF Next

-----------------------------------------------------------------------------
(* The operations in effect: the rollback works its way back from the last.  *)
Published(j) ==
    /\ j \in created
    /\ at \in {"undoing", "removing"} => j <= i
    /\ at \in {"restoring", "restored", "dropping"} => j < i

Moved(j) ==
    /\ HasSource(j) /\ j <= committed
    /\ at \in {"undoing", "removing", "restoring"} => j <= i
    /\ at \in {"restored", "dropping"} => j < i

(* Where nobody else changed the entries, a file that was moved is in its    *)
(* backup,                                                                   *)
BackedUp ==
    at # "done" /\ ~unrecovered =>
        \A j \in Indices : Moved(j) =>
            /\ backup[j] # Absent
            /\ ops[j].source \notin relinked => backup[j] = Original(ops[j].source)

(* and every file is what the operations in effect make of it.               *)
AsPlanned ==
    at # "done" /\ ~unrecovered =>
        \A f \in Files \ relinked :
            /\ \A j \in Indices : ops[j].target = f /\ Published(j) => file[f] = Staged(j)
            /\ \A j \in Indices : ops[j].source = f /\ ~Moved(j) => file[f] = Original(f)
            /\ /\ \A j \in Indices : ops[j].target = f => ~Published(j)
               /\ \A j \in Indices : ops[j].source = f => Moved(j)
               => file[f] = Absent

(* Two operations never write one file.                                      *)
LEMMA TargetsApart ==
    ASSUME ops \in Plans, NEW j \in Indices, NEW k \in Indices, HasContent(j),
           ops[j].target = ops[k].target
    PROVE  j = k
  <1>1. /\ Indices = 1 .. Len(ops) /\ ops[j].target \in Files /\ Absent \notin Files
        /\ \A m, n \in 1 .. Len(ops) : m # n => PathsOf(ops[m]) \cap PathsOf(ops[n]) = {}
    BY PlanFacts, PatchAssumption
  <1>2. ops[j].target \in PathsOf(ops[j]) \cap PathsOf(ops[k])
    BY <1>1 DEF PathsOf
  <1>3. QED
    BY <1>1, <1>2

EffectInv == BackedUp /\ AsPlanned /\ AllOrNothing

(* The backups of the operations in effect.                                  *)
LEMMA BackedUpStep ==
    TypeOK /\ KeptInv /\ ArtifactsInv /\ WorkInv /\ EffectInv /\ [Next]_vars => BackedUp'
  <1> SUFFICES ASSUME TypeOK /\ KeptInv /\ ArtifactsInv /\ WorkInv /\ EffectInv, [Next]_vars
               PROVE BackedUp'
    OBVIOUS
  <1> USE DEF BackedUp, Op, HasSource, directory, records, verdict, others
  <1>a. ops' = ops /\ Indices' = Indices /\ Inodes' = Inodes
    BY PlanFixed
  <1>b. Counts /\ BackedUp /\ AsPlanned
    BY DEF KeptInv, EffectInv
  <1>c. \A j \in Indices : HasSource(j)' = HasSource(j) /\ HasContent(j)' = HasContent(j)
    BY <1>a DEF HasSource, HasContent
  <1>d. /\ Len(ops) \in Nat \ {0} /\ Indices = 1 .. Len(ops)
        /\ i \in 0 .. Len(ops) /\ committed \in 0 .. Len(ops)
        /\ at \notin {"undoing", "done"} => i \in Indices
        /\ file \in [Files -> Inodes \cup {Absent}]
        /\ temp \in [Indices -> Inodes \cup {Absent}]
        /\ backup \in [Indices -> Inodes \cup {Absent}]
        /\ version \in [Inodes -> Nat]
        /\ staged \subseteq Indices /\ created \subseteq Indices
    BY Setting
  <1>e. /\ Absent \notin Files
        /\ \A j \in Indices :
            /\ HasSource(j) => ops[j].source \in Files
            /\ HasContent(j) => ops[j].target \in Files
            /\ \A k \in Indices : j # k /\ HasSource(j) =>
                   ops[j].source # ops[k].source /\ ops[j].source # ops[k].target
    BY PlanFacts, PatchAssumption DEF TypeOK, DirectoryOK
  <1>1. CASE Stage
    BY <1>1, <1>a, <1>b, <1>c, <1>d, <1>e DEF Stage, Advance, Moved, Counts, Undoing
  <1>2. CASE StageFails
    BY <1>2, <1>a, <1>b, <1>c, <1>d, <1>e
      DEF StageFails, Raise, RaiseAfter, Fault, Moved, Counts, Undoing
  <1>3. CASE HashSource
    BY <1>3, <1>a, <1>b, <1>c, <1>d, <1>e
      DEF HashSource, Raise, RaiseAfter, Moved, Counts, Undoing
  <1>4. CASE CheckAbsence
    BY <1>4, <1>a, <1>b, <1>c, <1>d, <1>e
      DEF CheckAbsence, Advance, Raise, RaiseAfter, Moved, Counts, Undoing
  <1>5. CASE MoveSource
    BY <1>5, <1>a, <1>b, <1>c, <1>d, <1>e
      DEF MoveSource, RaiseAfter, Fault, Identity, Moved, Counts, Undoing, AsPlanned
  <1>6. CASE NoSource
    BY <1>6, <1>a, <1>b, <1>c, <1>d, <1>e DEF NoSource, Moved, Counts, Undoing
  <1>7. CASE RecheckBackup
    BY <1>7, <1>a, <1>b, <1>c, <1>d, <1>e
      DEF RecheckBackup, Raise, RaiseAfter, Moved, Counts, Undoing
  <1>8. CASE Publish
    BY <1>8, <1>a, <1>b, <1>c, <1>d, <1>e
      DEF Publish, CreatedWithThis, Moved, Counts, Undoing
  <1>9. CASE NothingToPublish
    BY <1>9, <1>a, <1>b, <1>c, <1>d, <1>e
      DEF NothingToPublish, Advance, Moved, Counts, Undoing
  <1>10. CASE Confirm
    BY <1>10, <1>a, <1>b, <1>c, <1>d, <1>e
      DEF Confirm, Advance, Raise, RaiseAfter, Identity, Moved, Counts, Undoing
  <1>11. CASE ForwardFails
    BY <1>11, <1>a, <1>b, <1>c, <1>d, <1>e
      DEF ForwardFails, Refused, Interrupted, Raise, RaiseAfter, Fault, Moved,
          Counts, Undoing
  <1>12. CASE NothingToRemove
    BY <1>12, <1>a, <1>b, <1>c, <1>d, <1>e
      DEF NothingToRemove, Moved, Counts, Undoing
  <1>13. CASE InspectTarget
    BY <1>13, <1>a, <1>b, <1>c, <1>d, <1>e
      DEF InspectTarget, Fault, Moved, Counts, Undoing
  <1>14. CASE RemoveTarget
    BY <1>14, <1>a, <1>b, <1>c, <1>d, <1>e
      DEF RemoveTarget, Fault, Moved, Counts, Undoing
  <1>15. CASE RestoreSource
    BY <1>15, <1>a, <1>b, <1>c, <1>d, <1>e DEF RestoreSource, Moved, Counts, Undoing
  <1>16. CASE NothingToRestore
    BY <1>16, <1>a, <1>b, <1>c, <1>d, <1>e
      DEF NothingToRestore, NextRecord, Moved, Counts, Undoing
  <1>17. CASE ConfirmRestore
    BY <1>17, <1>a, <1>b, <1>c, <1>d, <1>e
      DEF ConfirmRestore, Moved, Counts, Undoing
  <1>18. CASE DropBackup
    BY <1>18, <1>a, <1>b, <1>c, <1>d, <1>e
      DEF DropBackup, NextRecord, Moved, Counts, Undoing
  <1>19. CASE RestoreFails
    BY <1>19, <1>a, <1>b, <1>c, <1>d, <1>e
      DEF RestoreFails, NextRecord, Fault, Moved, Counts, Undoing
  <1>20. CASE Unstage
    BY <1>20, <1>a, <1>b, <1>c, <1>d, <1>e
      DEF Unstage, RemoveArtifacts, FailureOutcome, BackupsRemovedOnFailure, Moved,
          Counts, Undoing
  <1>21. CASE CleanUp
    BY <1>21, <1>a, <1>b, <1>c, <1>d, <1>e
      DEF CleanUp, RemoveArtifacts, Moved, Counts, Undoing
  <1>22. CASE Done \/ UNCHANGED vars
    BY <1>22, <1>a, <1>b, <1>c, <1>d, <1>e DEF Done, vars, Moved, Counts, Undoing
  <1>23. ASSUME NEW f \in Files, Replaced(f) PROVE BackedUp'
    BY <1>23, <1>a, <1>b, <1>c, <1>d, <1>e
      DEF Replaced, Touch, Discard, Moved, Counts, Undoing
  <1>24. ASSUME NEW f \in Files, Deleted(f) PROVE BackedUp'
    BY <1>24, <1>a, <1>b, <1>c, <1>d, <1>e
      DEF Deleted, Touch, Discard, Moved, Counts, Undoing
  <1>25. ASSUME NEW f \in Files, Edited(f) PROVE BackedUp'
    BY <1>25, <1>a, <1>b, <1>c, <1>d, <1>e DEF Edited, Touch, Moved, Counts, Undoing
  <1>26. QED
    BY <1>1, <1>2, <1>3, <1>4, <1>5, <1>6, <1>7, <1>8, <1>9, <1>10, <1>11, <1>12,
       <1>13, <1>14, <1>15, <1>16, <1>17, <1>18, <1>19, <1>20, <1>21, <1>22, <1>23,
       <1>24, <1>25
      DEF Next

(* The files.                                                                *)
LEMMA AsPlannedStep ==
    TypeOK /\ KeptInv /\ ArtifactsInv /\ WorkInv /\ EffectInv /\ [Next]_vars => AsPlanned'
  <1> SUFFICES ASSUME TypeOK /\ KeptInv /\ ArtifactsInv /\ WorkInv /\ EffectInv, [Next]_vars
               PROVE AsPlanned'
    OBVIOUS
  <1> USE DEF AsPlanned, Op, HasSource, directory, records, verdict, others
  <1>a. ops' = ops /\ Indices' = Indices /\ Inodes' = Inodes
    BY PlanFixed
  <1>b. Counts /\ CreatedOK /\ BackedUp /\ AsPlanned
    BY DEF KeptInv, WorkInv, EffectInv
  <1>c. \A j \in Indices : HasSource(j)' = HasSource(j) /\ HasContent(j)' = HasContent(j)
    BY <1>a DEF HasSource, HasContent
  <1>d. /\ Len(ops) \in Nat \ {0} /\ Indices = 1 .. Len(ops)
        /\ i \in 0 .. Len(ops) /\ committed \in 0 .. Len(ops)
        /\ at \notin {"undoing", "done"} => i \in Indices
        /\ file \in [Files -> Inodes \cup {Absent}]
        /\ temp \in [Indices -> Inodes \cup {Absent}]
        /\ backup \in [Indices -> Inodes \cup {Absent}]
        /\ version \in [Inodes -> Nat]
        /\ staged \subseteq Indices /\ created \subseteq Indices
    BY Setting
  <1>e. /\ Absent \notin Files
        /\ \A j \in Indices :
            /\ HasSource(j) => ops[j].source \in Files
            /\ HasContent(j) => ops[j].target \in Files
            /\ \A k \in Indices : j # k /\ HasSource(j) =>
                   ops[j].source # ops[k].source /\ ops[j].source # ops[k].target
    BY PlanFacts, PatchAssumption DEF TypeOK, DirectoryOK
  <1>f. /\ touches \in 0 .. MaxTouches /\ MaxTouches \in Nat
        /\ at \in {"publishing", "confirming"} /\ HasContent(i) => temp[i] = Staged(i)
    BY Setting, Bounds, InodesApart
      DEF TypeOK, OthersOK, ProgressOK, ArtifactsInv, Forward, Inodes
  <1>g. at = "removing" => i \in created /\ HasContent(i)
    BY DEF TypeOK, ProgressOK
  <1>1. CASE Stage
    <2>1. /\ UNCHANGED << ops, file, relinked >> /\ Indices' = Indices
          /\ at' # "done" /\ ~unrecovered' => at # "done" /\ ~unrecovered
      BY <1>1, <1>a DEF Stage, Advance
    <2>2. ASSUME NEW j \in Indices, at' # "done"
          PROVE  (Published(j)' <=> Published(j)) /\ (Moved(j)' <=> Moved(j))
      BY <1>1, <1>a, <1>b, <1>c, <1>d
        DEF Published, Moved, Counts, CreatedOK, Undoing, Stage, Advance
    <2>3. QED
      BY <2>1, <2>2, <1>b
  <1>2. CASE StageFails
    BY <1>2, <1>a, <1>b, <1>c, <1>d, <1>e, <1>f, <1>g
      DEF StageFails, Raise, RaiseAfter, Fault, Moved, Published, Counts, CreatedOK,
          Undoing
  <1>3. CASE HashSource
    BY <1>3, <1>a, <1>b, <1>c, <1>d, <1>e, <1>f, <1>g
      DEF HashSource, Raise, RaiseAfter, Moved, Published, Counts, CreatedOK,
          Undoing
  <1>4. CASE CheckAbsence
    BY <1>4, <1>a, <1>b, <1>c, <1>d, <1>e, <1>f, <1>g
      DEF CheckAbsence, Advance, Raise, RaiseAfter, Moved, Published, Counts,
          CreatedOK, Undoing
  <1>5. CASE MoveSource
    BY <1>5, <1>a, <1>b, <1>c, <1>d, <1>e, <1>f, <1>g
      DEF MoveSource, RaiseAfter, Fault, Identity, Moved, Published, Counts,
          CreatedOK, Undoing
  <1>6. CASE NoSource
    BY <1>6, <1>a, <1>b, <1>c, <1>d, <1>e, <1>f, <1>g
      DEF NoSource, Moved, Published, Counts, CreatedOK, Undoing
  <1>7. CASE RecheckBackup
    <2>1. /\ UNCHANGED << ops, file, relinked >> /\ Indices' = Indices
          /\ at' # "done" /\ ~unrecovered' => at # "done" /\ ~unrecovered
      BY <1>7, <1>a DEF RecheckBackup, Raise, RaiseAfter
    <2>2. ASSUME NEW j \in Indices, at' # "done"
          PROVE  (Published(j)' <=> Published(j)) /\ (Moved(j)' <=> Moved(j))
      BY <1>7, <1>a, <1>b, <1>c, <1>d
        DEF Published, Moved, Counts, CreatedOK, Undoing, RecheckBackup, Raise, RaiseAfter
    <2>3. QED
      BY <2>1, <2>2, <1>b
  <1>8. CASE Publish
    <2>1. /\ at = "publishing" /\ i \in Indices /\ HasContent(i) /\ temp[i] = Staged(i)
          /\ file' = [file EXCEPT ![ops[i].target] = Staged(i)]
          /\ created' = created \cup {i} /\ at' = "confirming"
          /\ UNCHANGED << ops, relinked, i, committed, unrecovered >>
      BY <1>8, <1>d, <1>f DEF Publish, CreatedWithThis
    <2>2. /\ \A j \in Indices : Published(j)' <=> Published(j) \/ j = i
          /\ \A j \in Indices : Moved(j)' <=> Moved(j)
          /\ HasSource(i) => Moved(i)
      BY <2>1, <1>a, <1>b, <1>c, <1>d DEF Published, Moved, Counts
    <2>3. \A j \in Indices : ops[j].target = ops[i].target => j = i
      BY <2>1, TargetsApart DEF TypeOK, DirectoryOK
    <2>4. /\ ops[i].target \in Files
          /\ \A j \in Indices : ops[j].source = ops[i].target => HasSource(j) /\ j = i
      BY <2>1, <1>e
    <2>5. \A f \in Files : file'[f] = IF f = ops[i].target THEN Staged(i) ELSE file[f]
      BY <2>1, <2>4, <1>d
    <2>6. QED
      BY <2>1, <2>2, <2>3, <2>4, <2>5, <1>a, <1>b
  <1>9. CASE NothingToPublish
    <2>1. /\ UNCHANGED << ops, file, relinked >> /\ Indices' = Indices
          /\ at' # "done" /\ ~unrecovered' => at # "done" /\ ~unrecovered
      BY <1>9, <1>a DEF NothingToPublish, Advance
    <2>2. ASSUME NEW j \in Indices, at' # "done"
          PROVE  (Published(j)' <=> Published(j)) /\ (Moved(j)' <=> Moved(j))
      BY <1>9, <1>a, <1>b, <1>c, <1>d
        DEF Published, Moved, Counts, CreatedOK, Undoing, NothingToPublish, Advance
    <2>3. QED
      BY <2>1, <2>2, <1>b
  <1>10. CASE Confirm
    BY <1>10, <1>a, <1>b, <1>c, <1>d, <1>e, <1>f, <1>g
      DEF Confirm, Advance, Raise, RaiseAfter, Identity, Moved, Published, Counts,
          CreatedOK, Undoing
  <1>11. CASE ForwardFails
    <2>1. /\ UNCHANGED << ops, file, relinked >> /\ Indices' = Indices
          /\ at' # "done" /\ ~unrecovered' => at # "done" /\ ~unrecovered
      BY <1>11, <1>a DEF ForwardFails, Refused, Interrupted, Raise, RaiseAfter, Fault
    <2>2. ASSUME NEW j \in Indices, at' # "done"
          PROVE  (Published(j)' <=> Published(j)) /\ (Moved(j)' <=> Moved(j))
      BY <1>11, <1>a, <1>b, <1>c, <1>d
        DEF Published, Moved, Counts, CreatedOK, Undoing, ForwardFails, Refused,
            Interrupted, Raise, RaiseAfter, Fault
    <2>3. QED
      BY <2>1, <2>2, <1>b
  <1>12. CASE NothingToRemove
    BY <1>12, <1>a, <1>b, <1>c, <1>d, <1>e, <1>f, <1>g
      DEF NothingToRemove, Moved, Published, Counts, CreatedOK, Undoing
  <1>13. CASE InspectTarget
    BY <1>13, <1>a, <1>b, <1>c, <1>d, <1>e, <1>f, <1>g
      DEF InspectTarget, Fault, Moved, Published, Counts, CreatedOK, Undoing
  <1>14. CASE RemoveTarget
    <2>1. /\ at = "removing" /\ i \in Indices /\ HasContent(i) /\ at' = "restoring"
          /\ UNCHANGED << ops, relinked, i, committed, created >>
      BY <1>14, <1>d, <1>g DEF RemoveTarget
    <2>2. /\ \A j \in Indices : Published(j)' <=> Published(j) /\ j # i
          /\ \A j \in Indices : Moved(j)' <=> Moved(j)
          /\ HasSource(i) => Moved(i)
      BY <2>1, <1>a, <1>b, <1>c, <1>d DEF Published, Moved, Counts, CreatedOK, Undoing
    <2>3. \A j \in Indices : ops[j].target = ops[i].target => j = i
      BY <2>1, TargetsApart DEF TypeOK, DirectoryOK
    <2>4. /\ ops[i].target \in Files
          /\ \A j \in Indices : ops[j].source = ops[i].target => HasSource(j) /\ j = i
      BY <2>1, <1>e
    <2>5. CASE unrecovered'
      BY <2>5
    <2>6. CASE /\ ~unrecovered' /\ UNCHANGED unrecovered
               /\ file' = [file EXCEPT ![ops[i].target] = Absent]
      <3>1. \A f \in Files : file'[f] = IF f = ops[i].target THEN Absent ELSE file[f]
        BY <2>4, <2>6, <1>d
      <3>2. QED
        BY <2>1, <2>2, <2>3, <2>4, <2>6, <3>1, <1>a, <1>b
    <2>7. QED
      BY <1>14, <2>5, <2>6 DEF RemoveTarget
  <1>15. CASE RestoreSource
    BY <1>15, <1>a, <1>b, <1>c, <1>d, <1>e, <1>f, <1>g
      DEF RestoreSource, Moved, Published, Counts, CreatedOK, Undoing, BackedUp,
          RestoreRefused
  <1>16. CASE NothingToRestore
    <2>1. /\ at = "restoring" /\ backup[i] = Absent /\ i \in Indices
          /\ at' = "undoing" /\ i' = i - 1
          /\ UNCHANGED << ops, file, relinked, created, committed, unrecovered >>
      BY <1>16, <1>d DEF NothingToRestore, NextRecord
    <2>2. ASSUME ~unrecovered PROVE ~Moved(i)
      BY <2>1, <2>2, <1>b DEF BackedUp
    <2>3. \A j \in Indices : j <= i - 1 <=> j < i
      BY <2>1, <1>d
    <2>4. ASSUME NEW j \in Indices PROVE Published(j)' <=> Published(j)
      BY <2>1, <2>3, <1>a, <1>d DEF Published
    <2>5. ASSUME NEW j \in Indices, ~unrecovered PROVE Moved(j)' <=> Moved(j)
      <3>1. Moved(j) <=> HasSource(j) /\ j <= committed /\ j <= i
        BY <2>1 DEF Moved
      <3>2. Moved(j)' <=> HasSource(j) /\ j <= committed /\ j < i
        BY <2>1, <2>3, <1>a DEF Moved
      <3>3. QED
        BY <2>1, <2>2, <2>5, <3>1, <3>2, <1>d
    <2>6. QED
      BY <2>1, <2>4, <2>5, <1>a, <1>b
  <1>17. CASE ConfirmRestore
    BY <1>17, <1>a, <1>b, <1>c, <1>d, <1>e, <1>f, <1>g
      DEF ConfirmRestore, Moved, Published, Counts, CreatedOK, Undoing
  <1>18. CASE DropBackup
    BY <1>18, <1>a, <1>b, <1>c, <1>d, <1>e, <1>f, <1>g
      DEF DropBackup, NextRecord, Moved, Published, Counts, CreatedOK, Undoing
  <1>19. CASE RestoreFails
    BY <1>19, <1>a, <1>b, <1>c, <1>d, <1>e, <1>f, <1>g
      DEF RestoreFails, NextRecord, Fault, Moved, Published, Counts, CreatedOK,
          Undoing
  <1>20. CASE Unstage
    BY <1>20, <1>a, <1>b, <1>c, <1>d, <1>e, <1>f, <1>g
      DEF Unstage, RemoveArtifacts, FailureOutcome, BackupsRemovedOnFailure, Moved,
          Published, Counts, CreatedOK, Undoing
  <1>21. CASE CleanUp
    BY <1>21, <1>a, <1>b, <1>c, <1>d, <1>e, <1>f, <1>g
      DEF CleanUp, RemoveArtifacts, Moved, Published, Counts, CreatedOK, Undoing
  <1>22. CASE Done \/ UNCHANGED vars
    <2>1. /\ UNCHANGED << ops, file, relinked >> /\ Indices' = Indices
          /\ at' # "done" /\ ~unrecovered' => at # "done" /\ ~unrecovered
      BY <1>22, <1>a DEF Done, vars
    <2>2. ASSUME NEW j \in Indices, at' # "done"
          PROVE  (Published(j)' <=> Published(j)) /\ (Moved(j)' <=> Moved(j))
      BY <1>22, <1>a, <1>b, <1>c, <1>d
        DEF Published, Moved, Counts, CreatedOK, Undoing, Done, vars
    <2>3. QED
      BY <2>1, <2>2, <1>b
  <1>23. ASSUME NEW f \in Files, Replaced(f) PROVE AsPlanned'
    BY <1>23, <1>a, <1>b, <1>c, <1>d, <1>e, <1>f, <1>g
      DEF Replaced, Touch, Discard, Moved, Published, Counts, CreatedOK, Undoing
  <1>24. ASSUME NEW f \in Files, Deleted(f) PROVE AsPlanned'
    BY <1>24, <1>a, <1>b, <1>c, <1>d, <1>e, <1>f, <1>g
      DEF Deleted, Touch, Discard, Moved, Published, Counts, CreatedOK, Undoing
  <1>25. ASSUME NEW f \in Files, Edited(f) PROVE AsPlanned'
    BY <1>25, <1>a, <1>b, <1>c, <1>d, <1>e, <1>f, <1>g
      DEF Edited, Touch, Moved, Published, Counts, CreatedOK, Undoing
  <1>26. QED
    BY <1>1, <1>2, <1>3, <1>4, <1>5, <1>6, <1>7, <1>8, <1>9, <1>10, <1>11, <1>12,
       <1>13, <1>14, <1>15, <1>16, <1>17, <1>18, <1>19, <1>20, <1>21, <1>22, <1>23,
       <1>24, <1>25
      DEF Next


(* What a call that is over has done or undone.                              *)
LEMMA AllOrNothingStep ==
    TypeOK /\ KeptInv /\ ArtifactsInv /\ WorkInv /\ EffectInv /\ [Next]_vars => AllOrNothing'
  <1> SUFFICES ASSUME TypeOK, KeptInv, ArtifactsInv, WorkInv, EffectInv, [Next]_vars
               PROVE  AllOrNothing'
    OBVIOUS
  <1> USE DEF directory, records, verdict, others
  <1>a. ops' = ops /\ Indices' = Indices /\ relinked \subseteq relinked'
    <2>1. ASSUME NEW f \in Files, Replaced(f) \/ Deleted(f) \/ Edited(f)
          PROVE  relinked \subseteq relinked'
      BY <2>1 DEF Replaced, Deleted, Edited
    <2>2. QED
      BY PlanFixed, <2>1
        DEF Next, vars, Stage, StageFails, HashSource, CheckAbsence, MoveSource, NoSource,
            RecheckBackup, Publish, NothingToPublish, Confirm, ForwardFails,
            NothingToRemove, InspectTarget, RemoveTarget, RestoreSource, NothingToRestore,
            ConfirmRestore, DropBackup, RestoreFails, Unstage, CleanUp, Done
  <1>b. /\ Counts /\ CreatedOK /\ AsPlanned /\ AllOrNothing /\ PositionOK
        /\ at \notin Undoing \cup {"done"} => error = "none" /\ ~unrecovered
    BY DEF KeptInv, WorkInv, EffectInv, ArtifactsInv, TypeOK
  <1>c. \A f \in Files : Before(ops, f)' = Before(ops, f)
    BY <1>a DEF Before
  <1>d. /\ Len(ops) \in Nat \ {0} /\ Indices = 1 .. Len(ops) /\ Absent \notin Files
        /\ created \subseteq Indices
    BY Setting, PatchAssumption
  <1>e. \A j \in Indices : ops[j].target \in Files => HasContent(j)
    BY <1>d, PatchAssumption DEF TypeOK, DirectoryOK, WellFormed, HasContent
  <1>1. CASE Unstage
    <2>1. /\ at = "undoing" /\ i = 0 /\ UNCHANGED << file, relinked >>
          /\ outcome' \in {"failed", "leftovers", "incomplete"}
          /\ outcome' \in {"failed", "leftovers"} => ~unrecovered
      BY <1>1, <1>b DEF Unstage, FailureOutcome, PositionOK, Undoing
    <2>2. ASSUME NEW f \in Files \ relinked, ~unrecovered
          PROVE  file[f] = Before(ops, f)
      <3>1. \A j \in Indices : ~Published(j) /\ ~Moved(j)
        BY <2>1, <1>d DEF Published, Moved
      <3>2. /\ \A j \in Indices : ops[j].source = f => file[f] = Original(f)
            /\ (\A j \in Indices : ops[j].source # f) => file[f] = Absent
        BY <2>1, <2>2, <3>1, <1>b DEF AsPlanned
      <3>3. QED
        BY <3>2, <1>d DEF Before
    <2>3. QED
      BY <2>1, <2>2, <1>c DEF AllOrNothing
  <1>2. CASE CleanUp
    <2>1. /\ at = "cleaning" /\ UNCHANGED << file, relinked >>
          /\ outcome' \in {"ok", "warned"} /\ ~unrecovered
      BY <1>2, <1>b DEF CleanUp, Undoing
    <2>2. ASSUME NEW f \in Files \ relinked
          PROVE  \/ \E j \in Indices : ops[j].target = f /\ file[f] = Staged(j)
                 \/ (\A j \in Indices : ops[j].target # f) /\ file[f] = Absent
      <3>1. /\ \A j \in Indices : HasContent(j) => Published(j)
            /\ \A j \in Indices : HasSource(j) => Moved(j)
        BY <2>1, <1>b, <1>d DEF Published, Moved, CreatedOK
      <3>2. CASE \E j \in Indices : ops[j].target = f
        BY <2>1, <2>2, <3>1, <3>2, <1>b, <1>e DEF AsPlanned
      <3>3. CASE \A j \in Indices : ops[j].target # f
        <4>1. \A j \in Indices : ops[j].source = f => Moved(j)
          BY <3>1, <2>2, <1>d DEF HasSource
        <4>2. QED
          BY <4>1, <2>1, <2>2, <3>3, <1>b DEF AsPlanned
      <3>4. QED
        BY <3>2, <3>3
    <2>3. QED
      BY <2>1, <2>2, <1>a DEF AllOrNothing
  <1>3. CASE Done \/ UNCHANGED vars
    BY <1>3, <1>a, <1>b, <1>c DEF Done, vars, AllOrNothing
  <1>4. CASE ~(Unstage \/ CleanUp \/ Done \/ UNCHANGED vars)
    <2>1. outcome' = outcome /\ at # "done"
      <3>1. ASSUME NEW f \in Files, Replaced(f) \/ Deleted(f) \/ Edited(f)
            PROVE  outcome' = outcome /\ at # "done"
        BY <3>1 DEF Replaced, Deleted, Edited, Touch
      <3>2. QED
        BY <1>4, <3>1
          DEF Next, Stage, StageFails, HashSource, CheckAbsence, MoveSource, NoSource,
              RecheckBackup, Publish, NothingToPublish, Confirm, ForwardFails, Refused,
              Interrupted, NothingToRemove, InspectTarget, RemoveTarget, RestoreSource,
              NothingToRestore, ConfirmRestore, DropBackup, RestoreFails
    <2>2. QED
      BY <2>1, <1>b DEF Counts, AllOrNothing
  <1>5. QED
    BY <1>1, <1>2, <1>3, <1>4


(* Where the transaction begins nothing is created, moved or touched.        *)
LEMMA WorkInit == Init => WorkInv
  <1> SUFFICES ASSUME Init PROVE WorkInv
    OBVIOUS
  <1>1. /\ Len(ops) \in Nat \ {0} /\ Indices = 1 .. Len(ops)
        /\ at = "staging" /\ i = 1 /\ committed = 0 /\ created = {} /\ made = {}
        /\ file = [f \in Files |-> Before(ops, f)]
        /\ \A j \in Indices : backup[j] = Absent /\ targetIdentity[j] = NoIdentity
        /\ \A x \in Inodes : version[x] = 0
    BY PlanFacts DEF Init
  <1>2. \A f \in Files : file[f] \in {Absent, Original(f)}
    BY <1>1 DEF Before
  <1>3. CreatedOK /\ Confirmed /\ Dropped /\ WorkKept
    BY <1>1 DEF CreatedOK, Confirmed, Dropped, WorkKept
  <1>4. Indices \subseteq Nat /\ 1 .. MaxTouches \subseteq Nat
    BY <1>1, Bounds
  <1>5. Names
    BY <1>1, <1>2, <1>4, InodesApart DEF Names
  <1>6. Apart
    BY <1>1, <1>2, InodesApart DEF Apart
  <1>7. QED
    BY <1>3, <1>5, <1>6 DEF WorkInv

LEMMA EffectInit == Init => EffectInv
  <1> SUFFICES ASSUME Init PROVE EffectInv
    OBVIOUS
  <1>1. /\ Len(ops) \in Nat \ {0} /\ Indices = 1 .. Len(ops)
        /\ at = "staging" /\ committed = 0 /\ created = {} /\ outcome = "pending"
        /\ file = [f \in Files |-> Before(ops, f)]
    BY PlanFacts DEF Init
  <1>2. \A j \in Indices : ~Published(j) /\ ~Moved(j)
    BY <1>1 DEF Published, Moved
  <1>3. QED
    BY <1>1, <1>2 DEF EffectInv, BackedUp, AsPlanned, AllOrNothing, Before

(* The inductive invariant of the other three properties.                    *)
LEMMA FullInvariance == Spec => [](TypeOK /\ KeptInv /\ ArtifactsInv /\ WorkInv /\ EffectInv)
  <1>1. Init => TypeOK /\ KeptInv /\ ArtifactsInv /\ WorkInv /\ EffectInv
    BY TypeInit, KeptInit, ArtifactsInit, WorkInit, EffectInit
  <1>2. TypeOK /\ KeptInv /\ ArtifactsInv /\ WorkInv /\ EffectInv /\ [Next]_vars =>
            (TypeOK /\ KeptInv /\ ArtifactsInv)'
    BY TypeStep, CountsStep, KeptStep, ArtifactsStep DEF KeptInv
  <1>3. TypeOK /\ KeptInv /\ ArtifactsInv /\ WorkInv /\ EffectInv /\ [Next]_vars => WorkInv'
    BY CreatedStep, NamesStep, ApartStep, ConfirmedStep, DroppedStep, WorkStep
      DEF WorkInv
  <1>4. TypeOK /\ KeptInv /\ ArtifactsInv /\ WorkInv /\ EffectInv /\ [Next]_vars => EffectInv'
    BY BackedUpStep, AsPlannedStep, AllOrNothingStep DEF EffectInv
  <1>5. QED
    BY <1>1, <1>2, <1>3, <1>4, PTL DEF Spec

-----------------------------------------------------------------------------
(* The transaction and its directory keep their types.                       *)
THEOREM TypeCorrect == Spec => []TypeOK
  BY Invariance, PTL

(* Wherever the process dies and whatever fails, a file the patch replaces,  *)
(* moves or deletes still has a name until the whole patch is committed.     *)
THEOREM NoOriginalLost == Spec => []OriginalsKept
  <1>1. TypeOK /\ KeptInv => OriginalsKept
    <2> SUFFICES ASSUME TypeOK, KeptInv, NEW j \in Indices, HasSource(j),
                        outcome \notin {"ok", "warned"}
                 PROVE  \/ Reachable(Original(ops[j].source))
                        \/ Original(ops[j].source) \in discarded
      BY DEF OriginalsKept
    <2>1. ops[j].source \in Files
      BY PlanFacts DEF TypeOK, DirectoryOK
    <2>2. Kept(j)
      BY DEF KeptInv, FilesKept, AllKept
    <2>3. QED
      BY <2>1, <2>2 DEF Kept, SourceOf, Reachable
  <1>2. QED
    BY <1>1, Invariance, PTL

(* A temporary file or a backup that stays behind is reported, whatever      *)
(* fails.                                                                    *)
THEOREM LeftoversReported == Spec => []ArtifactsReported
  <1>1. ArtifactsInv => ArtifactsReported
    BY DEF ArtifactsInv
  <1>2. QED
    BY <1>1, FullInvariance, PTL

(* What another program made or edited in a workspace file keeps a name,     *)
(* through the commit, the rollback and the cleanup, but for the two windows *)
(* the code leaves open.                                                     *)
THEOREM OthersKept == Spec => []ForeignWorkKept
  <1>1. WorkInv => ForeignWorkKept
    <2> SUFFICES ASSUME WorkInv, NEW x \in Inodes, x \in made \/ version[x] > 0
                 PROVE  Reachable(x) \/ x \in discarded \/ x \in raced
      BY DEF ForeignWorkKept
    <2>1. QED
      BY DEF WorkInv, WorkKept, Reachable
  <1>2. QED
    BY <1>1, FullInvariance, PTL

(* A call that fails without reporting an incomplete recovery has restored   *)
(* every file nobody else touched, and one that succeeds has made every      *)
(* change.                                                                   *)
THEOREM Atomic == Spec => []AllOrNothing
  <1>1. EffectInv => AllOrNothing
    BY DEF EffectInv
  <1>2. QED
    BY <1>1, FullInvariance, PTL
=============================================================================
