---------------------- MODULE AuthorityRevocationsProofs ----------------------
(* What the revocation queue keeps to, whatever is lost, refused or answered *)
(* late, for any number of families, clients and versions.                   *)
(*                                                                           *)
(* The argument follows one record.  It only covers authorities that ended   *)
(* and stay so (Sound).  By the time it leaves the Worker the calls of those *)
(* have left the registry (Heard), and on the FIFO channel nothing of theirs *)
(* comes after it (SentOK); when the daemon has applied it completely they   *)
(* are idle (AppliedOK), which is what its acknowledgement then says of the  *)
(* one record of that id (AnsweredOK).                                       *)
(*                                                                           *)
(* Soundness needs the queue to have room: a full queue gives place to one   *)
(* record for the account's whole version, which covers authorities that     *)
(* still hold.                                                               *)
EXTENDS AuthorityRevocations, FiniteSetTheorems, SequenceTheorems, TLAPS

Room == Cardinality(queue) < MaxRevocations

(* Records the Worker or the daemon still has. *)
Sending == {down[i].about : i \in {j \in DOMAIN down : down[j].type = "revoke"}}
Known == queue \cup flush \cup probed \cup {a.rec : a \in applying} \cup Sending

Covered(r) == {f \in Families : Covers(r, Scope(f))}

Sound(r) ==
    \/ r.client = None /\ r.ver < version
    \/ r.client \in removed
    \/ r.client # None /\ r.family \in revoked
Heard(r)   == Covered(r) \cap pending = {}
Stopped(r) == \A f \in Covered(r) : ~Running(f)

FiniteOK == IsFiniteSet(queue) /\ IsFiniteSet(flush) /\ IsFiniteSet(probed)

(* Families are granted once, under a version the account has had. *)
GrantsOK ==
    /\ \A f \in Families : grant[f] <= version
    /\ \A f \in revoked : grant[f] # 0

(* Every record covers what has ended, and an id names one record. *)
RecordsOK ==
    \A x \in Known : /\ Sound(x) /\ x.id < nextId
                     /\ \A r \in queue : r.id = x.id => r = x

(* What the Worker has sent, or is about to send, it has acted upon. *)
SentOK ==
    /\ \A r \in queue \ flush : Heard(r)
    /\ \A r \in probed : Heard(r)
    /\ \A i \in DOMAIN down : down[i].type = "revoke" =>
          /\ Heard(down[i].about)
          /\ \A f \in Covered(down[i].about) :
                \A j \in DOMAIN down : j > i => down[j] # Message("call", f)

(* Nothing is stopped but what has ended: OnlyRevokedStopped, and also of a   *)
(* family that is yet to be authorized.                                      *)
StoppedOK ==
    \A f \in Families :
        call[f] = "cancelled" \/ session[f] = "ending" \/ work[f] = "cancelled" => Ended(f)

AppliedOK == \A a \in applying : a.complete => Stopped(a.rec)

AnsweredOK ==
    \A i \in DOMAIN up : /\ up[i] < nextId
                         /\ \A r \in queue : r.id = up[i] => Stopped(r)

IInv == /\ TypeOK /\ FiniteOK /\ GrantsOK /\ RecordsOK /\ SentOK /\ AppliedOK /\ AnsweredOK
        /\ StoppedOK /\ RevokedWorkStaysQueued

-----------------------------------------------------------------------------
(* Sequences. *)

LEMMA TailFacts ==
    ASSUME NEW M, NEW q \in Seq(M), q # <<>>
    PROVE  /\ Head(q) \in M /\ Tail(q) \in Seq(M) /\ Head(q) = q[1] /\ 1 \in DOMAIN q
           /\ \A i \in DOMAIN Tail(q) : i \in Nat /\ i + 1 \in DOMAIN q /\ Tail(q)[i] = q[i + 1]
<1>1. /\ Head(q) \in M /\ Tail(q) \in Seq(M)
      /\ Len(Tail(q)) = Len(q) - 1 /\ \A i \in 1 .. Len(Tail(q)) : Tail(q)[i] = q[i + 1]
  BY HeadTailProperties
<1>2. /\ Len(q) \in Nat \ {0} /\ DOMAIN q = 1 .. Len(q) /\ DOMAIN Tail(q) = 1 .. Len(Tail(q))
  BY <1>1, LenProperties, EmptySeq
<1>3. Head(q) = q[1]
  BY <1>2
<1> QED BY <1>1, <1>2, <1>3

LEMMA ConcatFacts ==
    ASSUME NEW M, NEW q \in Seq(M), NEW r \in Seq(M)
    PROVE  /\ q \o r \in Seq(M) /\ DOMAIN q \subseteq Nat
           /\ \A i \in DOMAIN q : i \in DOMAIN (q \o r) /\ (q \o r)[i] = q[i]
           /\ \A i \in DOMAIN (q \o r) :
                 \/ i \in DOMAIN q /\ (q \o r)[i] = q[i]
                 \/ i \notin DOMAIN q /\ \E j \in DOMAIN r : (q \o r)[i] = r[j]
           /\ \A i, j \in DOMAIN (q \o r) : i \notin DOMAIN q /\ j > i => j \notin DOMAIN q
<1>1. /\ q \o r \in Seq(M) /\ Len(q \o r) = Len(q) + Len(r)
      /\ \A i \in 1 .. Len(q) + Len(r) :
            (q \o r)[i] = IF i <= Len(q) THEN q[i] ELSE r[i - Len(q)]
  BY ConcatProperties
<1>2. /\ Len(q) \in Nat /\ Len(r) \in Nat
      /\ DOMAIN q = 1 .. Len(q) /\ DOMAIN r = 1 .. Len(r)
      /\ DOMAIN (q \o r) = 1 .. Len(q) + Len(r)
  BY <1>1, LenProperties
<1>3. ASSUME NEW i \in DOMAIN (q \o r)
      PROVE  \/ i \in DOMAIN q /\ (q \o r)[i] = q[i]
             \/ i \notin DOMAIN q /\ \E j \in DOMAIN r : (q \o r)[i] = r[j]
  <2>1. CASE i <= Len(q)
    BY <1>1, <1>2, <2>1
  <2>2. CASE i > Len(q)
    <3>1. i - Len(q) \in DOMAIN r /\ (q \o r)[i] = r[i - Len(q)] /\ i \notin DOMAIN q
      BY <1>1, <1>2, <2>2
    <3> QED BY <3>1
  <2> QED BY <1>2, <2>1, <2>2
<1> QED BY <1>1, <1>2, <1>3

LEMMA AppendFacts ==
    ASSUME NEW M, NEW q \in Seq(M), NEW e \in M
    PROVE  /\ Append(q, e) \in Seq(M) /\ DOMAIN q \subseteq Nat
           /\ \A i \in DOMAIN q : i \in DOMAIN Append(q, e) /\ Append(q, e)[i] = q[i]
           /\ \A i \in DOMAIN Append(q, e) :
                 \/ i \in DOMAIN q /\ Append(q, e)[i] = q[i]
                 \/ /\ i \notin DOMAIN q /\ Append(q, e)[i] = e
                    /\ \A j \in DOMAIN Append(q, e) : ~(j > i)
<1>1. /\ Append(q, e) \in Seq(M) /\ Len(Append(q, e)) = Len(q) + 1
      /\ \A i \in 1 .. Len(q) : Append(q, e)[i] = q[i]
      /\ Append(q, e)[Len(q) + 1] = e
  BY AppendProperties
<1>2. /\ Len(q) \in Nat /\ DOMAIN q = 1 .. Len(q) /\ DOMAIN Append(q, e) = 1 .. Len(q) + 1
  BY <1>1, LenProperties
<1> QED BY <1>1, <1>2

LEMMA WireFacts ==
    ASSUME NEW S \in SUBSET Records, IsFiniteSet(S), NEW order \in InOrder(S)
    PROVE  /\ Wire(order) \in Seq(Messages)
           /\ \A i \in DOMAIN Wire(order) :
                 Wire(order)[i].type = "revoke" /\ Wire(order)[i].about \in S
<1>1. Cardinality(S) \in Nat /\ order \in [1 .. Cardinality(S) -> S]
  BY FS_CardinalityType DEF InOrder
<1>2. \A r \in Records : Message("revoke", r) \in Messages
  BY DEF Message, Messages
<1>3. Wire(order) \in [1 .. Cardinality(S) -> Messages]
  BY <1>1, <1>2 DEF Wire
<1>4. Wire(order) \in Seq(Messages)
  BY <1>1, <1>3, SeqDef
<1>5. \A i \in DOMAIN Wire(order) :
         Wire(order)[i].type = "revoke" /\ Wire(order)[i].about \in S
  BY <1>1 DEF Wire, Message
<1> QED BY <1>4, <1>5

LEMMA MessageFacts ==
    /\ \A f \in Families : /\ Message("call", f) \in Messages
                           /\ Message("call", f).type = "call" /\ Message("call", f).about = f
    /\ \A m \in Messages : /\ m.type = "call" => m.about \in Families /\ m = Message("call", m.about)
                           /\ m.type = "revoke" => m.about \in Records
                           /\ m.type \in {"call", "revoke"}
BY DEF Message, Messages

-----------------------------------------------------------------------------
(* Covering. *)

LEMMA CoversFacts ==
    ASSUME NEW a \in Records, NEW b \in Records, NEW f \in Families
    PROVE  /\ Covers(a, b) /\ Covers(b, Scope(f)) => Covers(a, Scope(f))
           /\ Covers(a, a)
BY DEF Covers, Records, Scope

LEMMA SoundCovers ==
    ASSUME RevocationAssumption, TypeOK, GrantsOK, NEW r \in Records, Sound(r), NEW f \in Covered(r)
    PROVE  Ended(f)
<1>1. /\ f \in Families /\ grant[f] = r.ver /\ grant[f] # 0 /\ ClientOf[f] \in Clients
      /\ r.client = None \/ (r.client = ClientOf[f] /\ r.family \in {None, f})
  BY RevocationAssumption DEF Covered, Covers, Scope, Records
<1>2. /\ None \notin removed /\ None \notin revoked
      /\ version \in Nat /\ grant[f] \in Nat
  BY <1>1, RevocationAssumption DEF TypeOK
<1>3. ~Current(f)
  BY <1>1, <1>2 DEF Sound, Current
<1> QED BY <1>1, <1>3 DEF Ended

-----------------------------------------------------------------------------
(* Types. *)

(* The queue after a record is put in, while there is room for it. *)
LEMMA CommitEffect ==
    ASSUME TypeOK, IsFiniteSet(queue), NEW v \in 1 .. MaxVersions, NEW c \in Clients \cup {None},
           NEW f \in Families \cup {None}, Commit(v, c, f)
    PROVE  LET r == [id |-> nextId, ver |-> v, client |-> c, family |-> f]
           IN  /\ r \in Records /\ flush = {} /\ flush' = queue' /\ nextId' = nextId + 1
               /\ UNCHANGED <<pending, channel, daemon, bounds>>
               /\ Cardinality(queue') <= MaxRevocations /\ queue' \subseteq Records
               /\ IsFiniteSet(queue')
               /\ Room => /\ queue' \subseteq queue \cup {r}
                          /\ \E x \in queue' : Covers(x, r)
                          /\ \A x \in queue : x \notin queue' => r \in queue' /\ Covers(r, x)
<1> DEFINE r == [id |-> nextId, ver |-> v, client |-> c, family |-> f]
           kept == {x \in queue : ~Covers(r, x)}
           account == [r EXCEPT !.client = None, !.family = None]
           next == Merge(queue, r)
<1>1. /\ Cardinality(next) <= MaxRevocations /\ flush = {} /\ queue' = next /\ flush' = next
      /\ nextId' = nextId + 1 /\ UNCHANGED <<pending, channel, daemon, bounds>>
  BY DEF Commit
<1>2. r \in Records /\ account \in Records
  BY DEF TypeOK, Records
<1>3. IsFiniteSet(kept) /\ Cardinality(kept) \in Nat /\ Cardinality(queue) \in Nat
      /\ Cardinality(kept) <= Cardinality(queue)
  <2>1. kept \subseteq queue
    OBVIOUS
  <2> QED BY <2>1, FS_Subset, FS_CardinalityType
<1>4. \/ next = queue /\ \E x \in queue : Covers(x, r)
      \/ next = kept \cup {r} /\ Cardinality(kept) < MaxRevocations
      \/ next = {x \in kept : x.ver # r.ver} \cup {account} /\ ~(Cardinality(kept) < MaxRevocations)
  BY DEF Merge
<1>5. queue \subseteq Records
  BY DEF TypeOK
<1>6. IsFiniteSet(kept \cup {r}) /\ IsFiniteSet({x \in kept : x.ver # r.ver} \cup {account})
  <2>1. IsFiniteSet({x \in kept : x.ver # r.ver})
    BY <1>3, FS_Subset
  <2> QED BY <1>3, <2>1, FS_AddElement
<1>7. next \subseteq Records /\ IsFiniteSet(next)
  BY <1>2, <1>4, <1>5, <1>6
<1>8. ASSUME Room
      PROVE  /\ next \subseteq queue \cup {r}
             /\ \E x \in next : Covers(x, r)
             /\ \A x \in queue : x \notin next => r \in next /\ Covers(r, x)
  <2>1. Cardinality(kept) < MaxRevocations
    BY <1>3, <1>8, RevocationAssumption DEF Room
  <2>2. Covers(r, r)
    BY DEF Covers
  <2>3. CASE next = queue /\ \E x \in queue : Covers(x, r)
    BY <2>3
  <2>4. CASE next = kept \cup {r}
    BY <2>2, <2>4
  <2> QED BY <1>4, <2>1, <2>3, <2>4
<1> HIDE DEF next
<1> QED BY <1>1, <1>2, <1>7, <1>8

LEMMA PairFinite ==
    ASSUME NEW a, NEW b
    PROVE  IsFiniteSet({a, b})
<1>1. IsFiniteSet({a})
  BY FS_Singleton
<1>2. IsFiniteSet({a} \cup {b})
  BY <1>1, FS_AddElement
<1>3. {a} \cup {b} = {a, b}
  OBVIOUS
<1> QED BY <1>2, <1>3

LEMMA KindsFinite ==
    ASSUME IsFiniteSet(Families)
    PROVE  IsFiniteSet({"session", "job"} \X Families)
<1>1. IsFiniteSet({"session", "job"})
  BY PairFinite
<1> QED BY <1>1, FS_Product

LEMMA TypeStep ==
    ASSUME TypeOK, FiniteOK, Next
    PROVE  TypeOK'
<1> USE RevocationAssumption DEF authorities, worker, channel, daemon, bounds, FiniteOK
<1>0. /\ version \in 1 .. MaxVersions /\ grant \in [Families -> 0 .. MaxVersions]
      /\ down \in Seq(Messages) /\ up \in Seq(Nat \ {0}) /\ flush \subseteq Records /\ probed \subseteq Records
      /\ queue \subseteq Records /\ applying \subseteq [rec : Records, complete : BOOLEAN]
      /\ nextId \in Nat \ {0} /\ Cardinality(queue) <= MaxRevocations
  BY DEF TypeOK
<1>n. <<>> \in Seq(Messages) /\ <<>> \in Seq(Nat \ {0})
  OBVIOUS
<1>t. ASSUME down # <<>> PROVE Tail(down) \in Seq(Messages) /\ Head(down) \in Messages
  BY <1>0, <1>t, TailFacts
<1>q. ASSUME NEW v \in 1 .. MaxVersions, NEW c \in Clients \cup {None}, NEW f \in Families \cup {None},
             Commit(v, c, f), version' \in 1 .. MaxVersions, grant' = grant,
             removed' \subseteq Clients, revoked' \subseteq Families
      PROVE  TypeOK'
  <2>1. /\ flush' = queue' /\ nextId' = nextId + 1 /\ queue' \subseteq Records
        /\ Cardinality(queue') <= MaxRevocations
        /\ UNCHANGED <<pending, channel, daemon, bounds>>
    BY <1>q, CommitEffect
  <2> QED BY <1>0, <1>q, <2>1 DEF TypeOK
<1>1. CASE EndVersion
  <2>1. /\ Commit(version, None, None) /\ version < MaxVersions /\ version' = version + 1
        /\ UNCHANGED <<grant, removed, revoked>>
    BY <1>1 DEF EndVersion
  <2>2. version' \in 1 .. MaxVersions /\ removed' \subseteq Clients /\ revoked' \subseteq Families
    BY <1>0, <2>1 DEF TypeOK
  <2>3. None \in Clients \cup {None} /\ None \in Families \cup {None}
    OBVIOUS
  <2> QED BY <1>0, <1>q, <2>1, <2>2, <2>3
<1>2. ASSUME NEW c \in Clients, RemoveClient(c) PROVE TypeOK'
  <2>1. PICK v \in Trusted(c) : Commit(v, c, None)
    BY <1>2 DEF RemoveClient
  <2>2. v \in 1 .. MaxVersions
    BY <1>0 DEF Trusted
  <2>3. /\ version' = version /\ grant' = grant /\ revoked' = revoked /\ removed' = removed \cup {c}
    BY <1>2 DEF RemoveClient
  <2> QED BY <1>q, <2>1, <2>2, <2>3 DEF TypeOK
<1>3. ASSUME NEW f \in Families, RevokeFamily(f) PROVE TypeOK'
  <2>1. grant[f] \in 1 .. MaxVersions /\ ClientOf[f] \in Clients
    BY <1>0, <1>3 DEF RevokeFamily
  <2>2. /\ Commit(grant[f], ClientOf[f], f)
        /\ version' = version /\ grant' = grant /\ removed' = removed /\ revoked' = revoked \cup {f}
    BY <1>3 DEF RevokeFamily
  <2> QED BY <1>q, <2>1, <2>2 DEF TypeOK
<1>4. ASSUME NEW f \in Families, Authorize(f) PROVE TypeOK'
  BY <1>4 DEF Authorize, TypeOK
<1>5. CASE Flush
  <2>1. down' \in Seq(Messages)
    <3>1. CASE conn = "ready"
      <4>1. PICK order \in InOrder(flush) : down' = down \o Wire(order)
        BY <1>5, <3>1 DEF Flush
      <4>2. Wire(order) \in Seq(Messages)
        BY <1>0, WireFacts
      <4> QED BY <1>0, <4>1, <4>2, ConcatFacts
    <3>2. CASE conn # "ready"
      BY <1>0, <1>5, <3>2 DEF Flush
    <3> QED BY <3>1, <3>2
  <2>2. /\ flush' = {} /\ pending' \subseteq pending
        /\ UNCHANGED <<authorities, queue, nextId, conn, probed, up, daemon, bounds>>
    BY <1>5 DEF Flush
  <2> QED BY <2>1, <2>2 DEF TypeOK
<1>6. CASE Alarm
  BY <1>6 DEF Alarm, Unacknowledged, TypeOK
<1>7. CASE Probe
  BY <1>7 DEF Probe, TypeOK
<1>8. CASE Promote
  <2>1. PICK order \in InOrder(probed) : down' = Wire(order)
    BY <1>8 DEF Promote
  <2>2. Wire(order) \in Seq(Messages)
    BY <1>0, WireFacts
  <2>3. /\ conn' = "ready" /\ probed' = {} /\ UNCHANGED <<authorities, worker, up, daemon, bounds>>
    BY <1>8 DEF Promote
  <2> QED BY <2>1, <2>2, <2>3 DEF TypeOK
<1>9. CASE Drop
  BY <1>9, <1>n DEF Drop, Lose, TypeOK
<1>10. ASSUME NEW f \in Families, Dispatch(f) \/ Redeliver(f) PROVE TypeOK'
  <2>1. down' \in Seq(Messages)
    <3>1. down' = Append(down, Message("call", f))
      BY <1>10 DEF Dispatch, Redeliver
    <3>2. Message("call", f) \in Messages
      BY MessageFacts
    <3> QED BY <1>0, <3>1, <3>2, AppendFacts
  <2>2. CASE Dispatch(f)
    BY <2>1, <2>2 DEF Dispatch, TypeOK
  <2>3. CASE Redeliver(f)
    BY <2>1, <2>3 DEF Redeliver, TypeOK
  <2> QED BY <1>10, <2>2, <2>3
<1>11. CASE Acknowledge
  <2>1. up' \in Seq(Nat \ {0})
    BY <1>0, <1>11, TailFacts DEF Acknowledge
  <2>2. /\ queue' \subseteq queue
        /\ UNCHANGED <<authorities, nextId, flush, pending, conn, probed, down, daemon, bounds>>
    BY <1>11 DEF Acknowledge
  <2>3. Cardinality(queue') <= MaxRevocations
    <3>1. IsFiniteSet(queue') /\ Cardinality(queue') <= Cardinality(queue)
      BY <2>2, FS_Subset
    <3>2. Cardinality(queue') \in Nat /\ Cardinality(queue) \in Nat
      BY <3>1, FS_CardinalityType
    <3> QED BY <1>0, <3>1, <3>2
  <2> QED BY <1>0, <2>1, <2>2, <2>3 DEF TypeOK
<1>12. CASE ReceiveCall
  BY <1>12, <1>t, MessageFacts DEF ReceiveCall, TypeOK
<1>13. CASE Apply
  <2>1. /\ down' = Tail(down) /\ down # <<>> /\ Head(down).type = "revoke"
        /\ UNCHANGED <<authorities, worker, conn, probed, up, calls>>
    BY <1>13 DEF Apply
  <2> DEFINE matching == {f \in Families : Covers(Head(down).about, Scope(f))}
  <2>2. PICK failed \in SUBSET {<<kind, f>> : kind \in {"session", "job"}, f \in matching} :
           /\ applying' = applying \cup {[rec |-> Head(down).about, complete |-> Complete(failed)]}
           /\ faults' = faults + Cardinality(failed) /\ faults + Cardinality(failed) <= MaxFaults
           /\ call' = [f \in Families |-> IF f \in matching /\ call[f] = "run"
                                          THEN "cancelled" ELSE call[f]]
           /\ session' = [f \in Families |->
                 IF f \in matching /\ session[f] = "run" /\ <<"session", f>> \notin failed
                 THEN "ending" ELSE session[f]]
           /\ work' = [f \in Families |->
                 IF f \in matching /\ work[f] = "run" /\ <<"job", f>> \notin failed
                 THEN "cancelled" ELSE work[f]]
    BY <1>13 DEF Apply
  <2>3. faults' \in 0 .. MaxFaults
    <3>2. IsFiniteSet({"session", "job"} \X Families)
      BY KindsFinite
    <3>3. failed \in SUBSET ({"session", "job"} \X Families)
      OBVIOUS
    <3>4. Cardinality(failed) \in Nat
      BY <3>2, <3>3, FS_Subset, FS_CardinalityType
    <3> QED BY <2>2, <3>4 DEF TypeOK
  <2>4. applying' \subseteq [rec : Records, complete : BOOLEAN]
    <3>1. Head(down).about \in Records
      BY <1>t, <2>1, MessageFacts
    <3>2. [rec |-> Head(down).about, complete |-> Complete(failed)] \in [rec : Records, complete : BOOLEAN]
      BY <3>1 DEF Complete
    <3>3. applying' = applying \cup {[rec |-> Head(down).about, complete |-> Complete(failed)]}
      BY <2>2
    <3> QED BY <1>0, <3>2, <3>3
  <2>5. call' \in [Families -> {"none", "run", "cancelled"}]
    BY <2>2 DEF TypeOK
  <2>6. session' \in [Families -> {"none", "run", "ending"}]
    BY <2>2 DEF TypeOK
  <2>7. work' \in [Families -> {"none", "run", "cancelled"}]
    BY <2>2 DEF TypeOK
  <2> QED BY <1>0, <1>t, <2>1, <2>3, <2>4, <2>5, <2>6, <2>7 DEF TypeOK
<1>14. CASE Applied
  <2>1. PICK a \in applying : up' = Append(up, a.rec.id) /\ applying' = applying \ {a}
    BY <1>14 DEF Applied
  <2>2. a.rec.id \in Nat \ {0}
    BY <1>0, <2>1 DEF Records
  <2>3. up' \in Seq(Nat \ {0})
    BY <1>0, <2>1, <2>2, AppendFacts
  <2>4. UNCHANGED <<authorities, worker, conn, probed, down, call, session, work, bounds>>
    BY <1>14 DEF Applied
  <2> QED BY <2>1, <2>3, <2>4 DEF TypeOK
<1>15. CASE Interrupt
  BY <1>15, <1>n DEF Interrupt, Lose, TypeOK
<1>16. ASSUME NEW f \in Families, StartSession(f) \/ StartJob(f) \/ EndCall(f) \/ EndSession(f) PROVE TypeOK'
  BY <1>16 DEF StartSession, StartJob, EndCall, EndSession, TypeOK
<1> QED
  BY <1>1, <1>2, <1>3, <1>4, <1>5, <1>6, <1>7, <1>8, <1>9, <1>10, <1>11, <1>12, <1>13, <1>14, <1>15, <1>16
     DEF Next, Traffic, Local

-----------------------------------------------------------------------------
(* Steps. *)

(* What any step may do to the authorities. *)
AuthorityStep ==
    /\ version <= version' /\ removed \subseteq removed' /\ revoked \subseteq revoked'
    /\ version' \in Nat
    /\ \A f \in Families :
          \/ grant'[f] = grant[f]
          \/ /\ grant[f] = 0 /\ grant'[f] = version /\ version' = version
             /\ ClientOf[f] \notin removed /\ removed' = removed /\ revoked' = revoked

(* The end of an authority, told to the daemon by the record r. *)
EndStep(r) ==
    /\ r \in Records /\ r.id = nextId /\ Sound(r)'
    /\ flush = {} /\ flush' = queue' /\ nextId' = nextId + 1 /\ grant' = grant
    /\ UNCHANGED <<pending, channel, daemon, bounds>>
    /\ IsFiniteSet(queue') /\ queue' \subseteq queue \cup {r}
    /\ \A x \in queue : x \notin queue' => r \in queue' /\ Covers(r, x)
    /\ \A f \in Families : Ended(f)' /\ ~Ended(f) => \E x \in queue' : Covers(x, Scope(f))

(* Any other step. *)
OtherStep ==
    /\ nextId' = nextId /\ UNCHANGED <<version, removed, revoked>>
    /\ \/ grant' = grant
       \/ /\ \E f \in Families : Authorize(f)
          /\ UNCHANGED <<worker, channel, daemon, bounds>>
    /\ \/ UNCHANGED queue
       \/ Acknowledge

Ends == EndVersion \/ (\E c \in Clients : RemoveClient(c)) \/ (\E f \in Families : RevokeFamily(f))

LEMMA AuthoritySteps ==
    ASSUME TypeOK, Next
    PROVE  AuthorityStep
<1> USE DEF authorities, worker, channel, daemon, bounds
<1>0. version \in Nat /\ grant \in [Families -> 0 .. MaxVersions]
  BY RevocationAssumption DEF TypeOK
<1>1. CASE EndVersion
  BY <1>0, <1>1 DEF EndVersion, AuthorityStep
<1>2. ASSUME NEW c \in Clients, RemoveClient(c) PROVE AuthorityStep
  BY <1>0, <1>2 DEF RemoveClient, AuthorityStep
<1>3. ASSUME NEW f \in Families, RevokeFamily(f) PROVE AuthorityStep
  BY <1>0, <1>3 DEF RevokeFamily, AuthorityStep
<1>4. ASSUME NEW f \in Families, Authorize(f) PROVE AuthorityStep
  BY <1>0, <1>4 DEF Authorize, AuthorityStep
<1>5. ASSUME UNCHANGED authorities PROVE AuthorityStep
  BY <1>0, <1>5 DEF AuthorityStep
<1>6. ASSUME Traffic \/ Local \/ Drop PROVE UNCHANGED authorities
  BY <1>6 DEF Traffic, Local, Drop, Flush, Alarm, Probe, Promote, Acknowledge,
              ReceiveCall, Apply, Applied, Interrupt
<1>7. ASSUME NEW f \in Families,
             \/ Dispatch(f) \/ Redeliver(f) \/ StartSession(f) \/ StartJob(f)
             \/ EndCall(f) \/ EndSession(f)
      PROVE  UNCHANGED authorities
  BY <1>7 DEF Dispatch, Redeliver, StartSession, StartJob, EndCall, EndSession
<1> HIDE DEF authorities
<1> QED BY <1>1, <1>2, <1>3, <1>4, <1>5, <1>6, <1>7 DEF Next

LEMMA OtherSteps ==
    ASSUME Next, ~Ends
    PROVE  OtherStep
<1> USE DEF authorities, worker, channel, daemon, bounds
<1>1. ASSUME NEW f \in Families, Authorize(f) PROVE OtherStep
  BY <1>1 DEF Authorize, OtherStep
<1>2. ASSUME UNCHANGED authorities, UNCHANGED <<queue, nextId>> PROVE OtherStep
  BY <1>2 DEF OtherStep
<1>3. CASE Acknowledge
  BY <1>3 DEF Acknowledge, OtherStep
<1>4. ASSUME Flush \/ Alarm \/ Probe \/ Promote \/ Local \/ Drop
      PROVE  UNCHANGED authorities /\ UNCHANGED <<queue, nextId>>
  BY <1>4 DEF Local, Drop, Flush, Alarm, Probe, Promote, ReceiveCall, Apply, Applied, Interrupt
<1>5. ASSUME NEW f \in Families,
             \/ Dispatch(f) \/ Redeliver(f) \/ StartSession(f) \/ StartJob(f)
             \/ EndCall(f) \/ EndSession(f)
      PROVE  UNCHANGED authorities /\ UNCHANGED <<queue, nextId>>
  BY <1>5 DEF Dispatch, Redeliver, StartSession, StartJob, EndCall, EndSession
<1> HIDE DEF authorities
<1> QED BY <1>1, <1>2, <1>3, <1>4, <1>5 DEF Next, Traffic, Ends

LEMMA EndSteps ==
    ASSUME IInv, Room, Next, Ends
    PROVE  \E r \in Records : EndStep(r)
<1> USE RevocationAssumption
<1>0. /\ TypeOK /\ GrantsOK /\ IsFiniteSet(queue)
      /\ version \in 1 .. MaxVersions /\ version \in Nat /\ grant \in [Families -> 0 .. MaxVersions]
      /\ removed \subseteq Clients /\ revoked \subseteq Families
      /\ \A f \in Families : grant[f] \in Nat /\ grant[f] <= version /\ ClientOf[f] \in Clients
  BY DEF IInv, TypeOK, GrantsOK, FiniteOK
<1>c. ASSUME NEW v \in 1 .. MaxVersions, NEW c \in Clients \cup {None}, NEW f \in Families \cup {None},
             NEW r, r = [id |-> nextId, ver |-> v, client |-> c, family |-> f],
             Commit(v, c, f), grant' = grant, Sound(r)',
             \A g \in Families : Ended(g)' /\ ~Ended(g) => Covers(r, Scope(g))
      PROVE  \E x \in Records : EndStep(x)
  <2>1. /\ r \in Records /\ flush = {} /\ flush' = queue' /\ nextId' = nextId + 1
        /\ UNCHANGED <<pending, channel, daemon, bounds>>
        /\ IsFiniteSet(queue') /\ queue' \subseteq Records /\ queue' \subseteq queue \cup {r}
        /\ \E x \in queue' : Covers(x, r)
        /\ \A x \in queue : x \notin queue' => r \in queue' /\ Covers(r, x)
    BY <1>0, <1>c, CommitEffect
  <2>2. r.id = nextId
    BY <1>c
  <2>3. ASSUME NEW g \in Families, Ended(g)', ~Ended(g)
        PROVE  \E x \in queue' : Covers(x, Scope(g))
    <3>1. PICK x \in queue' : Covers(x, r)
      BY <2>1
    <3>2. Covers(r, Scope(g))
      BY <1>c, <2>3
    <3> QED BY <2>1, <3>1, <3>2, CoversFacts
  <2> QED BY <1>c, <2>1, <2>2, <2>3 DEF EndStep
<1>1. CASE EndVersion
  <2>r. PICK r : r = [id |-> nextId, ver |-> version, client |-> None, family |-> None]
    OBVIOUS
  <2>1. /\ Commit(version, None, None) /\ version' = version + 1
        /\ grant' = grant /\ removed' = removed /\ revoked' = revoked
    BY <1>1 DEF EndVersion
  <2>2. Sound(r)'
    BY <1>0, <2>r, <2>1 DEF Sound
  <2>3. ASSUME NEW g \in Families, Ended(g)', ~Ended(g) PROVE Covers(r, Scope(g))
    <3>1. grant[g] = version
      BY <2>1, <2>3 DEF Ended, Current
    <3> QED BY <3>1, <2>r DEF Covers, Scope
  <2> QED BY <1>0, <1>c, <2>r, <2>1, <2>2, <2>3
<1>2. ASSUME NEW c \in Clients, RemoveClient(c) PROVE \E x \in Records : EndStep(x)
  <2>1. PICK v \in Trusted(c) : Commit(v, c, None)
    BY <1>2 DEF RemoveClient
  <2>r. PICK r : r = [id |-> nextId, ver |-> v, client |-> c, family |-> None]
    OBVIOUS
  <2>2. /\ version' = version /\ grant' = grant /\ revoked' = revoked /\ removed' = removed \cup {c}
    BY <1>2 DEF RemoveClient
  <2>3. v \in 1 .. MaxVersions
    BY <1>0 DEF Trusted
  <2>4. Sound(r)'
    BY <2>r, <2>2 DEF Sound
  <2>5. ASSUME NEW g \in Families, Ended(g)', ~Ended(g) PROVE Covers(r, Scope(g))
    <3>1. grant[g] = version /\ ClientOf[g] = c
      BY <2>2, <2>5 DEF Ended, Current
    <3>2. PICK h \in Families : v = grant[h]
      BY DEF Trusted
    <3>3. grant[g] <= v
      BY <3>1 DEF Trusted
    <3>4. v = version
      BY <1>0, <3>1, <3>2, <3>3
    <3> QED BY <3>1, <3>4, <2>r DEF Covers, Scope
  <2> QED BY <1>0, <1>c, <2>r, <2>1, <2>2, <2>3, <2>4, <2>5
<1>3. ASSUME NEW f \in Families, RevokeFamily(f) PROVE \E x \in Records : EndStep(x)
  <2>r. PICK r : r = [id |-> nextId, ver |-> grant[f], client |-> ClientOf[f], family |-> f]
    OBVIOUS
  <2>1. /\ Commit(grant[f], ClientOf[f], f) /\ grant[f] # 0
        /\ version' = version /\ grant' = grant /\ removed' = removed /\ revoked' = revoked \cup {f}
    BY <1>3 DEF RevokeFamily
  <2>2. grant[f] \in 1 .. MaxVersions /\ ClientOf[f] \in Clients
    BY <1>0, <2>1
  <2>3. Sound(r)'
    BY <2>r, <2>1, <2>2 DEF Sound
  <2>4. ASSUME NEW g \in Families, Ended(g)', ~Ended(g) PROVE Covers(r, Scope(g))
    <3>1. g = f
      BY <2>1, <2>4 DEF Ended, Current
    <3> QED BY <3>1, <2>r DEF Covers, Scope
  <2> QED BY <1>0, <1>c, <2>r, <2>1, <2>2, <2>3, <2>4
<1> QED BY <1>1, <1>2, <1>3 DEF Ends

LEMMA EndedStays ==
    ASSUME RevocationAssumption, TypeOK, GrantsOK, AuthorityStep, NEW f \in Families, Ended(f)
    PROVE  Ended(f)' /\ grant'[f] = grant[f]
<1>1. grant[f] \in Nat /\ grant[f] <= version /\ version \in Nat /\ version' \in Nat
  BY DEF TypeOK, GrantsOK, AuthorityStep
<1>2. grant'[f] = grant[f] /\ grant[f] # 0
  BY DEF AuthorityStep, Ended
<1>3. version <= version' /\ removed \subseteq removed' /\ revoked \subseteq revoked'
  BY DEF AuthorityStep
<1>4. ~Current(f)'
  BY <1>1, <1>2, <1>3 DEF Ended, Current
<1> QED BY <1>2, <1>4 DEF Ended

LEMMA SoundStays ==
    ASSUME RevocationAssumption, TypeOK, GrantsOK, AuthorityStep, NEW r \in Records, Sound(r)
    PROVE  /\ Sound(r)'
           /\ Covered(r)' = Covered(r)
<1>1. /\ version \in Nat /\ version' \in Nat /\ r.ver \in Nat /\ version <= version'
      /\ removed \subseteq removed' /\ revoked \subseteq revoked'
      /\ None \notin removed /\ None \notin revoked /\ removed \subseteq Clients
  BY DEF TypeOK, AuthorityStep, Records
<1>2. Sound(r)'
  BY <1>1 DEF Sound
<1>3. ASSUME NEW f \in Families, grant'[f] = grant[f]
      PROVE  Covers(r, Scope(f))' <=> Covers(r, Scope(f))
  BY <1>3 DEF Covers, Scope
<1>4. ASSUME NEW f \in Families, grant'[f] # grant[f]
      PROVE  ~Covers(r, Scope(f))' /\ ~Covers(r, Scope(f))
  <2>1. grant[f] = 0 /\ grant'[f] = version /\ ClientOf[f] \notin removed
    BY <1>4 DEF AuthorityStep
  <2>2. f \notin revoked /\ r.ver # 0
    BY <2>1 DEF GrantsOK, Records
  <2>3. ~Covers(r, Scope(f))
    BY <2>1, <2>2 DEF Covers, Scope
  <2>4. ~Covers(r, Scope(f))'
    BY <1>1, <2>1, <2>2 DEF Covers, Scope, Sound
  <2> QED BY <2>3, <2>4
<1>5. \A f \in Families : Covers(r, Scope(f))' <=> Covers(r, Scope(f))
  BY <1>3, <1>4
<1>6. Covered(r)' = Covered(r)
  BY <1>5 DEF Covered
<1> QED BY <1>2, <1>6

LEMMA FiniteStep ==
    ASSUME TypeOK, FiniteOK, Next
    PROVE  FiniteOK'
<1> USE RevocationAssumption DEF authorities, worker, channel, daemon, bounds, FiniteOK
<1>e. IsFiniteSet({})
  BY FS_EmptySet
<1>q. ASSUME NEW v \in 1 .. MaxVersions, NEW c \in Clients \cup {None}, NEW f \in Families \cup {None},
             Commit(v, c, f)
      PROVE  FiniteOK'
  <2>1. flush' = queue' /\ IsFiniteSet(queue') /\ UNCHANGED <<pending, channel, daemon, bounds>>
    BY <1>q, CommitEffect
  <2> QED BY <2>1
<1>1. CASE EndVersion
  <2>1. Commit(version, None, None) /\ version \in 1 .. MaxVersions
    BY <1>1 DEF EndVersion, TypeOK
  <2> QED BY <1>q, <2>1
<1>2. ASSUME NEW c \in Clients, RemoveClient(c) PROVE FiniteOK'
  <2>1. PICK v \in Trusted(c) : Commit(v, c, None)
    BY <1>2 DEF RemoveClient
  <2>2. v \in 1 .. MaxVersions
    BY DEF Trusted, TypeOK
  <2> QED BY <1>q, <2>1, <2>2
<1>3. ASSUME NEW f \in Families, RevokeFamily(f) PROVE FiniteOK'
  <2>1. grant[f] \in 1 .. MaxVersions /\ ClientOf[f] \in Clients /\ Commit(grant[f], ClientOf[f], f)
    BY <1>3 DEF RevokeFamily, TypeOK
  <2> QED BY <1>q, <2>1
<1>4. CASE Acknowledge
  <2>1. queue' \subseteq queue /\ flush' = flush /\ probed' = probed
    BY <1>4 DEF Acknowledge
  <2> QED BY <2>1, FS_Subset
<1>5. ASSUME Flush \/ Alarm \/ Probe \/ Promote \/ Local \/ Drop PROVE FiniteOK'
  <2>1. queue' = queue
    BY <1>5 DEF Local, Drop, Flush, Alarm, Probe, Promote, ReceiveCall, Apply, Applied, Interrupt
  <2>2. flush' \in {{}, queue, flush}
    BY <1>5 DEF Local, Drop, Flush, Alarm, Unacknowledged, Probe, Promote, ReceiveCall, Apply, Applied,
                Interrupt
  <2>3. probed' \in {{}, queue, probed}
    BY <1>5 DEF Local, Drop, Lose, Flush, Alarm, Probe, Promote, ReceiveCall, Apply, Applied, Interrupt
  <2> QED BY <1>e, <2>1, <2>2, <2>3
<1>6. ASSUME NEW f \in Families,
             \/ Authorize(f) \/ Dispatch(f) \/ Redeliver(f) \/ StartSession(f) \/ StartJob(f)
             \/ EndCall(f) \/ EndSession(f)
      PROVE  FiniteOK'
  BY <1>6 DEF Authorize, Dispatch, Redeliver, StartSession, StartJob, EndCall, EndSession
<1> HIDE DEF FiniteOK
<1> QED BY <1>1, <1>2, <1>3, <1>4, <1>5, <1>6 DEF Next, Traffic

(* What is on the channel was there, or is put there by this step. *)
MessageStep(m) ==
    \/ m \in Range(down)
    \/ m.type = "revoke" /\ m.about \in flush \cup probed
    \/ \E g \in Families : (Dispatch(g) \/ Redeliver(g)) /\ m = Message("call", g)

LEMMA MessagesSent ==
    ASSUME TypeOK, FiniteOK, Next, NEW m \in Range(down')
    PROVE  MessageStep(m)
<1> USE DEF authorities, worker, channel, daemon, bounds
<1>0. /\ down \in Seq(Messages) /\ flush \in SUBSET Records /\ probed \in SUBSET Records
      /\ IsFiniteSet(flush) /\ IsFiniteSet(probed)
  BY DEF TypeOK, FiniteOK
<1>p. PICK i \in DOMAIN down' : down'[i] = m
  BY DEF Range
<1>u. ASSUME down' = down PROVE MessageStep(m)
  BY <1>u DEF MessageStep
<1>1. ASSUME Flush PROVE MessageStep(m)
  <2>1. CASE conn = "ready"
    <3>1. PICK order \in InOrder(flush) : down' = down \o Wire(order)
      BY <1>1, <2>1 DEF Flush
    <3>2. /\ Wire(order) \in Seq(Messages)
          /\ \A j \in DOMAIN Wire(order) :
                Wire(order)[j].type = "revoke" /\ Wire(order)[j].about \in flush
      BY <1>0, WireFacts
    <3>3. \/ i \in DOMAIN down /\ down'[i] = down[i]
          \/ \E j \in DOMAIN Wire(order) : down'[i] = Wire(order)[j]
      BY <1>0, <1>p, <3>1, <3>2, ConcatFacts
    <3> QED BY <1>p, <3>2, <3>3 DEF Range, MessageStep
  <2> QED BY <1>1, <1>u, <2>1 DEF Flush
<1>2. ASSUME Promote PROVE MessageStep(m)
  <2>1. PICK order \in InOrder(probed) : down' = Wire(order)
    BY <1>2 DEF Promote
  <2>2. \A j \in DOMAIN Wire(order) :
           Wire(order)[j].type = "revoke" /\ Wire(order)[j].about \in probed
    BY <1>0, WireFacts
  <2> QED BY <1>p, <2>1, <2>2 DEF MessageStep
<1>3. ASSUME Drop \/ Interrupt PROVE MessageStep(m)
  BY <1>3, <1>p DEF Drop, Interrupt, Lose
<1>4. ASSUME ReceiveCall \/ Apply PROVE MessageStep(m)
  <2>1. down # <<>> /\ down' = Tail(down)
    BY <1>4 DEF ReceiveCall, Apply
  <2>2. i + 1 \in DOMAIN down /\ down[i + 1] = m
    BY <1>0, <1>p, <2>1, TailFacts
  <2> QED BY <2>2 DEF Range, MessageStep
<1>5. ASSUME NEW g \in Families, Dispatch(g) \/ Redeliver(g) PROVE MessageStep(m)
  <2>1. down' = Append(down, Message("call", g)) /\ Message("call", g) \in Messages
    BY <1>5, MessageFacts DEF Dispatch, Redeliver
  <2>2. \/ i \in DOMAIN down /\ down'[i] = down[i]
        \/ down'[i] = Message("call", g)
    BY <1>0, <1>p, <2>1, AppendFacts
  <2> QED BY <1>5, <1>p, <2>2 DEF Range, MessageStep
<1>6. ASSUME Ends PROVE down' = down
  BY <1>6 DEF Ends, EndVersion, RemoveClient, RevokeFamily, Commit
<1>7. ASSUME Alarm \/ Probe \/ Acknowledge \/ Applied PROVE down' = down
  BY <1>7 DEF Alarm, Probe, Acknowledge, Applied
<1>8. ASSUME NEW g \in Families,
             Authorize(g) \/ StartSession(g) \/ StartJob(g) \/ EndCall(g) \/ EndSession(g)
      PROVE  down' = down
  BY <1>8 DEF Authorize, StartSession, StartJob, EndCall, EndSession
<1> QED BY <1>u, <1>1, <1>2, <1>3, <1>4, <1>5, <1>6, <1>7, <1>8 DEF Next, Traffic, Local, Ends

LEMMA CallsSent ==
    ASSUME TypeOK, FiniteOK, Next, NEW f \in Families, Message("call", f) \in Range(down')
    PROVE  Message("call", f) \in Range(down) \/ Dispatch(f) \/ Redeliver(f)
<1>1. MessageStep(Message("call", f))
  BY MessagesSent
<1>2. Message("call", f).type # "revoke" /\ \A g \in Families : Message("call", f) = Message("call", g) => g = f
  BY DEF Message
<1> QED BY <1>1, <1>2 DEF MessageStep

LEMMA RecordsSent ==
    ASSUME TypeOK, FiniteOK, Next
    PROVE  Sending' \subseteq Sending \cup flush \cup probed
<1>1. ASSUME NEW x \in Sending' PROVE x \in Sending \cup flush \cup probed
  <2>1. PICK i \in DOMAIN down' : down'[i].type = "revoke" /\ x = down'[i].about
    BY DEF Sending
  <2>2. down'[i] \in Range(down')
    BY DEF Range
  <2>3. MessageStep(down'[i])
    BY <2>2, MessagesSent
  <2>4. \A g \in Families : Message("call", g).type # "revoke"
    BY DEF Message
  <2> QED BY <2>1, <2>3, <2>4 DEF MessageStep, Sending, Range
<1> QED BY <1>1

(* What has ended does not come back: a step starts work only for families   *)
(* that are current or have some already.                                    *)
LEMMA IdleStays ==
    ASSUME TypeOK, FiniteOK, Next, NEW f \in Families, Ended(f)
    PROVE  /\ f \notin pending => f \notin pending'
           /\ ~Running(f) => ~Running(f)'
<1> USE DEF authorities, worker, channel, daemon, bounds
<1>0. /\ call \in [Families -> {"none", "run", "cancelled"}]
      /\ session \in [Families -> {"none", "run", "ending"}]
      /\ work \in [Families -> {"none", "run", "cancelled"}]
      /\ (down # <<>> => Head(down) \in Messages /\ Head(down) \in Range(down))
  <2>1. ASSUME down # <<>> PROVE Head(down) \in Messages /\ Head(down) \in Range(down)
    <3>1. down \in Seq(Messages)
      BY DEF TypeOK
    <3>2. Head(down) \in Messages /\ 1 \in DOMAIN down /\ Head(down) = down[1]
      BY <2>1, <3>1, TailFacts
    <3> QED BY <3>2 DEF Range
  <2> QED BY <2>1 DEF TypeOK
<1>d. ~Dispatch(f)
  BY DEF Dispatch, Ended
<1>1. ASSUME f \notin pending PROVE f \notin pending'
  <2>1. ASSUME Ends PROVE pending' = pending
    BY <2>1 DEF Ends, EndVersion, RemoveClient, RevokeFamily, Commit
  <2>2. ASSUME Traffic \/ Local \/ Drop PROVE pending' \subseteq pending
    BY <2>2 DEF Traffic, Local, Drop, Flush, Alarm, Probe, Promote, Acknowledge,
                ReceiveCall, Apply, Applied, Interrupt
  <2>3. ASSUME NEW g \in Families, g # f \/ ~Dispatch(g),
               \/ Authorize(g) \/ Dispatch(g) \/ Redeliver(g) \/ StartSession(g) \/ StartJob(g)
               \/ EndCall(g) \/ EndSession(g)
        PROVE  f \notin pending'
    BY <1>1, <2>3 DEF Authorize, Dispatch, Redeliver, StartSession, StartJob, EndCall, EndSession
  <2> QED BY <1>d, <1>1, <2>1, <2>2, <2>3 DEF Next, Ends
<1>2. ASSUME ~Running(f) PROVE ~Running(f)'
  <2>0. /\ call[f] # "run" /\ session[f] # "run" /\ work[f] # "run" /\ f \notin pending
        /\ Message("call", f) \notin Range(down)
    BY <1>2 DEF Running
  <2>1. f \notin pending'
    BY <1>1, <2>0
  <2>2. Message("call", f) \notin Range(down')
    <3>1. ~Redeliver(f)
      BY <2>0 DEF Redeliver
    <3> QED BY <1>d, <2>0, <3>1, CallsSent
  <2>3. call'[f] # "run" /\ session'[f] # "run" /\ work'[f] # "run"
    <3>1. ASSUME Ends PROVE UNCHANGED <<call, session, work>>
      BY <3>1 DEF Ends, EndVersion, RemoveClient, RevokeFamily, Commit
    <3>2. ASSUME Traffic \/ Drop \/ Applied \/ Interrupt PROVE UNCHANGED <<call, session, work>>
      BY <3>2 DEF Traffic, Drop, Flush, Alarm, Probe, Promote, Acknowledge, Applied, Interrupt
    <3>3. CASE ReceiveCall
      <4>1. /\ call' = [call EXCEPT ![Head(down).about] = "run"] /\ session' = session /\ work' = work
            /\ Head(down).type = "call" /\ down # <<>>
        BY <3>3 DEF ReceiveCall
      <4>2. Head(down).about # f
        BY <1>0, <2>0, <4>1, MessageFacts
      <4> QED BY <1>0, <2>0, <4>1, <4>2
    <3>4. CASE Apply
      <4>1. call'[f] \in {"cancelled", call[f]}
        BY <3>4 DEF Apply
      <4>2. session'[f] \in {"ending", session[f]}
        BY <3>4 DEF Apply
      <4>3. work'[f] \in {"cancelled", work[f]}
        BY <3>4 DEF Apply
      <4> QED BY <2>0, <4>1, <4>2, <4>3
    <3>5. ASSUME NEW g \in Families, Authorize(g) \/ Dispatch(g) \/ Redeliver(g)
          PROVE  UNCHANGED <<call, session, work>>
      BY <3>5 DEF Authorize, Dispatch, Redeliver
    <3>6. ASSUME NEW g \in Families, StartSession(g) \/ StartJob(g) \/ EndCall(g) \/ EndSession(g)
          PROVE  call'[f] # "run" /\ session'[f] # "run" /\ work'[f] # "run"
      BY <1>0, <2>0, <3>6 DEF Permitted, StartSession, StartJob, EndCall, EndSession
    <3> QED BY <2>0, <3>1, <3>2, <3>3, <3>4, <3>5, <3>6 DEF Next, Local, Ends
  <2> QED BY <2>1, <2>2, <2>3 DEF Running
<1> QED BY <1>1, <1>2

(* A record's effects last. *)
LEMMA EffectStays ==
    ASSUME RevocationAssumption, TypeOK, FiniteOK, GrantsOK, Next, NEW r \in Records, Sound(r)
    PROVE  /\ Sound(r)' /\ Covered(r)' = Covered(r)
           /\ Heard(r) => Heard(r)'
           /\ Stopped(r) => Stopped(r)'
<1>1. AuthorityStep
  BY AuthoritySteps
<1>2. Sound(r)' /\ Covered(r)' = Covered(r)
  BY <1>1, SoundStays
<1>3. \A f \in Covered(r) : f \in Families /\ Ended(f)
  BY SoundCovers DEF Covered
<1>4. Heard(r) => Heard(r)'
  BY <1>2, <1>3, IdleStays DEF Heard
<1>5. Stopped(r) => Stopped(r)'
  BY <1>2, <1>3, IdleStays DEF Stopped
<1> QED BY <1>2, <1>4, <1>5

-----------------------------------------------------------------------------
(* The invariant. *)

LEMMA GrantsStep ==
    ASSUME TypeOK, GrantsOK, Next
    PROVE  GrantsOK'
<1>1. AuthorityStep
  BY AuthoritySteps
<1>0. /\ version \in Nat /\ grant \in [Families -> 0 .. MaxVersions] /\ revoked \subseteq Families
  BY RevocationAssumption DEF TypeOK
<1>2. \A f \in Families : grant'[f] <= version'
  <2>1. ASSUME NEW f \in Families PROVE grant'[f] <= version'
    <3>1. grant[f] \in Nat /\ grant[f] <= version
      BY <1>0 DEF GrantsOK
    <3> QED BY <1>0, <1>1, <3>1 DEF AuthorityStep
  <2> QED BY <2>1
<1>3. ASSUME NEW f \in Families, grant[f] # 0 PROVE grant'[f] # 0
  BY <1>1, <1>3 DEF AuthorityStep
<1>4. ASSUME NEW f \in revoked' PROVE grant'[f] # 0
  <2>1. CASE f \in revoked
    BY <1>0, <1>3, <2>1 DEF GrantsOK
  <2>2. CASE f \notin revoked
    <3>1. ASSUME ~Ends PROVE revoked' = revoked
      BY <3>1, OtherSteps DEF OtherStep
    <3>2. EndVersion \/ (\E c \in Clients : RemoveClient(c)) => revoked' = revoked
      BY DEF EndVersion, RemoveClient
    <3>3. PICK g \in Families : RevokeFamily(g)
      BY <1>4, <2>2, <3>1, <3>2 DEF Ends
    <3>4. f = g /\ grant[f] # 0
      BY <1>4, <2>2, <3>3 DEF RevokeFamily
    <3> QED BY <1>3, <3>4
  <2> QED BY <2>1, <2>2
<1> QED BY <1>2, <1>4 DEF GrantsOK

LEMMA KnownFacts ==
    ASSUME TypeOK, RecordsOK
    PROVE  /\ \A x \in Known : /\ x \in Records /\ Sound(x) /\ x.id \in Nat /\ x.id < nextId
                               /\ \A r \in queue : r.id = x.id => r = x
           /\ queue \subseteq Known /\ flush \subseteq Known /\ probed \subseteq Known
           /\ \A a \in applying : a.rec \in Known
           /\ \A m \in Range(down) : m.type = "revoke" => m.about \in Known
<1>1. /\ queue \subseteq Records /\ flush \subseteq Records /\ probed \subseteq Records
      /\ \A a \in applying : a.rec \in Records
  BY DEF TypeOK
<1>2. \A m \in Range(down) : m.type = "revoke" => m.about \in Sending /\ m.about \in Records
  <2>1. ASSUME NEW m \in Range(down), m.type = "revoke" PROVE m.about \in Sending /\ m.about \in Records
    <3>1. PICK i \in DOMAIN down : down[i] = m
      BY DEF Range
    <3>2. m \in Messages
      BY <3>1, ElementOfSeq, LenProperties DEF TypeOK
    <3> QED BY <2>1, <3>1, <3>2, MessageFacts DEF Sending
  <2> QED BY <2>1
<1>3. \A x \in Sending : x \in Records
  BY <1>2 DEF Sending, Range
<1>4. \A x \in Known : x \in Records
  BY <1>1, <1>3 DEF Known
<1>5. \A x \in Known : x.id \in Nat
  BY <1>4 DEF Records
<1> QED BY <1>2, <1>4, <1>5 DEF Known, RecordsOK

LEMMA KnownSteps ==
    ASSUME TypeOK, FiniteOK, Next
    PROVE  Known' \subseteq Known \cup queue' \cup flush'
<1>1. Sending' \subseteq Sending \cup flush \cup probed
  BY RecordsSent
<1> USE DEF authorities, worker, channel, daemon, bounds
<1>2. ASSUME Ends PROVE probed' = probed /\ applying' = applying
  BY <1>2 DEF Ends, EndVersion, RemoveClient, RevokeFamily, Commit
<1>3. ASSUME Flush \/ Alarm \/ Acknowledge PROVE probed' = probed /\ applying' = applying
  BY <1>3 DEF Flush, Alarm, Acknowledge
<1>4. ASSUME Probe \/ Promote \/ Drop \/ Interrupt \/ Applied
      PROVE  probed' \subseteq queue \cup probed /\ applying' \subseteq applying
  BY <1>4 DEF Probe, Promote, Drop, Interrupt, Applied, Lose
<1>5. ASSUME NEW f \in Families,
             \/ Authorize(f) \/ Dispatch(f) \/ Redeliver(f) \/ StartSession(f) \/ StartJob(f)
             \/ EndCall(f) \/ EndSession(f)
      PROVE  probed' = probed /\ applying' = applying
  BY <1>5 DEF Authorize, Dispatch, Redeliver, StartSession, StartJob, EndCall, EndSession
<1>6. ASSUME ReceiveCall PROVE probed' = probed /\ applying' = applying
  BY <1>6 DEF ReceiveCall
<1>7. ASSUME Apply
      PROVE  probed' = probed /\ \A a \in applying' : a \in applying \/ a.rec \in Sending
  <2>1. probed' = probed /\ Head(down).type = "revoke" /\ down # <<>>
    BY <1>7 DEF Apply
  <2>4. \E failed \in SUBSET {<<kind, f>> : kind \in {"session", "job"},
                                         f \in {g \in Families : Covers(Head(down).about, Scope(g))}} :
           applying' = applying \cup {[rec |-> Head(down).about, complete |-> Complete(failed)]}
    BY <1>7 DEF Apply
  <2>5. \A a \in applying' : a \in applying \/ a.rec = Head(down).about
    BY <2>4
  <2>2. 1 \in DOMAIN down /\ Head(down) = down[1]
    BY <2>1, TailFacts DEF TypeOK
  <2>3. Head(down).about \in Sending
    BY <2>1, <2>2 DEF Sending
  <2> QED BY <2>1, <2>3, <2>5
<1>8. probed' \subseteq queue \cup probed /\ \A a \in applying' : a \in applying \/ a.rec \in Sending
  BY <1>2, <1>3, <1>4, <1>5, <1>6, <1>7 DEF Next, Traffic, Local, Ends
<1> QED BY <1>1, <1>8 DEF Known

LEMMA RecordsStep ==
    ASSUME IInv, Room, Next
    PROVE  RecordsOK'
<1>0. TypeOK /\ FiniteOK /\ GrantsOK /\ RecordsOK /\ nextId \in Nat /\ flush \subseteq Known
  BY KnownFacts DEF IInv, TypeOK
<1>1. \A x \in Known : /\ x \in Records /\ Sound(x) /\ x.id \in Nat /\ x.id < nextId
                       /\ \A r \in queue : r.id = x.id => r = x
  BY <1>0, KnownFacts
<1>2. \A x \in Known : Sound(x)'
  BY <1>0, <1>1, EffectStays, RevocationAssumption
<1>3. Known' \subseteq Known \cup queue' \cup flush' /\ queue \subseteq Known
  BY <1>0, KnownSteps, KnownFacts
<1>4. CASE Ends
  <2>1. PICK r \in Records : EndStep(r)
    BY <1>4, EndSteps
  <2>2. /\ r.id = nextId /\ Sound(r)' /\ nextId' = nextId + 1 /\ flush' = queue'
        /\ queue' \subseteq queue \cup {r}
    BY <2>1 DEF EndStep
  <2>3. Known' \subseteq Known \cup {r}
    BY <1>3, <2>2
  <2>4. ASSUME NEW x \in Known'
        PROVE  Sound(x)' /\ x.id < nextId' /\ \A q \in queue' : q.id = x.id => q = x
    <3>1. CASE x = r
      <4>1. \A q \in queue : q.id < nextId
        BY <1>1, <1>3
      <4>2. \A q \in queue : q.id # nextId
        BY <1>0, <1>1, <1>3, <4>1
      <4> QED BY <1>0, <2>2, <3>1, <4>2
    <3>2. CASE x # r
      <4>1. x \in Known
        BY <2>3, <2>4, <3>2
      <4>2. x.id \in Nat /\ x.id < nextId /\ Sound(x)' /\ \A q \in queue : q.id = x.id => q = x
        BY <1>1, <1>2, <4>1
      <4> QED BY <1>0, <2>2, <4>2
    <3> QED BY <3>1, <3>2
  <2> QED BY <2>4 DEF RecordsOK
<1>5. CASE ~Ends
  <2>1. nextId' = nextId /\ queue' \subseteq queue
    <3>1. OtherStep
      BY <1>5, OtherSteps
    <3> QED BY <3>1 DEF OtherStep, Acknowledge
  <2>2. flush' \subseteq Known
    <3>1. ASSUME Traffic \/ Local \/ Drop PROVE flush' \subseteq Known
      BY <1>0, <1>3, <3>1 DEF Traffic, Local, Drop, Flush, Alarm, Unacknowledged, Probe, Promote, Acknowledge,
                  ReceiveCall, Apply, Applied, Interrupt, worker
    <3>2. ASSUME NEW f \in Families,
                 \/ Authorize(f) \/ Dispatch(f) \/ Redeliver(f) \/ StartSession(f) \/ StartJob(f)
                 \/ EndCall(f) \/ EndSession(f)
          PROVE  flush' = flush
      BY <3>2 DEF Authorize, Dispatch, Redeliver, StartSession, StartJob, EndCall, EndSession, worker
    <3> QED BY <1>0, <1>5, <3>1, <3>2 DEF Next, Ends
  <2>3. Known' \subseteq Known
    BY <1>3, <2>1, <2>2
  <2> QED BY <1>1, <1>2, <2>1, <2>3 DEF RecordsOK
<1> QED BY <1>4, <1>5

LEMMA StoppedStep ==
    ASSUME IInv, Next
    PROVE  StoppedOK'
<1> USE DEF authorities, worker, channel, daemon, bounds
<1>0. /\ TypeOK /\ FiniteOK /\ GrantsOK /\ RecordsOK
      /\ call \in [Families -> {"none", "run", "cancelled"}]
      /\ session \in [Families -> {"none", "run", "ending"}]
      /\ work \in [Families -> {"none", "run", "cancelled"}]
  BY DEF IInv, TypeOK
<1>1. \A f \in Families : Ended(f) => Ended(f)'
  BY <1>0, AuthoritySteps, EndedStays, RevocationAssumption
<1>2. \A f \in Families : ~Ended(f) => call[f] # "cancelled" /\ session[f] # "ending" /\ work[f] # "cancelled"
  BY DEF IInv, StoppedOK
<1>3. ASSUME NEW f \in Families, ~Ended(f)
      PROVE  call'[f] # "cancelled" /\ session'[f] # "ending" /\ work'[f] # "cancelled"
  <2>1. ASSUME UNCHANGED <<call, session, work>>
        PROVE  call'[f] # "cancelled" /\ session'[f] # "ending" /\ work'[f] # "cancelled"
    BY <1>2, <1>3, <2>1
  <2>2. ASSUME Ends PROVE UNCHANGED <<call, session, work>>
    BY <2>2 DEF Ends, EndVersion, RemoveClient, RevokeFamily, Commit
  <2>3. ASSUME Traffic \/ Drop \/ Applied \/ Interrupt PROVE UNCHANGED <<call, session, work>>
    BY <2>3 DEF Traffic, Drop, Flush, Alarm, Probe, Promote, Acknowledge, Applied, Interrupt
  <2>4. CASE ReceiveCall
    BY <1>0, <1>2, <1>3, <2>4 DEF ReceiveCall
  <2>5. CASE Apply
    <3>1. ~Covers(Head(down).about, Scope(f))
      <4>1. down # <<>> /\ Head(down).type = "revoke" /\ down \in Seq(Messages)
        BY <1>0, <2>5 DEF Apply, TypeOK
      <4>2. Head(down) \in Range(down)
        BY <4>1, TailFacts DEF Range
      <4>3. Head(down).about \in Known
        BY <1>0, <4>1, <4>2, KnownFacts
      <4>4. Head(down).about \in Records /\ Sound(Head(down).about)
        BY <1>0, <4>3, KnownFacts
      <4>5. f \notin Covered(Head(down).about)
        BY <1>0, <1>3, <4>4, SoundCovers, RevocationAssumption
      <4> QED BY <4>5 DEF Covered
    <3>2. call'[f] = call[f]
      BY <3>1, <2>5 DEF Apply
    <3>3. session'[f] = session[f]
      BY <3>1, <2>5 DEF Apply
    <3>4. work'[f] = work[f]
      BY <3>1, <2>5 DEF Apply
    <3> QED BY <1>2, <1>3, <3>2, <3>3, <3>4
  <2>6. ASSUME NEW g \in Families, Authorize(g) \/ Dispatch(g) \/ Redeliver(g)
        PROVE  UNCHANGED <<call, session, work>>
    BY <2>6 DEF Authorize, Dispatch, Redeliver
  <2>7. ASSUME NEW g \in Families, StartSession(g) \/ StartJob(g) \/ EndCall(g) \/ EndSession(g)
        PROVE  call'[f] # "cancelled" /\ session'[f] # "ending" /\ work'[f] # "cancelled"
    BY <1>0, <1>2, <1>3, <2>7 DEF StartSession, StartJob, EndCall, EndSession
  <2> QED BY <2>1, <2>2, <2>3, <2>4, <2>5, <2>6, <2>7 DEF Next, Local, Ends
<1> QED BY <1>1, <1>3 DEF StoppedOK

LEMMA AppliedStep ==
    ASSUME IInv, Next
    PROVE  AppliedOK'
<1> USE DEF authorities, worker, channel, daemon, bounds
<1>0. /\ TypeOK /\ FiniteOK /\ GrantsOK /\ RecordsOK /\ AppliedOK /\ down \in Seq(Messages)
  BY DEF IInv, TypeOK
<1>1. \A x \in Known : x \in Records /\ (Stopped(x) => Stopped(x)')
  BY <1>0, KnownFacts, EffectStays, RevocationAssumption
<1>2. \A a \in applying : a.complete => Stopped(a.rec)'
  BY <1>0, <1>1, KnownFacts DEF AppliedOK
<1>3. ASSUME ~Apply PROVE applying' \subseteq applying
  <2>1. ASSUME Ends PROVE applying' = applying
    BY <2>1 DEF Ends, EndVersion, RemoveClient, RevokeFamily, Commit
  <2>2. ASSUME Traffic \/ ReceiveCall PROVE applying' = applying
    BY <2>2 DEF Traffic, Flush, Alarm, Probe, Promote, Acknowledge, ReceiveCall
  <2>3. ASSUME Drop \/ Applied \/ Interrupt PROVE applying' \subseteq applying
    BY <2>3 DEF Drop, Applied, Interrupt, Lose
  <2>4. ASSUME NEW f \in Families,
               \/ Authorize(f) \/ Dispatch(f) \/ Redeliver(f) \/ StartSession(f) \/ StartJob(f)
               \/ EndCall(f) \/ EndSession(f)
        PROVE  applying' = applying
    BY <2>4 DEF Authorize, Dispatch, Redeliver, StartSession, StartJob, EndCall, EndSession
  <2> QED BY <1>3, <2>1, <2>2, <2>3, <2>4 DEF Next, Local, Ends
<1>4. CASE Apply
  <2> DEFINE rec == Head(down).about
             matching == {g \in Families : Covers(rec, Scope(g))}
  <2>1. /\ down # <<>> /\ Head(down).type = "revoke" /\ down' = Tail(down)
        /\ pending' = pending
    BY <1>4 DEF Apply
  <2>2. PICK failed \in SUBSET {<<kind, f>> : kind \in {"session", "job"}, f \in matching} :
           /\ applying' = applying \cup {[rec |-> rec, complete |-> Complete(failed)]}
           /\ call' = [f \in Families |-> IF f \in matching /\ call[f] = "run"
                                          THEN "cancelled" ELSE call[f]]
           /\ session' = [f \in Families |->
                 IF f \in matching /\ session[f] = "run" /\ <<"session", f>> \notin failed
                 THEN "ending" ELSE session[f]]
           /\ work' = [f \in Families |->
                 IF f \in matching /\ work[f] = "run" /\ <<"job", f>> \notin failed
                 THEN "cancelled" ELSE work[f]]
    BY <1>4 DEF Apply
  <2>3. 1 \in DOMAIN down /\ Head(down) = down[1] /\ Head(down) \in Range(down)
    BY <1>0, <2>1, TailFacts DEF Range
  <2>4. PICK r : r = rec
    OBVIOUS
  <2>5. r \in Records /\ Sound(r)
    BY <1>0, <2>1, <2>3, <2>4, KnownFacts
  <2>6. Covered(r)' = Covered(r)
    BY <1>0, <2>5, EffectStays, RevocationAssumption
  <2>7. ASSUME NEW f \in Covered(r)
        PROVE  f \notin pending' /\ Message("call", f) \notin Range(down')
    <3>1. Heard(r) /\ \A j \in DOMAIN down : j > 1 => down[j] # Message("call", f)
      BY <2>1, <2>3, <2>4, <2>7 DEF IInv, SentOK
    <3>2. \A i \in DOMAIN down' : i \in Nat /\ i + 1 \in DOMAIN down /\ down'[i] = down[i + 1]
      BY <1>0, <2>1, TailFacts
    <3>3. \A i \in DOMAIN down' : i + 1 > 1
      <4>1. down' \in Seq(Messages)
        BY <1>0, <2>1, TailFacts
      <4>2. DOMAIN down' = 1 .. Len(down')
        BY <4>1, LenProperties
      <4> QED BY <4>2
    <3>4. Message("call", f) \notin Range(down')
      BY <3>1, <3>2, <3>3 DEF Range
    <3> QED BY <2>1, <2>7, <3>1, <3>4 DEF Heard
  <2>8. ASSUME Complete(failed), NEW f \in Covered(r)
        PROVE  call'[f] # "run" /\ session'[f] # "run" /\ work'[f] # "run"
    <3>1. f \in matching /\ f \in Families
      BY <2>4, <2>8 DEF Covered
    <3>2. <<"session", f>> \notin failed /\ <<"job", f>> \notin failed
      BY <2>8 DEF Complete
    <3> HIDE DEF matching
    <3>3. call'[f] = IF call[f] = "run" THEN "cancelled" ELSE call[f]
      BY <2>2, <3>1
    <3>4. session'[f] = IF session[f] = "run" THEN "ending" ELSE session[f]
      BY <2>2, <3>1, <3>2
    <3>5. work'[f] = IF work[f] = "run" THEN "cancelled" ELSE work[f]
      BY <2>2, <3>1, <3>2
    <3> QED BY <3>3, <3>4, <3>5
  <2>9. ASSUME Complete(failed) PROVE Stopped(r)'
    <3>1. \A f \in Covered(r) : ~Running(f)'
      BY <2>7, <2>8, <2>9 DEF Running
    <3> QED BY <2>6, <3>1 DEF Stopped
  <2>10. \A a \in applying' : a \in applying \/ (a.rec = r /\ a.complete = Complete(failed))
    BY <2>2, <2>4
  <2> QED BY <1>2, <2>9, <2>10 DEF AppliedOK
<1>5. CASE ~Apply
  BY <1>2, <1>3, <1>5 DEF AppliedOK
<1> QED BY <1>4, <1>5

LEMMA AnsweredStep ==
    ASSUME IInv, Room, Next
    PROVE  AnsweredOK'
<1> USE DEF authorities, worker, channel, daemon, bounds
<1>0. /\ TypeOK /\ FiniteOK /\ GrantsOK /\ RecordsOK /\ AppliedOK /\ up \in Seq(Nat \ {0})
      /\ nextId \in Nat /\ queue \subseteq Known
  BY KnownFacts DEF IInv, TypeOK
<1>1. \A x \in Known : x \in Records /\ (Stopped(x) => Stopped(x)')
  BY <1>0, KnownFacts, EffectStays, RevocationAssumption
<1>2. ASSUME NEW i \in DOMAIN up
      PROVE  up[i] \in Nat /\ up[i] < nextId /\ \A r \in queue : r.id = up[i] => Stopped(r)'
  <2>1. up[i] \in Nat
    BY <1>0, <1>2, ElementOfSeq, LenProperties
  <2> QED BY <1>0, <1>1, <1>2, <2>1 DEF IInv, AnsweredOK
<1>3. ASSUME \A i \in DOMAIN up' : \E j \in DOMAIN up : up'[i] = up[j],
             queue' \subseteq queue, nextId' = nextId
      PROVE  AnsweredOK'
  BY <1>2, <1>3 DEF AnsweredOK
<1>4. CASE Ends
  <2>1. PICK r \in Records : EndStep(r)
    BY <1>4, EndSteps
  <2>2. r.id = nextId /\ nextId' = nextId + 1 /\ queue' \subseteq queue \cup {r} /\ up' = up
    BY <2>1 DEF EndStep
  <2>3. ASSUME NEW i \in DOMAIN up PROVE up[i] < nextId' /\ r.id # up[i]
    BY <1>0, <1>2, <2>2
  <2> QED BY <1>2, <2>2, <2>3 DEF AnsweredOK
<1>5. CASE Acknowledge
  <2>1. up # <<>> /\ up' = Tail(up) /\ queue' \subseteq queue /\ nextId' = nextId
    BY <1>5 DEF Acknowledge
  <2>2. \A i \in DOMAIN up' : \E j \in DOMAIN up : up'[i] = up[j]
    BY <1>0, <2>1, TailFacts
  <2> QED BY <1>3, <2>1, <2>2
<1>6. CASE Applied
  <2>1. PICK a \in applying : a.complete /\ up' = Append(up, a.rec.id)
    BY <1>6 DEF Applied
  <2>2. queue' = queue /\ nextId' = nextId
    BY <1>6 DEF Applied
  <2>3. /\ a.rec \in Known /\ a.rec.id < nextId /\ \A r \in queue : r.id = a.rec.id => r = a.rec
    BY <1>0, <2>1, KnownFacts
  <2>4. Stopped(a.rec)'
    BY <1>0, <1>1, <2>1, <2>3 DEF AppliedOK
  <2>5. a.rec.id \in Nat \ {0}
    BY <1>1, <2>3 DEF Records
  <2>6. ASSUME NEW i \in DOMAIN up'
        PROVE  (\E j \in DOMAIN up : up'[i] = up[j]) \/ up'[i] = a.rec.id
    BY <1>0, <2>1, <2>5, <2>6, AppendFacts
  <2>7. ASSUME NEW i \in DOMAIN up'
        PROVE  up'[i] < nextId' /\ \A r \in queue' : r.id = up'[i] => Stopped(r)'
    <3>1. CASE \E j \in DOMAIN up : up'[i] = up[j]
      BY <1>2, <2>2, <3>1
    <3>2. CASE up'[i] = a.rec.id
      BY <2>2, <2>3, <2>4, <3>2
    <3> QED BY <2>6, <2>7, <3>1, <3>2
  <2> QED BY <2>7 DEF AnsweredOK
<1>7. ASSUME ~Ends, ~Acknowledge, ~Applied
      PROVE  AnsweredOK'
  <2>1. queue' = queue /\ nextId' = nextId
    BY <1>7, OtherSteps DEF OtherStep
  <2>2. ASSUME Traffic \/ ReceiveCall \/ Apply PROVE up' = up
    BY <1>7, <2>2 DEF Traffic, Flush, Alarm, Probe, Promote, ReceiveCall, Apply
  <2>3. ASSUME Drop \/ Interrupt PROVE up' = <<>>
    BY <2>3 DEF Drop, Interrupt, Lose
  <2>4. ASSUME NEW f \in Families,
               \/ Authorize(f) \/ Dispatch(f) \/ Redeliver(f) \/ StartSession(f) \/ StartJob(f)
               \/ EndCall(f) \/ EndSession(f)
        PROVE  up' = up
    BY <2>4 DEF Authorize, Dispatch, Redeliver, StartSession, StartJob, EndCall, EndSession
  <2>5. up' = up \/ up' = <<>>
    BY <1>7, <2>2, <2>3, <2>4 DEF Next, Local, Ends
  <2>6. \A i \in DOMAIN up' : \E j \in DOMAIN up : up'[i] = up[j]
    BY <2>5
  <2> QED BY <1>3, <2>1, <2>6
<1> QED BY <1>4, <1>5, <1>6, <1>7

LEMMA QueueStep ==
    ASSUME IInv, Room, Next
    PROVE  RevokedWorkStaysQueued'
<1>0. /\ TypeOK /\ FiniteOK /\ GrantsOK /\ RecordsOK /\ AnsweredOK /\ queue \subseteq Records
      /\ up \in Seq(Nat \ {0}) /\ AuthorityStep
  BY AuthoritySteps DEF IInv, TypeOK
<1>1. ASSUME NEW f \in Families, Ended(f)', Running(f)'
      PROVE  \E r \in queue' : Covers(r, Scope(f))'
  <2>1. CASE Ended(f)
    <3>1. Ended(f)' /\ grant'[f] = grant[f] /\ Running(f)
      BY <1>0, <1>1, <2>1, EndedStays, IdleStays, RevocationAssumption
    <3>2. PICK r \in queue : Covers(r, Scope(f))
      BY <2>1, <3>1 DEF IInv, RevokedWorkStaysQueued
    <3>3. \A x : Covers(x, Scope(f))' <=> Covers(x, Scope(f))
      BY <3>1 DEF Covers, Scope
    <3>4. CASE r \in queue'
      BY <3>2, <3>3, <3>4
    <3>5. CASE r \notin queue' /\ Ends
      <4>1. PICK x \in Records : EndStep(x)
        BY <3>5, EndSteps
      <4>2. x \in queue' /\ Covers(x, r)
        BY <3>5, <4>1 DEF EndStep
      <4>3. Covers(x, Scope(f))
        BY <1>0, <3>2, <4>2, CoversFacts
      <4> QED BY <3>3, <4>2, <4>3
    <3>6. CASE r \notin queue' /\ ~Ends
      <4>1. Acknowledge
        BY <3>6, OtherSteps DEF OtherStep
      <4>2. up # <<>> /\ r.id = Head(up)
        BY <3>6, <4>1 DEF Acknowledge
      <4>3. Stopped(r)
        BY <1>0, <4>2, TailFacts DEF AnsweredOK
      <4>4. f \in Covered(r)
        BY <3>2 DEF Covered
      <4> QED BY <3>1, <4>3, <4>4 DEF Stopped
    <3> QED BY <3>4, <3>5, <3>6
  <2>2. CASE ~Ended(f)
    <3>1. Ends
      <4>1. SUFFICES ASSUME ~Ends PROVE FALSE
        OBVIOUS
      <4>2. OtherStep
        BY <4>1, OtherSteps
      <4>3. version' = version /\ removed' = removed /\ revoked' = revoked
        BY <4>2 DEF OtherStep
      <4>4. grant'[f] # grant[f]
        BY <1>1, <2>2, <4>3 DEF Ended, Current
      <4>5. grant[f] = 0 /\ grant'[f] = version /\ ClientOf[f] \notin removed
        BY <1>0, <4>4 DEF AuthorityStep
      <4>6. f \notin revoked
        BY <1>0, <4>5 DEF GrantsOK
      <4> QED BY <1>1, <4>3, <4>5, <4>6 DEF Ended, Current
    <3>2. PICK x \in Records : EndStep(x)
      BY <3>1, EndSteps
    <3>3. PICK r \in queue' : Covers(r, Scope(f))
      BY <1>1, <2>2, <3>2 DEF EndStep
    <3>4. Covers(r, Scope(f))'
      BY <3>2, <3>3 DEF EndStep, Covers, Scope
    <3> QED BY <3>4
  <2> QED BY <2>1, <2>2
<1> QED BY <1>1 DEF RevokedWorkStaysQueued

(* On a sequence of messages, no call follows a record that covers it. *)
Precedes(q, x, i) == \A f \in Covered(x), j \in DOMAIN q : j > i => q[j] # Message("call", f)

LEMMA HeardStep ==
    ASSUME IInv, Room, Next
    PROVE  /\ \A x \in Known : x \in Records /\ Covered(x)' = Covered(x) /\ (Heard(x) => Heard(x)')
           /\ \A r \in queue' \ flush' : Heard(r)'
           /\ \A r \in probed' : Heard(r)'
           /\ Flush => \A r \in flush : Heard(r)'
<1> USE DEF authorities, worker, channel, daemon, bounds
<1>0. /\ TypeOK /\ FiniteOK /\ GrantsOK /\ RecordsOK
      /\ queue \subseteq Known /\ flush \subseteq Known /\ probed \subseteq Known
  BY KnownFacts DEF IInv
<1>1. \A x \in Known : x \in Records /\ Covered(x)' = Covered(x) /\ (Heard(x) => Heard(x)')
  BY <1>0, KnownFacts, EffectStays, RevocationAssumption
<1>2. (\A r \in queue \ flush : Heard(r)') /\ (\A r \in probed : Heard(r)')
  BY <1>0, <1>1 DEF IInv, SentOK
<1>3. ASSUME Flush PROVE \A r \in flush : Heard(r)'
  <2>1. pending' = {f \in pending : ~\E r \in flush : Covers(r, Scope(f))}
    BY <1>3 DEF Flush
  <2>2. ASSUME NEW r \in flush PROVE Heard(r)'
    <3>1. Covered(r)' = Covered(r)
      BY <1>0, <1>1
    <3>2. Covered(r) \cap pending' = {}
      BY <2>1 DEF Covered
    <3> QED BY <3>1, <3>2 DEF Heard
  <2> QED BY <2>2
<1>4. \A r \in queue' \ flush' : Heard(r)'
  <2>1. CASE Ends
    <3>1. PICK r \in Records : EndStep(r)
      BY <2>1, EndSteps
    <3> QED BY <3>1 DEF EndStep
  <2>2. CASE Flush
    <3>1. queue' = queue
      BY <2>2 DEF Flush
    <3> QED BY <1>2, <1>3, <2>2, <3>1
  <2>3. CASE Alarm
    BY <2>3 DEF Alarm, Unacknowledged
  <2>4. CASE ~Ends /\ ~Flush /\ ~Alarm
    <3>1. queue' \subseteq queue
      BY <2>4, OtherSteps DEF OtherStep, Acknowledge
    <3>2. ASSUME Traffic \/ Local \/ Drop PROVE flush' = flush
      BY <2>4, <3>2 DEF Traffic, Local, Drop, Probe, Promote, Acknowledge, ReceiveCall, Apply, Applied, Interrupt
    <3>3. ASSUME NEW f \in Families,
                 \/ Authorize(f) \/ Dispatch(f) \/ Redeliver(f) \/ StartSession(f) \/ StartJob(f)
                 \/ EndCall(f) \/ EndSession(f)
          PROVE  flush' = flush
      BY <3>3 DEF Authorize, Dispatch, Redeliver, StartSession, StartJob, EndCall, EndSession
    <3>4. flush' = flush
      BY <2>4, <3>2, <3>3 DEF Next, Ends
    <3> QED BY <1>2, <3>1, <3>4
  <2> QED BY <2>1, <2>2, <2>3, <2>4
<1>5. \A r \in probed' : Heard(r)'
  <2>1. CASE Probe
    <3>1. probed' = queue /\ flush = {}
      BY <2>1 DEF Probe
    <3> QED BY <1>2, <3>1
  <2>2. CASE ~Probe
    <3>1. ASSUME Ends PROVE probed' = probed
      BY <3>1 DEF Ends, EndVersion, RemoveClient, RevokeFamily, Commit
    <3>2. ASSUME Traffic \/ Local \/ Drop PROVE probed' \in {probed, {}}
      BY <2>2, <3>2 DEF Traffic, Local, Drop, Lose, Flush, Alarm, Promote, Acknowledge, ReceiveCall, Apply,
                        Applied, Interrupt
    <3>3. ASSUME NEW f \in Families,
                 \/ Authorize(f) \/ Dispatch(f) \/ Redeliver(f) \/ StartSession(f) \/ StartJob(f)
                 \/ EndCall(f) \/ EndSession(f)
          PROVE  probed' = probed
      BY <3>3 DEF Authorize, Dispatch, Redeliver, StartSession, StartJob, EndCall, EndSession
    <3>4. probed' \in {probed, {}}
      BY <3>1, <3>2, <3>3 DEF Next, Ends
    <3> QED BY <1>2, <3>4
  <2> QED BY <2>1, <2>2
<1> QED BY <1>1, <1>3, <1>4, <1>5

LEMMA SentStep ==
    ASSUME IInv, Room, Next
    PROVE  SentOK'
<1> USE DEF authorities, worker, channel, daemon, bounds
<1>0. /\ TypeOK /\ FiniteOK /\ GrantsOK /\ RecordsOK /\ down \in Seq(Messages)
      /\ flush \in SUBSET Records /\ probed \in SUBSET Records /\ IsFiniteSet(flush) /\ IsFiniteSet(probed)
      /\ flush \subseteq Known /\ probed \subseteq Known
  BY KnownFacts DEF IInv, TypeOK, FiniteOK
<1>1. \A x \in Known : x \in Records /\ Covered(x)' = Covered(x) /\ (Heard(x) => Heard(x)')
  BY HeardStep
<1>2. ASSUME NEW i \in DOMAIN down, down[i].type = "revoke", NEW x, x = down[i].about
      PROVE  x \in Records /\ Sound(x) /\ Heard(x)' /\ Covered(x)' = Covered(x) /\ Precedes(down, x, i)
  <2>1. x \in Known /\ down[i] \in Range(down)
    BY <1>0, <1>2, KnownFacts DEF Range
  <2>2. Heard(x) /\ Precedes(down, x, i)
    BY <1>2 DEF IInv, SentOK, Precedes
  <2> QED BY <1>0, <1>1, <2>1, <2>2, KnownFacts
<1>3. ASSUME NEW x \in flush \cup probed PROVE x \in Known /\ Covered(x)' = Covered(x)
  BY <1>0, <1>1, <1>3
<1>m. \A f \in Families : Message("call", f).type # "revoke"
  BY DEF Message
<1>4. ASSUME NEW i \in DOMAIN down', down'[i].type = "revoke", NEW x, x = down'[i].about
      PROVE  Heard(x)' /\ Covered(x)' = Covered(x) /\ Precedes(down', x, i)
  <2>u. ASSUME down' = down PROVE Heard(x)' /\ Covered(x)' = Covered(x) /\ Precedes(down', x, i)
    BY <1>2, <1>4, <2>u
  <2>1. CASE Flush
    <3>1. CASE conn = "ready"
      <4>1. PICK order \in InOrder(flush) : down' = down \o Wire(order)
        BY <2>1, <3>1 DEF Flush
      <4>w. PICK w : w = Wire(order)
        OBVIOUS
      <4>2. /\ w \in Seq(Messages)
            /\ \A j \in DOMAIN w : w[j].type = "revoke" /\ w[j].about \in flush
        BY <1>0, <4>w, WireFacts
      <4>3. /\ \A j \in DOMAIN down' :
                  \/ j \in DOMAIN down /\ down'[j] = down[j]
                  \/ j \notin DOMAIN down /\ \E k \in DOMAIN w : down'[j] = w[k]
            /\ \A j, k \in DOMAIN down' : j \notin DOMAIN down /\ k > j => k \notin DOMAIN down
        BY <1>0, <4>1, <4>w, <4>2, ConcatFacts
      <4>4. \A j \in DOMAIN down' : j \notin DOMAIN down =>
               down'[j].type = "revoke" /\ down'[j].about \in flush
        BY <4>2, <4>3
      <4>5. CASE i \in DOMAIN down
        <5>1. Heard(x)' /\ Covered(x)' = Covered(x) /\ Precedes(down, x, i)
          BY <1>2, <1>4, <4>3, <4>5
        <5>2. ASSUME NEW f \in Covered(x), NEW j \in DOMAIN down', j > i
              PROVE  down'[j] # Message("call", f)
          <6>1. f \in Families
            BY DEF Covered
          <6> QED BY <1>m, <4>3, <4>4, <5>1, <5>2, <6>1 DEF Precedes
        <5> QED BY <5>1, <5>2 DEF Precedes
      <4>6. CASE i \notin DOMAIN down
        <5>1. x \in flush /\ Heard(x)' /\ Covered(x)' = Covered(x)
          BY <1>3, <1>4, <2>1, <4>4, <4>6, HeardStep
        <5>2. ASSUME NEW f \in Covered(x), NEW j \in DOMAIN down', j > i
              PROVE  down'[j] # Message("call", f)
          <6>1. f \in Families
            BY DEF Covered
          <6> QED BY <1>m, <4>3, <4>4, <4>6, <5>2, <6>1
        <5> QED BY <5>1, <5>2 DEF Precedes
      <4> QED BY <4>5, <4>6
    <3>2. CASE conn # "ready"
      BY <2>1, <2>u, <3>2 DEF Flush
    <3> QED BY <3>1, <3>2
  <2>2. CASE Promote
    <3>1. PICK order \in InOrder(probed) : down' = Wire(order)
      BY <2>2 DEF Promote
    <3>2. \A j \in DOMAIN down' : down'[j].type = "revoke" /\ down'[j].about \in probed
      BY <1>0, <3>1, WireFacts
    <3>3. Heard(x) /\ x \in probed
      BY <1>4, <3>2 DEF IInv, SentOK
    <3>4. \A f \in Covered(x) : f \in Families
      BY DEF Covered
    <3> QED BY <1>0, <1>1, <1>m, <3>2, <3>3, <3>4 DEF Precedes
  <2>3. CASE Drop \/ Interrupt
    BY <1>4, <2>3 DEF Drop, Interrupt, Lose
  <2>4. CASE ReceiveCall \/ Apply
    <3>1. down # <<>> /\ down' = Tail(down)
      BY <2>4 DEF ReceiveCall, Apply
    <3>2. \A j \in DOMAIN down' : j \in Nat /\ j + 1 \in DOMAIN down /\ down'[j] = down[j + 1]
      BY <1>0, <3>1, TailFacts
    <3>3. Heard(x)' /\ Covered(x)' = Covered(x) /\ Precedes(down, x, i + 1)
      BY <1>2, <1>4, <3>2
    <3>4. Precedes(down', x, i)
      BY <3>2, <3>3 DEF Precedes
    <3> QED BY <3>3, <3>4
  <2>5. ASSUME NEW g \in Families, Dispatch(g) \/ Redeliver(g)
        PROVE  Heard(x)' /\ Covered(x)' = Covered(x) /\ Precedes(down', x, i)
    <3>1. /\ down' = Append(down, Message("call", g)) /\ Message("call", g) \in Messages
          /\ Current(g) \/ g \in pending
      BY <2>5, MessageFacts DEF Dispatch, Redeliver
    <3>2. \A j \in DOMAIN down' :
             \/ j \in DOMAIN down /\ down'[j] = down[j]
             \/ down'[j] = Message("call", g)
      BY <1>0, <3>1, AppendFacts
    <3>3. i \in DOMAIN down /\ x = down[i].about /\ down[i].type = "revoke"
      BY <1>4, <1>m, <3>2
    <3>4. x \in Records /\ Sound(x) /\ Heard(x)' /\ Covered(x)' = Covered(x) /\ Precedes(down, x, i)
      BY <1>2, <3>3
    <3>5. g \notin Covered(x)
      <4>1. ASSUME g \in Covered(x) PROVE ~Current(g)
        BY <1>0, <3>4, <4>1, SoundCovers, RevocationAssumption DEF Ended
      <4>2. ASSUME g \in pending PROVE g \notin Covered(x)
        BY <3>3, <4>2 DEF IInv, SentOK, Heard
      <4> QED BY <3>1, <4>1, <4>2
    <3>6. \A f \in Families : Message("call", f) = Message("call", g) => f = g
      BY DEF Message
    <3>7. ASSUME NEW f \in Covered(x), NEW j \in DOMAIN down', j > i
          PROVE  down'[j] # Message("call", f)
      <4>1. f \in Families /\ f # g
        BY <3>5 DEF Covered
      <4> QED BY <3>2, <3>4, <3>6, <3>7, <4>1 DEF Precedes
    <3> QED BY <3>4, <3>7 DEF Precedes
  <2>6. ASSUME Ends PROVE down' = down
    BY <2>6 DEF Ends, EndVersion, RemoveClient, RevokeFamily, Commit
  <2>7. ASSUME Alarm \/ Probe \/ Acknowledge \/ Applied PROVE down' = down
    BY <2>7 DEF Alarm, Probe, Acknowledge, Applied
  <2>8. ASSUME NEW g \in Families,
               Authorize(g) \/ StartSession(g) \/ StartJob(g) \/ EndCall(g) \/ EndSession(g)
        PROVE  down' = down
    BY <2>8 DEF Authorize, StartSession, StartJob, EndCall, EndSession
  <2> HIDE DEF authorities, worker, channel, daemon, bounds
  <2> QED BY <2>u, <2>1, <2>2, <2>3, <2>4, <2>5, <2>6, <2>7, <2>8 DEF Next, Traffic, Local, Ends
<1>5. (\A r \in queue' \ flush' : Heard(r)') /\ (\A r \in probed' : Heard(r)')
  BY HeardStep
<1>6. ASSUME NEW i \in DOMAIN down', down'[i].type = "revoke"
      PROVE  /\ Heard(down[i].about)'
             /\ \A f \in Covered(down[i].about)' :
                   \A j \in DOMAIN down' : j > i => down'[j] # Message("call", f)
  <2>x. PICK x : x = down'[i].about
    OBVIOUS
  <2>1. Heard(x)' /\ Covered(x)' = Covered(x) /\ Precedes(down', x, i)
    BY <1>4, <1>6, <2>x
  <2>2. Covered(down[i].about)' = Covered(x)'
    BY <2>x DEF Covered, Covers, Scope
  <2>3. Heard(down[i].about)'
    BY <2>1, <2>2 DEF Heard
  <2> QED BY <2>1, <2>2, <2>3 DEF Precedes
<1> QED BY <1>5, <1>6 DEF SentOK

LEMMA Start ==
    ASSUME Init
    PROVE  IInv
<1> USE RevocationAssumption DEF Init
<1>1. TypeOK
  <2>1. IsFiniteSet({}) /\ Cardinality({}) = 0
    BY FS_EmptySet
  <2>2. <<>> \in Seq(Messages) /\ <<>> \in Seq(Nat \ {0})
    OBVIOUS
  <2> QED BY <2>1, <2>2 DEF TypeOK
<1>2. FiniteOK
  BY FS_EmptySet DEF FiniteOK
<1>3. GrantsOK
  BY DEF GrantsOK
<1>4. RecordsOK
  BY DEF RecordsOK, Known, Sending
<1>5. SentOK
  BY DEF SentOK
<1>6. AppliedOK /\ AnsweredOK
  BY DEF AppliedOK, AnsweredOK
<1>7. StoppedOK
  BY DEF StoppedOK
<1>8. RevokedWorkStaysQueued
  BY DEF RevokedWorkStaysQueued, Ended
<1> QED BY <1>1, <1>2, <1>3, <1>4, <1>5, <1>6, <1>7, <1>8 DEF IInv

LEMMA Stutter ==
    ASSUME IInv, UNCHANGED vars
    PROVE  IInv'
<1> USE DEF IInv, vars, authorities, worker, channel, daemon, bounds
<1>1. TypeOK'
  BY DEF TypeOK
<1>2. FiniteOK' /\ GrantsOK'
  BY DEF FiniteOK, GrantsOK
<1>3. RecordsOK'
  BY DEF RecordsOK, Known, Sending, Sound
<1>4. SentOK'
  BY DEF SentOK, Heard, Covered, Covers, Scope
<1>5. AppliedOK' /\ AnsweredOK'
  BY DEF AppliedOK, AnsweredOK, Stopped, Running, Covered, Covers, Scope
<1>6. StoppedOK'
  BY DEF StoppedOK, Ended, Current
<1>7. RevokedWorkStaysQueued'
  BY DEF RevokedWorkStaysQueued, Running, Ended, Current, Covers, Scope
<1> QED BY <1>1, <1>2, <1>3, <1>4, <1>5, <1>6, <1>7

-----------------------------------------------------------------------------
(* The theorems. *)

\* The stored queue stays within MAX_AUTHORITY_REVOCATIONS whatever is merged
\* into it, and every record, message and job keeps to its type: the type
\* invariant, for any number of families and with or without room.
THEOREM TypeCorrect == Spec => []TypeOK
<1>1. Init => TypeOK /\ FiniteOK
  BY Start DEF IInv
<1>2. TypeOK /\ FiniteOK /\ [Next]_vars => (TypeOK /\ FiniteOK)'
  <2>1. ASSUME TypeOK, FiniteOK, Next PROVE (TypeOK /\ FiniteOK)'
    BY <2>1, TypeStep, FiniteStep
  <2>2. ASSUME TypeOK, FiniteOK, UNCHANGED vars PROVE (TypeOK /\ FiniteOK)'
    BY <2>2 DEF TypeOK, FiniteOK, vars, authorities, worker, channel, daemon, bounds
  <2> QED BY <2>1, <2>2
<1> QED BY <1>1, <1>2, PTL DEF Spec

LEMMA Inductive == Spec /\ []Room => []IInv
<1>1. Init => IInv
  BY Start
<1>2. IInv /\ Room /\ [Next]_vars => IInv'
  <2>1. ASSUME IInv, Room, Next PROVE IInv'
    <3>1. TypeOK /\ FiniteOK /\ GrantsOK
      BY <2>1 DEF IInv
    <3>2. TypeOK' /\ FiniteOK' /\ GrantsOK'
      BY <2>1, <3>1, TypeStep, FiniteStep, GrantsStep
    <3>3. RecordsOK' /\ SentOK' /\ AppliedOK' /\ AnsweredOK'
      BY <2>1, RecordsStep, SentStep, AppliedStep, AnsweredStep
    <3>4. StoppedOK' /\ RevokedWorkStaysQueued'
      BY <2>1, StoppedStep, QueueStep
    <3> QED BY <3>2, <3>3, <3>4 DEF IInv
  <2>2. ASSUME IInv, UNCHANGED vars PROVE IInv'
    BY <2>2, Stutter
  <2> QED BY <2>1, <2>2
<1> QED BY <1>1, <1>2, PTL DEF Spec

\* As long as the queue has room for one more record, a revocation is
\* acknowledged only after everything it covers has been stopped: work of an
\* ended authority that still runs, waits or is under way always finds a record
\* that stops it in the queue.
THEOREM WorkStaysQueued == Spec /\ []Room => []RevokedWorkStaysQueued
<1>1. IInv => RevokedWorkStaysQueued
  BY DEF IInv
<1> QED BY <1>1, Inductive, PTL

\* As long as the queue has room, no end of a family, a client or a version
\* stops the work of an authority that still holds.
THEOREM Targeted == Spec /\ []Room => []OnlyRevokedStopped
<1>1. IInv => OnlyRevokedStopped
  BY DEF IInv, StoppedOK, OnlyRevokedStopped, Ended
<1> QED BY <1>1, Inductive, PTL
===============================================================================
