------------------------- MODULE PendingCallsProofs -------------------------
(* Theorems of PendingCalls, and at the end of ToolCalls, for every set of   *)
(* calls, channels and instances, every timeout and every grace.             *)
(*                                                                           *)
(* Almost everything the registry guarantees is local to one record, so the  *)
(* argument is: RecordOK holds of every record, each record operator keeps   *)
(* it and takes a step of CallOwnership (the lemmas below), and each action  *)
(* applies those operators to a set of records.                              *)
EXTENDS ToolCalls, TLAPS

(* What is true of one record at any time.  A record not pending is one of   *)
(* two constants; a pending one waits on the timer of its phase, within the  *)
(* ceiling, and its owner is a channel of its own instance.                  *)
Ceiling(r) == Larger(r.original + DeliveryGrace, r.age + 1)

RecordOK(r) ==
    /\ r \in Record
    /\ r.status = "new" => r = NewRecord
    /\ r.status = "settled" =>
         /\ r = Settled(r, r.outcome, r.answeredBy)
         /\ r.outcome # "none"
         /\ r.outcome = "answered" <=> r.answeredBy # NoChannel
    /\ r.status = "pending" =>
         /\ r.instance \in Instances
         /\ r.answeredBy = NoChannel
         /\ r.opTimer <=> r.owner # NoChannel
         /\ r.reDeadline # 0 <=> r.owner = NoChannel
         /\ r.deadline <= Ceiling(r) /\ r.reDeadline <= Ceiling(r)
         /\ r.owner # NoChannel => InstanceOf[r.owner] = r.instance

(* The step a record takes is one CallOwnership allows. *)
Simulates(r, s) == Ownership!CallStep(OwnershipOf(r), OwnershipOf(s))

(* A call nobody has dispatched has a sound record. *)
LEMMA NewRecordOK == RecordOK(NewRecord)
BY RecordsAssumption, PendingAssumption DEF RecordOK, Record, NewRecord, Outcomes, Failures

(* add: the record of a call just sent is sound, and sent to its instance. *)
LEMMA RegisteredOK ==
    ASSUME NEW c \in Calls, NEW ch \in Channels
    PROVE  /\ RecordOK(Registered(c, ch, InstanceOf[ch]))
           /\ Registered(c, ch, InstanceOf[ch]).status = "pending"
           /\ Registered(c, ch, InstanceOf[ch]).owner = ch
           /\ Simulates(NewRecord, Registered(c, ch, InstanceOf[ch]))
<1> DEFINE r == Registered(c, ch, InstanceOf[ch])
<1>a. Timeout[c] \in Nat /\ InstanceOf[ch] \in Instances /\ DeliveryGrace \in Nat
  BY RecordsAssumption, PendingAssumption
<1>b. /\ r \in Record /\ r.status = "pending" /\ r.owner = ch
      /\ r.instance = InstanceOf[ch] /\ r.answeredBy = NoChannel
      /\ r.opTimer = TRUE /\ r.reDeadline = 0 /\ r.age = 0
      /\ r.original = Timeout[c] /\ r.deadline = Timeout[c]
  BY <1>a DEF Registered, Record, NewRecord, Outcomes, Failures
<1>c. r.deadline <= Ceiling(r) /\ r.reDeadline <= Ceiling(r)
  BY <1>a, <1>b DEF Ceiling, Larger
<1>1. RecordOK(r) /\ r.status = "pending" /\ r.owner = ch
  BY <1>a, <1>b, <1>c, RecordsAssumption DEF RecordOK
<1>2. Simulates(NewRecord, r)
  BY RecordsAssumption, PendingAssumption DEF Simulates, Registered, NewRecord, OwnershipOf, Ownership!CallStep,
         Ownership!Send, Ownership!Unsent, Ownership!HeldBy
<1> QED BY <1>1, <1>2

(* detachSocket: the reconnect timer replaces the operation timer, and the   *)
(* call is orphaned but never given more than one grace.                     *)
LEMMA DetachedOK ==
    ASSUME NEW r, RecordOK(r), r.status = "pending", r.owner # NoChannel
    PROVE  /\ RecordOK(Detached(r))
           /\ Detached(r).status = "pending"
           /\ Detached(r).owner = NoChannel
           /\ Simulates(r, Detached(r))
<1> DEFINE e == ExtendedForReconnect(r)
           d == Detached(r)
<1>1. /\ e \in Record /\ e.age = r.age /\ e.original = r.original
      /\ e.status = "pending" /\ e.instance = r.instance
      /\ e.answeredBy = NoChannel
      /\ e.deadline <= Ceiling(r)
  BY RecordsAssumption, PendingAssumption DEF RecordOK, Record, ExtendedForReconnect, Ceiling, Larger
<1>2. /\ Remaining(e) \in Nat \ {0}
      /\ e.age + Smaller(ReconnectGrace, Remaining(e)) \in Nat \ {0}
      /\ e.age + Smaller(ReconnectGrace, Remaining(e)) <= Ceiling(r)
  BY <1>1, RecordsAssumption, PendingAssumption DEF Record, Remaining, Smaller, Ceiling, Larger
<1>3. d = [e EXCEPT !.owner = NoChannel, !.opTimer = FALSE,
                    !.reDeadline = e.age + Smaller(ReconnectGrace, Remaining(e))]
  BY RecordsAssumption, PendingAssumption DEF Detached
<1> HIDE DEF e, d
<1>4. /\ d \in Record /\ d.status = "pending" /\ d.owner = NoChannel
      /\ d.instance = r.instance /\ d.answeredBy = NoChannel
      /\ d.opTimer = FALSE /\ d.reDeadline # 0
      /\ d.age = r.age /\ d.original = r.original
      /\ d.deadline <= Ceiling(r) /\ d.reDeadline <= Ceiling(r)
  BY <1>1, <1>2, <1>3, RecordsAssumption, PendingAssumption DEF Record
<1>5. Ceiling(d) = Ceiling(r)
  BY <1>4, RecordsAssumption, PendingAssumption DEF Ceiling
<1>6. RecordOK(d)
  BY <1>4, <1>5, RecordsAssumption, PendingAssumption DEF RecordOK
<1>7. Simulates(r, d)
  BY <1>4, RecordsAssumption, PendingAssumption DEF RecordOK, Simulates, OwnershipOf, Ownership!CallStep, Ownership!Orphan
<1> QED BY <1>4, <1>6, <1>7, RecordsAssumption, PendingAssumption DEF d

(* rebindInstance: a call moves to a channel of its own instance, the        *)
(* operation timer replaces the reconnect timer, within the same ceiling.    *)
LEMMA ReboundOK ==
    ASSUME NEW r, NEW ch \in Channels, RecordOK(r), r.status = "pending",
           r.instance = InstanceOf[ch]
    PROVE  /\ RecordOK(Rebound(r, ch))
           /\ Rebound(r, ch).status = "pending"
           /\ Rebound(r, ch).owner = ch
           /\ Simulates(r, Rebound(r, ch))
<1> DEFINE e == ExtendedForReconnect(r)
           b == Rebound(r, ch)
           reD == IF r.owner = NoChannel THEN 0 ELSE e.reDeadline
<1>1. /\ e \in Record /\ e.age = r.age /\ e.original = r.original
      /\ e.status = "pending" /\ e.instance = r.instance
      /\ e.answeredBy = NoChannel /\ e.reDeadline = r.reDeadline
      /\ e.deadline <= Ceiling(r)
  BY RecordsAssumption, PendingAssumption DEF RecordOK, Record, ExtendedForReconnect, Ceiling, Larger
<1>2. /\ e.age + Remaining(e) \in Nat
      /\ e.age + Remaining(e) <= Ceiling(r)
      /\ reD = 0
  BY <1>1, RecordsAssumption, PendingAssumption DEF Record, RecordOK, Remaining, Ceiling, Larger
<1>3. b = [e EXCEPT !.owner = ch, !.opTimer = TRUE, !.reDeadline = reD,
                    !.deadline = e.age + Remaining(e)]
  BY RecordsAssumption, PendingAssumption DEF Rebound
<1> HIDE DEF e, b, reD
<1>4. /\ b \in Record /\ b.status = "pending" /\ b.owner = ch
      /\ b.instance = r.instance /\ b.answeredBy = NoChannel
      /\ b.opTimer = TRUE /\ b.reDeadline = 0
      /\ b.age = r.age /\ b.original = r.original
      /\ b.deadline <= Ceiling(r)
  BY <1>1, <1>2, <1>3, RecordsAssumption, PendingAssumption DEF Record
<1>5. Ceiling(b) = Ceiling(r) /\ Ceiling(r) \in Nat
  BY <1>4, RecordsAssumption, PendingAssumption DEF Ceiling, Larger, RecordOK, Record
<1>6. RecordOK(b)
  BY <1>4, <1>5, RecordsAssumption, PendingAssumption DEF RecordOK
<1>7. Simulates(r, b)
  BY <1>4, RecordsAssumption, PendingAssumption DEF RecordOK, Simulates, OwnershipOf, Ownership!CallStep, Ownership!Move,
              Ownership!HeldBy
<1> QED BY <1>4, <1>6, <1>7, RecordsAssumption, PendingAssumption DEF b

(* finish with an error: a pending call fails, whoever held it. *)
LEMMA SettledOK ==
    ASSUME NEW r, RecordOK(r), r.status = "pending",
           NEW outcome \in Failures
    PROVE  /\ RecordOK(Settled(r, outcome, NoChannel))
           /\ Settled(r, outcome, NoChannel).status = "settled"
           /\ Simulates(r, Settled(r, outcome, NoChannel))
<1> DEFINE s == Settled(r, outcome, NoChannel)
<1>1. RecordOK(s) /\ s.status = "settled"
  <2>1. /\ s.status = "settled" /\ s.outcome = outcome /\ s.answeredBy = NoChannel
        /\ s.redelivered = r.redelivered
    BY DEF Settled, NewRecord
  <2>2. s \in Record
    <3>1. outcome \in Outcomes
      BY DEF Outcomes
    <3>2. r.redelivered \in Channels \cup {NoChannel}
      BY DEF RecordOK, Record
    <3> QED BY <3>1, <3>2, RecordsAssumption DEF Settled, NewRecord, Record
  <2>3. s = Settled(s, s.outcome, s.answeredBy)
    BY <2>1 DEF Settled
  <2> HIDE DEF s
  <2> QED BY <2>1, <2>2, <2>3, RecordsAssumption, PendingAssumption DEF RecordOK, Failures
<1>2. Simulates(r, s)
  BY RecordsAssumption, PendingAssumption DEF RecordOK, Settled, NewRecord, Failures, Simulates, OwnershipOf,
         Ownership!CallStep, Ownership!Fail, Ownership!Failed
<1> QED BY <1>1, <1>2

(* A terminal result of the owner: the call is answered by who holds it. *)
LEMMA AnsweredOK ==
    ASSUME NEW r, NEW ch \in Channels, RecordOK(r), r.status = "pending", r.owner = ch
    PROVE  /\ RecordOK(Settled(r, "answered", ch))
           /\ Settled(r, "answered", ch).status = "settled"
           /\ Simulates(r, Settled(r, "answered", ch))
<1> DEFINE s == Settled(r, "answered", ch)
<1>1. RecordOK(s) /\ s.status = "settled"
  <2>1. /\ s.status = "settled" /\ s.outcome = "answered" /\ s.answeredBy = ch
        /\ s.redelivered = r.redelivered
    BY DEF Settled, NewRecord
  <2>2. s \in Record
    <3>1. "answered" \in Outcomes
      BY DEF Outcomes
    <3>2. r.redelivered \in Channels \cup {NoChannel}
      BY DEF RecordOK, Record
    <3> QED BY <3>1, <3>2, RecordsAssumption DEF Settled, NewRecord, Record
  <2>3. s = Settled(s, s.outcome, s.answeredBy)
    BY <2>1 DEF Settled
  <2> HIDE DEF s
  <2> QED BY <2>1, <2>2, <2>3, RecordsAssumption, PendingAssumption DEF RecordOK
<1>2. Simulates(r, s)
  BY RecordsAssumption, PendingAssumption DEF RecordOK, Settled, NewRecord, Simulates, OwnershipOf,
         Ownership!CallStep, Ownership!Answer, Ownership!AnsweredBy
<1> QED BY <1>1, <1>2
-----------------------------------------------------------------------------
(* The registry operators, on every record at once.  After any of them but   *)
(* a settlement the same calls are pending.                                  *)

AllOK == rec \in [Calls -> Record] /\ \A c \in Calls : RecordOK(rec[c])
AllSimulate == \A c \in Calls : Simulates(rec[c], rec'[c])

(* A record left alone takes no step of CallOwnership. *)
LEMMA StutterSimulates == ASSUME NEW r PROVE Simulates(r, r)
BY DEF Simulates, Ownership!CallStep

(* A handler that leaves the registry alone keeps all its records sound. *)
LEMMA SameRecords ==
    ASSUME AllOK, UNCHANGED rec
    PROVE  AllOK' /\ AllSimulate /\ Pending(rec)' = Pending(rec)
BY StutterSimulates DEF AllOK, AllSimulate, Pending

(* detachSocket on the whole registry: nothing is settled, and the lost      *)
(* channel owns nothing any more.                                            *)
LEMMA DetachRecords ==
    ASSUME AllOK, NEW ch \in Channels, rec' = DetachSocket(rec, ch)
    PROVE  /\ AllOK' /\ AllSimulate
           /\ Pending(rec)' = Pending(rec)
           /\ \A c \in Pending(rec) : rec'[c].owner \in {rec[c].owner, NoChannel}
           /\ \A c \in Pending(rec) : rec'[c].owner # ch
<1>1. \A c \in OwnedBy(rec, ch) :
        /\ RecordOK(Detached(rec[c])) /\ Simulates(rec[c], Detached(rec[c]))
        /\ Detached(rec[c]).status = "pending" /\ Detached(rec[c]).owner = NoChannel
  BY DetachedOK, RecordsAssumption DEF AllOK, OwnedBy, Pending
<1>2. \A c \in Calls : rec'[c] = IF c \in OwnedBy(rec, ch)
                                THEN Detached(rec[c]) ELSE rec[c]
  BY DEF DetachSocket
<1>3. AllOK'
  BY <1>1, <1>2 DEF AllOK, DetachSocket, RecordOK
<1>4. AllSimulate
  BY <1>1, <1>2, StutterSimulates DEF AllSimulate
<1>5. Pending(rec)' = Pending(rec)
  BY <1>1, <1>2 DEF Pending, OwnedBy
<1>6. \A c \in Pending(rec) : rec'[c].owner \in {rec[c].owner, NoChannel} /\ rec'[c].owner # ch
  BY <1>1, <1>2, RecordsAssumption DEF Pending, OwnedBy
<1> QED BY <1>3, <1>4, <1>5, <1>6

(* rebindInstance on the whole registry: nothing is settled, and owners      *)
(* change to the new channel only.                                           *)
LEMMA RebindRecords ==
    ASSUME AllOK, NEW ch \in Channels, rec' = RebindInstance(rec, InstanceOf[ch], ch)
    PROVE  /\ AllOK' /\ AllSimulate
           /\ Pending(rec)' = Pending(rec)
           /\ \A c \in Pending(rec) : rec'[c].owner \in {rec[c].owner, ch}
<1> DEFINE S == ReboundCalls(rec, InstanceOf[ch], ch)
<1>1. \A c \in S :
        /\ RecordOK(Rebound(rec[c], ch)) /\ Simulates(rec[c], Rebound(rec[c], ch))
        /\ Rebound(rec[c], ch).status = "pending" /\ Rebound(rec[c], ch).owner = ch
  BY ReboundOK DEF AllOK, ReboundCalls, Pending
<1>2. \A c \in Calls : rec'[c] = IF c \in S THEN Rebound(rec[c], ch) ELSE rec[c]
  BY DEF RebindInstance
<1>3. AllOK'
  BY <1>1, <1>2 DEF AllOK, RebindInstance, RecordOK
<1>4. AllSimulate
  BY <1>1, <1>2, StutterSimulates DEF AllSimulate
<1>5. Pending(rec)' = Pending(rec)
  BY <1>1, <1>2 DEF Pending, ReboundCalls
<1>6. \A c \in Pending(rec) : rec'[c].owner \in {rec[c].owner, ch}
  BY <1>1, <1>2 DEF Pending
<1> QED BY <1>3, <1>4, <1>5, <1>6

(* Time makes no record unsound: the ceiling of an overdue call rises with   *)
(* its age.                                                                  *)
LEMMA AgedRecords ==
    ASSUME AllOK, rec' = Aged(rec)
    PROVE  /\ AllOK' /\ AllSimulate
           /\ Pending(rec)' = Pending(rec)
           /\ \A c \in Pending(rec) : rec'[c].owner = rec[c].owner
<1> DEFINE older(r) == [r EXCEPT !.age = @ + 1]
<1>1. ASSUME NEW r, RecordOK(r), r.status = "pending"
      PROVE  /\ RecordOK(older(r)) /\ older(r).status = "pending"
             /\ older(r).owner = r.owner
             /\ OwnershipOf(older(r)) = OwnershipOf(r)
  <2>1. /\ older(r) \in Record /\ older(r).status = "pending"
        /\ older(r).owner = r.owner /\ older(r).instance = r.instance
        /\ older(r).original = r.original /\ older(r).age = r.age + 1
        /\ older(r).deadline = r.deadline /\ older(r).reDeadline = r.reDeadline
        /\ older(r).opTimer = r.opTimer /\ older(r).answeredBy = r.answeredBy
    BY <1>1 DEF RecordOK, Record
  <2>2. Ceiling(r) <= Ceiling(older(r)) /\ Ceiling(r) \in Nat /\ Ceiling(older(r)) \in Nat
    BY <1>1, <2>1, RecordsAssumption DEF Ceiling, Larger, RecordOK, Record
  <2>3. older(r).deadline <= Ceiling(older(r)) /\ older(r).reDeadline <= Ceiling(older(r))
    BY <1>1, <2>1, <2>2 DEF RecordOK, Record
  <2>4. RecordOK(older(r))
    BY <1>1, <2>1, <2>3 DEF RecordOK
  <2>5. OwnershipOf(older(r)) = OwnershipOf(r)
    BY <1>1, <2>1 DEF OwnershipOf
  <2> QED BY <2>1, <2>4, <2>5
<1>2. \A c \in Calls : rec'[c] = IF c \in Pending(rec) THEN older(rec[c]) ELSE rec[c]
  BY DEF Aged
<1>3. \A c \in Pending(rec) :
        /\ RecordOK(older(rec[c])) /\ older(rec[c]).status = "pending"
        /\ older(rec[c]).owner = rec[c].owner
        /\ Simulates(rec[c], older(rec[c]))
  BY <1>1 DEF AllOK, Pending, Simulates, Ownership!CallStep
<1> HIDE DEF older
<1>4. rec' \in [Calls -> Record]
  BY <1>2, <1>3 DEF AllOK, Aged, RecordOK, older
<1>5. AllOK' /\ AllSimulate
  BY <1>2, <1>3, <1>4, StutterSimulates DEF AllOK, AllSimulate
<1>6. Pending(rec)' = Pending(rec)
  BY <1>2, <1>3 DEF Pending
<1>7. \A c \in Pending(rec) : rec'[c].owner = rec[c].owner
  BY <1>2, <1>3 DEF Pending
<1> QED BY <1>5, <1>6, <1>7

(* Failing any set of pending calls leaves the others as they were. *)
LEMMA SettleRecords ==
    ASSUME AllOK, NEW S \in SUBSET Calls, NEW outcome \in Failures,
           rec' = SettleAll(rec, S, outcome)
    PROVE  /\ AllOK' /\ AllSimulate
           /\ Pending(rec)' = Pending(rec) \ S
           /\ \A c \in Pending(rec)' : rec'[c] = rec[c]
<1>1. \A c \in S \cap Pending(rec) :
        /\ RecordOK(Settled(rec[c], outcome, NoChannel))
        /\ Simulates(rec[c], Settled(rec[c], outcome, NoChannel))
        /\ Settled(rec[c], outcome, NoChannel).status = "settled"
  BY SettledOK DEF AllOK, Pending
<1>2. \A c \in Calls : rec'[c] = IF c \in S \cap Pending(rec)
                                THEN Settled(rec[c], outcome, NoChannel) ELSE rec[c]
  BY DEF SettleAll
<1>3. AllOK'
  BY <1>1, <1>2 DEF AllOK, SettleAll, RecordOK
<1>4. AllSimulate
  BY <1>1, <1>2, StutterSimulates DEF AllSimulate
<1>5. Pending(rec)' = Pending(rec) \ S
  BY <1>1, <1>2 DEF Pending
<1>6. \A c \in Pending(rec)' : rec'[c] = rec[c]
  BY <1>2, <1>5 DEF Pending
<1> QED BY <1>3, <1>4, <1>5, <1>6

(* A terminal result settles its call if its sender owns it, else nothing. *)
LEMMA AnswerRecords ==
    ASSUME AllOK, NEW c \in Calls, NEW ch \in Channels, rec' = Answer(rec, c, ch)
    PROVE  /\ AllOK' /\ AllSimulate
           /\ Pending(rec)' = Pending(rec) \ ({c} \cap OwnedBy(rec, ch))
           /\ \A x \in Pending(rec)' : rec'[x] = rec[x]
<1>1. CASE c \in OwnedBy(rec, ch)
  <2> DEFINE s == Settled(rec[c], "answered", ch)
  <2>1. RecordOK(s) /\ s.status = "settled" /\ Simulates(rec[c], s)
    BY <1>1, AnsweredOK DEF AllOK, OwnedBy, Pending
  <2>2. rec' = [rec EXCEPT ![c] = s]
    BY <1>1 DEF Answer, ResultOwnership, OwnedBy
  <2> HIDE DEF s
  <2>3. AllOK' /\ AllSimulate
    BY <2>1, <2>2, StutterSimulates DEF AllOK, AllSimulate, RecordOK
  <2> QED BY <1>1, <2>1, <2>2, <2>3 DEF AllOK, Pending
<1>2. CASE c \notin OwnedBy(rec, ch)
  <2>1. rec' = rec
    BY <1>2 DEF Answer, ResultOwnership, OwnedBy
  <2> QED BY <1>2, <2>1, SameRecords DEF AllOK, Pending
<1> QED BY <1>1, <1>2
-----------------------------------------------------------------------------
(* The inductive invariant: type correctness, the local invariant of every   *)
(* record, and what relates records to the index, the channels and the       *)
(* revocations.  RevocationSticks alone is not inductive: while a flush is   *)
(* under way, every matching pending call must be among its captured ids.    *)
FlushCovers ==
    /\ flush.scopes \subseteq revoked
    /\ flushed \subseteq revoked
    /\ \A s \in flush.scopes : \A c \in Pending(rec) : Matches(c, s) => c \in flush.ids

IInv ==
    /\ TypeOK
    /\ AllOK
    /\ RequestIndexConsistent
    /\ OwnerIsOpen
    /\ FlushCovers
    /\ RevocationSticks

(* An empty registry satisfies the invariant. *)
LEMMA InitOK == Init => IInv
<1> SUFFICES ASSUME Init PROVE IInv
  OBVIOUS
<1>1. AllOK
  BY NewRecordOK DEF Init, AllOK, RecordOK
<1>2. Pending(rec) = {}
  BY DEF Init, Pending, NewRecord
<1>3. TypeOK
  BY <1>1 DEF Init, TypeOK, AllOK, Idle
<1> QED BY <1>1, <1>2, <1>3 DEF Init, IInv, RequestIndexConsistent, OwnerIsOpen,
        FlushCovers, RevocationSticks, Idle

(* Settling calls: the index loses exactly the keys of the settled calls. *)
LEMMA IndexAfterSettling ==
    ASSUME IInv, NEW S \in SUBSET Calls,
           byRequestKey' = Unindexed(S \cap Pending(rec)),
           Pending(rec)' = Pending(rec) \ S
    PROVE  /\ RequestIndexConsistent'
           /\ byRequestKey' \in [RequestKeys -> Calls \cup {NoCall}]
BY PendingAssumption DEF IInv, TypeOK, RequestIndexConsistent, Unindexed, Pending

(* Every action that ends with Fail, whatever it does to the captured ids.   *)
LEMMA FailOK ==
    ASSUME IInv, NEW S \in SUBSET Calls, NEW outcome \in Failures, Fail(S, outcome)
    PROVE  /\ AllOK' /\ AllSimulate
           /\ RequestIndexConsistent'
           /\ byRequestKey' \in [RequestKeys -> Calls \cup {NoCall}]
           /\ Pending(rec)' = Pending(rec) \ S
           /\ \A c \in Pending(rec)' : rec'[c] = rec[c]
<1>1. /\ AllOK' /\ AllSimulate
      /\ Pending(rec)' = Pending(rec) \ S
      /\ \A c \in Pending(rec)' : rec'[c] = rec[c]
  BY SettleRecords DEF IInv, Fail
<1>2. /\ RequestIndexConsistent'
      /\ byRequestKey' \in [RequestKeys -> Calls \cup {NoCall}]
  BY <1>1, IndexAfterSettling DEF Fail
<1> QED BY <1>1, <1>2

(* expireRecord is such an action, whichever error it picks. *)
LEMMA ExpireOK ==
    ASSUME IInv, NEW c \in Calls, Expire(c)
    PROVE  /\ AllOK' /\ AllSimulate
           /\ RequestIndexConsistent'
           /\ byRequestKey' \in [RequestKeys -> Calls \cup {NoCall}]
           /\ Pending(rec)' = Pending(rec) \ {c}
           /\ \A x \in Pending(rec)' : rec'[x] = rec[x]
<1>1. ExpiryOutcome(rec[c]) \in Failures
  BY DEF ExpiryOutcome, Failures
<1> QED BY <1>1, FailOK DEF Expire

(* What is left of the invariant when a step only settles calls. *)
LEMMA SettlingKeeps ==
    ASSUME IInv, NEW S \in SUBSET Calls,
           Pending(rec)' = Pending(rec) \ S,
           \A c \in Pending(rec)' : rec'[c] = rec[c],
           \A ch \in Channels : channel'[ch] \in {"unused", "closed"} =>
                                    channel'[ch] = channel[ch],
           UNCHANGED <<revoked, flushed>>,
           flush'.scopes = flush.scopes,
           \A c \in flush.ids \ S : c \in flush'.ids
    PROVE  OwnerIsOpen' /\ FlushCovers' /\ RevocationSticks'
<1>1. OwnerIsOpen'
  BY DEF IInv, TypeOK, AllOK, Record, OwnerIsOpen, Pending
<1>2. FlushCovers' /\ RevocationSticks'
  BY DEF IInv, FlushCovers, RevocationSticks, Matches
<1> QED BY <1>1, <1>2

(* What is left of it when the same calls stay pending. *)
LEMMA MovingKeeps ==
    ASSUME IInv, Pending(rec)' = Pending(rec),
           UNCHANGED <<byRequestKey, revoked, flush, flushed>>
    PROVE  RequestIndexConsistent' /\ FlushCovers' /\ RevocationSticks'
<1>1. RequestIndexConsistent'
  BY DEF IInv, RequestIndexConsistent
<1>2. FlushCovers' /\ RevocationSticks'
  BY DEF IInv, FlushCovers, RevocationSticks, Matches
<1> QED BY <1>1, <1>2
-----------------------------------------------------------------------------
(* One lemma per kind of action. *)

(* Dispatch: the authority test under the lock is what keeps RevocationSticks,*)
(* and the test for a free key what keeps RequestIndexConsistent.            *)
LEMMA DispatchOK ==
    ASSUME IInv, NEW c \in Calls, NEW ch \in Channels, NEW sent \in BOOLEAN,
           Dispatch(c, ch, sent)
    PROVE  IInv' /\ AllSimulate
<1> DEFINE r == Registered(c, ch, InstanceOf[ch])
<1>1. /\ RecordOK(r) /\ r.status = "pending" /\ r.owner = ch
      /\ Simulates(rec[c], r)
  BY RegisteredOK DEF Dispatch, IInv, AllOK, RecordOK
<1>2. rec' = [rec EXCEPT ![c] = r]
  BY DEF Dispatch
<1> HIDE DEF r
<1>3. AllOK' /\ AllSimulate
  BY <1>1, <1>2, StutterSimulates DEF IInv, AllOK, AllSimulate, RecordOK
<1>4. Pending(rec)' = Pending(rec) \cup {c} /\ c \notin Pending(rec)
  BY <1>1, <1>2 DEF IInv, AllOK, Pending, Dispatch
<1>5. RequestIndexConsistent' /\ byRequestKey' \in [RequestKeys -> Calls \cup {NoCall}]
  <2> DEFINE k == KeyOf[c]
  <2>1. /\ k \in RequestKeys \cup {NoKey} /\ NoKey \notin RequestKeys
        /\ k # NoKey => byRequestKey[k] = NoCall
        /\ byRequestKey \in [RequestKeys -> Calls \cup {NoCall}]
        /\ byRequestKey' = IF k = NoKey THEN byRequestKey
                           ELSE [byRequestKey EXCEPT ![k] = c]
    BY PendingAssumption DEF IInv, TypeOK, Dispatch, Registrable
  <2>2. CASE k = NoKey
    BY <1>4, <2>1, <2>2 DEF IInv, RequestIndexConsistent
  <2>3. CASE k # NoKey
    <3>1. byRequestKey' = [byRequestKey EXCEPT ![k] = c] /\ k \in RequestKeys
      BY <2>1, <2>3
    <3>2. \A x \in Pending(rec) : KeyOf[x] # k
      BY <2>1, <2>3, PendingAssumption DEF IInv, RequestIndexConsistent, Pending
    <3>3. \A x \in Pending(rec) : KeyOf[x] \in RequestKeys \cup {NoKey}
      BY PendingAssumption DEF Pending
    <3> HIDE DEF k
    <3>4. \A j \in RequestKeys : byRequestKey'[j] # NoCall =>
            byRequestKey'[j] \in Pending(rec)' /\ KeyOf[byRequestKey'[j]] = j
      BY <1>4, <2>1, <3>1 DEF IInv, RequestIndexConsistent, k
    <3>5. \A x \in Pending(rec)' : KeyOf[x] # NoKey => byRequestKey'[KeyOf[x]] = x
      BY <1>4, <2>1, <3>1, <3>2, <3>3 DEF IInv, RequestIndexConsistent, k
    <3> QED BY <2>1, <3>1, <3>4, <3>5 DEF RequestIndexConsistent
  <2> QED BY <2>2, <2>3
<1>6. OwnerIsOpen'
  BY <1>1, <1>2, <1>4 DEF IInv, AllOK, OwnerIsOpen, Dispatch, Ready, Pending
<1>7. FlushCovers' /\ RevocationSticks'
  <2>1. /\ UNCHANGED <<revoked, flush, flushed>>
        /\ \A s \in revoked : ~Matches(c, s)
    BY DEF Dispatch, AuthorityCurrent
  <2>2. FlushCovers'
    BY <1>4, <2>1 DEF IInv, FlushCovers
  <2>3. RevocationSticks'
    BY <1>4, <2>1 DEF IInv, FlushCovers, RevocationSticks
  <2> QED BY <2>2, <2>3
<1>8. TypeOK'
  BY <1>3, <1>5 DEF IInv, AllOK, TypeOK, Dispatch
<1> QED BY <1>3, <1>5, <1>6, <1>7, <1>8 DEF IInv

(* Promotion, its failure, loss and cleanup of a channel. *)
LEMMA ChannelsOK ==
    ASSUME IInv,
           NEW ch \in Channels,
           Promote(ch) \/ PromotionFails(ch) \/ LoseChannel(ch) \/ CleanUp(ch)
    PROVE  IInv' /\ AllSimulate
<1>1. CASE Promote(ch)
  <2>1. /\ AllOK' /\ AllSimulate /\ Pending(rec)' = Pending(rec)
        /\ \A c \in Pending(rec) : rec'[c].owner \in {rec[c].owner, ch}
    BY <1>1, RebindRecords DEF Promote, IInv
  <2>2. OwnerIsOpen'
    BY <1>1, <2>1, RecordsAssumption DEF Promote, Ready, IInv, TypeOK, Record, OwnerIsOpen, AllOK, Pending
  <2>3. TypeOK'
    <3>1. ReboundCalls(rec, InstanceOf[ch], ch) \in SUBSET Calls
      BY DEF ReboundCalls, Pending
    <3> QED BY <1>1, <2>1, <3>1 DEF Promote, Ready, IInv, TypeOK, AllOK
  <2> QED BY <1>1, <2>1, <2>2, <2>3, MovingKeeps DEF Promote, IInv
<1>2. CASE PromotionFails(ch)
  <2>1. /\ AllOK' /\ AllSimulate /\ Pending(rec)' = Pending(rec)
        /\ \A c \in Pending(rec) : rec'[c].owner \in {rec[c].owner, ch}
    BY <1>2, RebindRecords DEF PromotionFails, IInv
  <2>2. OwnerIsOpen'
    BY <1>2, <2>1, RecordsAssumption DEF PromotionFails, IInv, TypeOK, Record, OwnerIsOpen, AllOK, Pending
  <2>3. TypeOK'
    BY <1>2, <2>1 DEF PromotionFails, IInv, TypeOK, AllOK
  <2> QED BY <1>2, <2>1, <2>2, <2>3, MovingKeeps DEF PromotionFails, IInv
<1>3. CASE LoseChannel(ch)
  <2>1. AllOK' /\ AllSimulate /\ Pending(rec)' = Pending(rec)
    BY <1>3, SameRecords DEF LoseChannel, IInv
  <2>2. OwnerIsOpen' /\ TypeOK'
    BY <1>3, <2>1 DEF LoseChannel, IInv, TypeOK, OwnerIsOpen
  <2> QED BY <1>3, <2>1, <2>2, MovingKeeps DEF LoseChannel, IInv
<1>4. CASE CleanUp(ch)
  <2>1. /\ AllOK' /\ AllSimulate /\ Pending(rec)' = Pending(rec)
        /\ \A c \in Pending(rec) : rec'[c].owner \in {rec[c].owner, NoChannel}
        /\ \A c \in Pending(rec) : rec'[c].owner # ch
    BY <1>4, DetachRecords DEF CleanUp, IInv
  <2>2. OwnerIsOpen'
    BY <1>4, <2>1 DEF CleanUp, IInv, TypeOK, OwnerIsOpen, Record, Pending
  <2>3. TypeOK'
    BY <1>4, <2>1 DEF CleanUp, IInv, TypeOK, AllOK
  <2> QED BY <1>4, <2>1, <2>2, <2>3, MovingKeeps DEF CleanUp, IInv
<1> QED BY <1>1, <1>2, <1>3, <1>4

(* The calls a failed promotion hands back go to a channel that is open. *)
LEMMA FallbackOK ==
    ASSUME IInv, FallbackRebind
    PROVE  IInv' /\ AllSimulate
<1>1. CASE Ready(fallback)
  <2>1. fallback \in Channels
    BY DEF FallbackRebind, IInv, TypeOK
  <2>2. /\ AllOK' /\ AllSimulate /\ Pending(rec)' = Pending(rec)
        /\ \A c \in Pending(rec) : rec'[c].owner \in {rec[c].owner, fallback}
    BY <1>1, <2>1, RebindRecords DEF FallbackRebind, IInv
  <2>3. OwnerIsOpen' /\ TypeOK'
    BY <1>1, <2>2 DEF FallbackRebind, Ready, IInv, TypeOK, OwnerIsOpen, AllOK
  <2> QED BY <2>2, <2>3, MovingKeeps DEF FallbackRebind, IInv
<1>2. CASE ~Ready(fallback)
  <2>1. AllOK' /\ AllSimulate /\ Pending(rec)' = Pending(rec) /\ UNCHANGED rec
    BY <1>2, SameRecords DEF FallbackRebind, IInv
  <2>2. OwnerIsOpen' /\ TypeOK'
    BY <2>1 DEF FallbackRebind, IInv, TypeOK, OwnerIsOpen, AllOK
  <2> QED BY <2>1, <2>2, MovingKeeps DEF FallbackRebind, IInv
<1> QED BY <1>1, <1>2

(* Time passing. *)
LEMMA TickOK ==
    ASSUME IInv, Tick
    PROVE  IInv' /\ AllSimulate
<1>1. /\ AllOK' /\ AllSimulate /\ Pending(rec)' = Pending(rec)
      /\ \A c \in Pending(rec) : rec'[c].owner = rec[c].owner
  BY AgedRecords DEF Tick, IInv
<1>2. OwnerIsOpen' /\ TypeOK'
  BY <1>1 DEF Tick, IInv, TypeOK, OwnerIsOpen, AllOK
<1> QED BY <1>1, <1>2, MovingKeeps DEF Tick, IInv
-----------------------------------------------------------------------------
(* Actions that settle calls. *)

(* The outcomes the handlers name are failures. *)
LEMMA FailuresAre ==
    {"send_failed", "disconnected", "cancelled", "revoked", "not_received"} \subseteq Failures
BY DEF Failures

(* A call that could not be sent. *)
LEMMA UnsentOK ==
    ASSUME IInv, NEW c \in Calls, HandleUnsent(c)
    PROVE  IInv' /\ AllSimulate
<1> DEFINE S == {c} \cap OwnedBy(rec, unsent[c])
<1>1. /\ AllOK' /\ AllSimulate /\ RequestIndexConsistent'
      /\ byRequestKey' \in [RequestKeys -> Calls \cup {NoCall}]
      /\ Pending(rec)' = Pending(rec) \ S
      /\ \A x \in Pending(rec)' : rec'[x] = rec[x]
  BY FailOK, FailuresAre DEF HandleUnsent
<1> HIDE DEF S
<1>2. OwnerIsOpen' /\ FlushCovers' /\ RevocationSticks'
  <2>1. \A ch \in Channels : channel'[ch] \in {"unused", "closed"} =>
                                channel'[ch] = channel[ch]
    BY DEF HandleUnsent, Ready, IInv, TypeOK
  <2>2. S \in SUBSET Calls
    BY DEF S
  <2> QED BY <1>1, <2>1, <2>2, SettlingKeeps DEF HandleUnsent
<1>3. TypeOK'
  BY <1>1, RecordsAssumption DEF HandleUnsent, IInv, TypeOK, AllOK
<1> QED BY <1>1, <1>2, <1>3 DEF IInv

(* A planned drain. *)
LEMMA DrainOK ==
    ASSUME IInv, NEW ch \in Channels, Drain(ch)
    PROVE  IInv' /\ AllSimulate
<1> DEFINE S == OwnedBy(rec, ch)
<1>0. S \in SUBSET Calls
  BY DEF OwnedBy, Pending
<1>1. /\ AllOK' /\ AllSimulate /\ RequestIndexConsistent'
      /\ byRequestKey' \in [RequestKeys -> Calls \cup {NoCall}]
      /\ Pending(rec)' = Pending(rec) \ S
      /\ \A x \in Pending(rec)' : rec'[x] = rec[x]
  BY <1>0, FailOK, FailuresAre DEF Drain
<1> HIDE DEF S
<1>2. OwnerIsOpen' /\ FlushCovers' /\ RevocationSticks'
  <2>1. \A x \in Channels : channel'[x] \in {"unused", "closed"} =>
                                channel'[x] = channel[x]
    BY DEF Drain, IInv, TypeOK
  <2> QED BY <1>0, <1>1, <2>1, SettlingKeeps DEF Drain
<1>3. TypeOK'
  BY <1>1 DEF Drain, IInv, TypeOK, AllOK
<1> QED BY <1>1, <1>2, <1>3 DEF IInv

(* A terminal result. *)
LEMMA ToolResultOK ==
    ASSUME IInv, NEW c \in Calls, NEW ch \in Channels, ToolResult(c, ch)
    PROVE  IInv' /\ AllSimulate
<1> DEFINE S == {c} \cap OwnedBy(rec, ch)
<1>0. S \in SUBSET Calls
  OBVIOUS
<1>1. /\ AllOK' /\ AllSimulate
      /\ Pending(rec)' = Pending(rec) \ S
      /\ \A x \in Pending(rec)' : rec'[x] = rec[x]
  BY AnswerRecords DEF ToolResult, IInv
<1>2. RequestIndexConsistent' /\ byRequestKey' \in [RequestKeys -> Calls \cup {NoCall}]
  <2>1. S \cap Pending(rec) = S
    BY DEF OwnedBy
  <2> QED BY <1>0, <1>1, <2>1, IndexAfterSettling DEF ToolResult
<1> HIDE DEF S
<1>3. OwnerIsOpen' /\ FlushCovers' /\ RevocationSticks'
  BY <1>0, <1>1, SettlingKeeps DEF ToolResult
<1>4. TypeOK'
  BY <1>1, <1>2 DEF ToolResult, IInv, TypeOK, AllOK
<1> QED BY <1>1, <1>2, <1>3, <1>4 DEF IInv

(* A call the daemon proves it never received: kept, redelivered or rejected. *)
LEMMA ReportedMissingOK ==
    ASSUME IInv, NEW c \in Calls, NEW ch \in Channels, NEW sent \in BOOLEAN,
           ReportedMissing(c, ch, sent)
    PROVE  IInv' /\ AllSimulate
<1>1. CASE UNCHANGED <<rec, byRequestKey>>
  <2>1. AllOK' /\ AllSimulate /\ Pending(rec)' = Pending(rec)
    BY <1>1, SameRecords DEF IInv
  <2>2. OwnerIsOpen' /\ TypeOK'
    BY <1>1, <2>1 DEF ReportedMissing, IInv, TypeOK, OwnerIsOpen, AllOK
  <2> QED BY <1>1, <2>1, <2>2, MovingKeeps DEF ReportedMissing, IInv
<1>2. CASE /\ c \in OwnedBy(rec, ch)
           /\ rec' = [rec EXCEPT ![c].redelivered = ch]
           /\ UNCHANGED byRequestKey
  <2> DEFINE r == [rec[c] EXCEPT !.redelivered = ch]
  <2>1. /\ RecordOK(r) /\ r.status = "pending" /\ r.owner = rec[c].owner
        /\ OwnershipOf(r) = OwnershipOf(rec[c])
    <3>1. /\ RecordOK(rec[c]) /\ rec[c].status = "pending" /\ rec[c] \in Record
      BY <1>2 DEF IInv, AllOK, OwnedBy, Pending, RecordOK
    <3>2. /\ r \in Record /\ r.status = "pending" /\ r.owner = rec[c].owner
          /\ r.instance = rec[c].instance /\ r.answeredBy = rec[c].answeredBy
          /\ r.opTimer = rec[c].opTimer /\ r.reDeadline = rec[c].reDeadline
          /\ r.deadline = rec[c].deadline /\ r.age = rec[c].age
          /\ r.original = rec[c].original
      BY <3>1 DEF Record
    <3> HIDE DEF r
    <3> QED BY <3>1, <3>2 DEF RecordOK, OwnershipOf, Ceiling
  <2>2. rec' = [rec EXCEPT ![c] = r]
    BY <1>2 DEF IInv, AllOK, Record
  <2> HIDE DEF r
  <2>3. Simulates(rec[c], r)
    BY <2>1 DEF Simulates, Ownership!CallStep
  <2>4. AllOK' /\ AllSimulate
    BY <2>1, <2>2, <2>3, StutterSimulates DEF IInv, AllOK, AllSimulate, RecordOK
  <2>5. Pending(rec)' = Pending(rec)
    BY <1>2, <2>1, <2>2 DEF IInv, AllOK, Pending, OwnedBy
  <2>6. OwnerIsOpen'
    BY <2>1, <2>2, <2>5 DEF ReportedMissing, IInv, AllOK, OwnerIsOpen, Pending
  <2>7. TypeOK'
    BY <1>2, <2>4 DEF ReportedMissing, IInv, TypeOK, AllOK
  <2> QED BY <1>2, <2>4, <2>5, <2>6, <2>7, MovingKeeps DEF ReportedMissing, IInv
<1>3. CASE Fail({c}, "not_received")
  <2>1. /\ AllOK' /\ AllSimulate /\ RequestIndexConsistent'
        /\ byRequestKey' \in [RequestKeys -> Calls \cup {NoCall}]
        /\ Pending(rec)' = Pending(rec) \ {c}
        /\ \A x \in Pending(rec)' : rec'[x] = rec[x]
    BY <1>3, FailOK, FailuresAre
  <2>2. OwnerIsOpen' /\ FlushCovers' /\ RevocationSticks'
    BY <2>1, SettlingKeeps DEF ReportedMissing
  <2>3. TypeOK'
    BY <2>1 DEF ReportedMissing, IInv, TypeOK, AllOK
  <2> QED BY <2>1, <2>2, <2>3 DEF IInv
<1> QED BY <1>1, <1>2, <1>3 DEF ReportedMissing

(* One call fails, and nothing else changes but what a sweep or a flush has  *)
(* captured.                                                                 *)
LEMMA OneFailsOK ==
    ASSUME IInv, NEW S \in SUBSET Calls,
           AllOK', AllSimulate, RequestIndexConsistent',
           byRequestKey' \in [RequestKeys -> Calls \cup {NoCall}],
           Pending(rec)' = Pending(rec) \ S,
           \A x \in Pending(rec)' : rec'[x] = rec[x],
           UNCHANGED <<channel, resumed, unsent, fallback, revoked, flushed>>,
           due' \in SUBSET due,
           flush' = flush \/ flush' = [flush EXCEPT !.ids = @ \ S]
    PROVE  IInv' /\ AllSimulate
<1>1. flush' \in [active : BOOLEAN, scopes : SUBSET Scopes, ids : SUBSET Calls]
  BY DEF IInv, TypeOK
<1>2. flush'.scopes = flush.scopes /\ \A c \in flush.ids \ S : c \in flush'.ids
  BY DEF IInv, TypeOK
<1>3. OwnerIsOpen' /\ FlushCovers' /\ RevocationSticks'
  BY <1>2, SettlingKeeps
<1>4. TypeOK'
  BY <1>1 DEF IInv, TypeOK, AllOK
<1> QED BY <1>3, <1>4 DEF IInv

(* Cancellation by key or signal, and one call of a revocation flush. *)
LEMMA CancellationOK ==
    ASSUME IInv, NEW c \in Calls,
           Abort(c) \/ FlushOne(c) \/ \E k \in RequestKeys : CancelRequest(k) /\ c = byRequestKey[k]
    PROVE  IInv' /\ AllSimulate
<1>1. CASE Abort(c)
  <2>1. Fail({c}, "cancelled")
    BY <1>1 DEF Abort
  <2>2. /\ AllOK' /\ AllSimulate /\ RequestIndexConsistent'
        /\ byRequestKey' \in [RequestKeys -> Calls \cup {NoCall}]
        /\ Pending(rec)' = Pending(rec) \ {c}
        /\ \A x \in Pending(rec)' : rec'[x] = rec[x]
    BY <2>1, FailOK, FailuresAre
  <2>3. /\ UNCHANGED <<channel, resumed, unsent, fallback, revoked, flushed>>
        /\ due' \in SUBSET due
        /\ flush' = flush \/ flush' = [flush EXCEPT !.ids = @ \ {c}]
    BY <1>1 DEF Abort
  <2> QED BY <2>2, <2>3, OneFailsOK
<1>2. CASE FlushOne(c)
  <2>1. Fail({c}, "revoked")
    BY <1>2 DEF FlushOne
  <2>2. /\ AllOK' /\ AllSimulate /\ RequestIndexConsistent'
        /\ byRequestKey' \in [RequestKeys -> Calls \cup {NoCall}]
        /\ Pending(rec)' = Pending(rec) \ {c}
        /\ \A x \in Pending(rec)' : rec'[x] = rec[x]
    BY <2>1, FailOK, FailuresAre
  <2>3. /\ UNCHANGED <<channel, resumed, unsent, fallback, revoked, flushed>>
        /\ due' \in SUBSET due
        /\ flush' = flush \/ flush' = [flush EXCEPT !.ids = @ \ {c}]
    BY <1>2 DEF FlushOne
  <2> QED BY <2>2, <2>3, OneFailsOK
<1>3. ASSUME NEW k \in RequestKeys, CancelRequest(k), c = byRequestKey[k]
      PROVE  IInv' /\ AllSimulate
  <2>1. Fail({c}, "cancelled")
    BY <1>3 DEF CancelRequest
  <2>2. /\ AllOK' /\ AllSimulate /\ RequestIndexConsistent'
        /\ byRequestKey' \in [RequestKeys -> Calls \cup {NoCall}]
        /\ Pending(rec)' = Pending(rec) \ {c}
        /\ \A x \in Pending(rec)' : rec'[x] = rec[x]
    BY <2>1, FailOK, FailuresAre
  <2>3. /\ UNCHANGED <<channel, resumed, unsent, fallback, revoked, flushed>>
        /\ due' \in SUBSET due
        /\ flush' = flush \/ flush' = [flush EXCEPT !.ids = @ \ {c}]
    BY <1>3 DEF CancelRequest
  <2> QED BY <2>2, <2>3, OneFailsOK
<1> QED BY <1>1, <1>2, <1>3

(* The two timers of a record and one call of the overdue sweep. *)
LEMMA ExpiryOK ==
    ASSUME IInv, NEW c \in Calls, OperationTimer(c) \/ ReconnectTimer(c) \/ SweepOne(c)
    PROVE  IInv' /\ AllSimulate
<1>1. /\ AllOK' /\ AllSimulate /\ RequestIndexConsistent'
      /\ byRequestKey' \in [RequestKeys -> Calls \cup {NoCall}]
      /\ Pending(rec)' = Pending(rec) \ {c}
      /\ \A x \in Pending(rec)' : rec'[x] = rec[x]
  BY ExpireOK DEF OperationTimer, ReconnectTimer, SweepOne
<1>2. /\ UNCHANGED <<channel, resumed, unsent, fallback, revoked, flushed, flush>>
      /\ due' \in SUBSET due
  BY DEF OperationTimer, ReconnectTimer, SweepOne
<1> QED BY <1>1, <1>2, OneFailsOK

(* Steps that only record something: no call moves. *)
LEMMA BookkeepingOK ==
    ASSUME IInv,
           \/ \E s \in Scopes : CommitRevocation(s) \/ StartFlush(s)
           \/ FinishFlush \/ StartSweep
           \/ UNCHANGED vars
    PROVE  IInv' /\ AllSimulate
<1>1. UNCHANGED <<rec, byRequestKey, channel, resumed, unsent, fallback>>
  BY DEF CommitRevocation, StartFlush, FinishFlush, StartSweep, vars
<1>2. AllOK' /\ AllSimulate /\ Pending(rec)' = Pending(rec)
  BY <1>1, SameRecords DEF IInv
<1>3. RequestIndexConsistent' /\ OwnerIsOpen'
  BY <1>1, <1>2 DEF IInv, RequestIndexConsistent, OwnerIsOpen
<1>4. /\ due' \in SUBSET Calls /\ revoked' \in SUBSET Scopes
      /\ flush' \in [active : BOOLEAN, scopes : SUBSET Scopes, ids : SUBSET Calls]
      /\ flushed' \in SUBSET Scopes
  <2>1. Pending(rec) \subseteq Calls
    BY DEF Pending
  <2>2. ASSUME NEW s \in Scopes, CommitRevocation(s)
        PROVE  <1>4!:
    BY <2>2 DEF IInv, TypeOK, CommitRevocation
  <2>3. ASSUME NEW s \in Scopes, StartFlush(s)
        PROVE  <1>4!:
    <3>1. {c \in Pending(rec) : Matches(c, s)} \in SUBSET Calls /\ {s} \in SUBSET Scopes
      BY <2>1
    <3>2. flush' \in [active : BOOLEAN, scopes : SUBSET Scopes, ids : SUBSET Calls]
      BY <2>3, <3>1 DEF StartFlush
    <3> QED BY <2>3, <3>2 DEF IInv, TypeOK, StartFlush
  <2>4. CASE FinishFlush
    BY <2>4 DEF IInv, TypeOK, FinishFlush, Idle
  <2>5. CASE StartSweep
    BY <2>1, <2>5 DEF IInv, TypeOK, StartSweep
  <2>6. CASE UNCHANGED vars
    BY <2>6 DEF IInv, TypeOK, vars
  <2> QED BY <2>2, <2>4, <2>5, <2>6, <2>3
<1>5. TypeOK'
  BY <1>1, <1>2, <1>4 DEF IInv, TypeOK, AllOK
<1>6. FlushCovers' /\ RevocationSticks'
  <2>1. ASSUME NEW s \in Scopes, CommitRevocation(s)
        PROVE  FlushCovers' /\ RevocationSticks'
    BY <1>2, <2>1 DEF IInv, CommitRevocation, FlushCovers, RevocationSticks, Matches
  <2>2. ASSUME NEW s \in Scopes, StartFlush(s)
        PROVE  FlushCovers' /\ RevocationSticks'
    BY <1>2, <2>2 DEF IInv, StartFlush, FlushCovers, RevocationSticks, Matches
  <2>3. CASE FinishFlush
    BY <1>2, <2>3 DEF IInv, FinishFlush, FlushCovers, RevocationSticks, Matches, Idle
  <2>4. CASE StartSweep
    BY <1>2, <2>4 DEF IInv, StartSweep, FlushCovers, RevocationSticks, Matches
  <2>5. CASE UNCHANGED vars
    BY <1>2, <2>5 DEF IInv, vars, FlushCovers, RevocationSticks, Matches
  <2> QED BY <2>1, <2>2, <2>3, <2>4, <2>5
<1> QED BY <1>2, <1>3, <1>5, <1>6 DEF IInv

(* Every step keeps the invariant and is allowed by CallOwnership. *)
LEMMA NextOK == IInv /\ [Next]_vars => IInv' /\ AllSimulate
<1> SUFFICES ASSUME IInv, [Next]_vars PROVE IInv' /\ AllSimulate
  OBVIOUS
<1>1. ASSUME NEW c \in Calls, NEW ch \in Channels, NEW sent \in BOOLEAN,
             Dispatch(c, ch, sent)
      PROVE  IInv' /\ AllSimulate
  BY <1>1, DispatchOK
<1>2. ASSUME NEW c \in Calls, HandleUnsent(c) PROVE IInv' /\ AllSimulate
  BY <1>2, UnsentOK
<1>3. ASSUME NEW ch \in Channels,
             Promote(ch) \/ PromotionFails(ch) \/ LoseChannel(ch) \/ CleanUp(ch)
      PROVE  IInv' /\ AllSimulate
  BY <1>3, ChannelsOK
<1>4. CASE FallbackRebind
  BY <1>4, FallbackOK
<1>5. ASSUME NEW ch \in Channels, Drain(ch) PROVE IInv' /\ AllSimulate
  BY <1>5, DrainOK
<1>6. ASSUME NEW c \in Calls, NEW ch \in Channels, ToolResult(c, ch)
      PROVE  IInv' /\ AllSimulate
  BY <1>6, ToolResultOK
<1>7. ASSUME NEW c \in Calls, NEW ch \in Channels, NEW sent \in BOOLEAN,
             ReportedMissing(c, ch, sent)
      PROVE  IInv' /\ AllSimulate
  BY <1>7, ReportedMissingOK
<1>8. ASSUME NEW k \in RequestKeys, CancelRequest(k) PROVE IInv' /\ AllSimulate
  <2>1. byRequestKey[k] \in Calls
    BY <1>8 DEF CancelRequest, IInv, TypeOK
  <2> QED BY <1>8, <2>1, CancellationOK
<1>9. ASSUME NEW c \in Calls, Abort(c) \/ FlushOne(c) PROVE IInv' /\ AllSimulate
  BY <1>9, CancellationOK
<1>10. ASSUME NEW c \in Calls, OperationTimer(c) \/ ReconnectTimer(c) \/ SweepOne(c)
       PROVE  IInv' /\ AllSimulate
  BY <1>10, ExpiryOK
<1>11. CASE \/ \E s \in Scopes : CommitRevocation(s) \/ StartFlush(s)
            \/ FinishFlush \/ StartSweep
            \/ UNCHANGED vars
  BY <1>11, BookkeepingOK
<1>12. CASE Tick
  BY <1>12, TickOK
<1> QED BY <1>1, <1>2, <1>3, <1>4, <1>5, <1>6, <1>7, <1>8, <1>9, <1>10, <1>11, <1>12
        DEF Next

-----------------------------------------------------------------------------
(* The theorems. *)

(* The invariant holds in every reachable state. *)
THEOREM Invariance == Spec => []IInv
<1>1. Init => IInv
  BY InitOK
<1>2. IInv /\ [Next]_vars => IInv'
  BY NextOK
<1> QED BY <1>1, <1>2, PTL DEF Spec

(* Type correctness. *)
THEOREM TypeCorrect == Spec => []TypeOK
<1>1. IInv => TypeOK
  BY DEF IInv
<1> QED BY <1>1, Invariance, PTL

(* A pending call is always covered by exactly the timer of its phase: no    *)
(* sequence of detach, rebind and expiry leaves one without a timer.         *)
THEOREM AlwaysTimed == Spec => []TimersArmed
<1>1. IInv => TimersArmed
  <2> SUFFICES ASSUME IInv, NEW c \in Calls
               PROVE  /\ rec[c].opTimer <=> (c \in Pending(rec) /\ rec[c].owner # NoChannel)
                      /\ rec[c].reDeadline # 0 <=> (c \in Pending(rec) /\ rec[c].owner = NoChannel)
    BY DEF TimersArmed
  <2>1. RecordOK(rec[c]) /\ rec[c].status \in {"new", "pending", "settled"}
    BY DEF IInv, AllOK, Record
  <2>2. CASE rec[c].status = "pending"
    BY <2>1, <2>2 DEF RecordOK, Pending
  <2>3. CASE rec[c].status \in {"new", "settled"}
    <3> DEFINE s == Settled(rec[c], rec[c].outcome, rec[c].answeredBy)
    <3>a. s.opTimer = FALSE /\ s.reDeadline = 0
      BY DEF Settled, NewRecord
    <3>b. NewRecord.opTimer = FALSE /\ NewRecord.reDeadline = 0
      BY DEF NewRecord
    <3>c. rec[c] = NewRecord \/ rec[c] = s
      BY <2>1, <2>3 DEF RecordOK
    <3> HIDE DEF s
    <3>1. rec[c].opTimer = FALSE /\ rec[c].reDeadline = 0
      BY <3>a, <3>b, <3>c
    <3> QED BY <2>3, <3>1 DEF Pending
  <2> QED BY <2>1, <2>2, <2>3
<1> QED BY <1>1, Invariance, PTL

(* However many times a call is detached and rebound, it is due within one   *)
(* delivery grace of its original timeout.                                   *)
THEOREM NeverExtendedTwice == Spec => []SettlementBounded
<1>1. IInv => SettlementBounded
  BY DEF IInv, AllOK, RecordOK, SettlementBounded, Pending, Ceiling
<1> QED BY <1>1, Invariance, PTL

(* The request-key index is exact, for any number of calls sharing a key.    *)
THEOREM IndexExact == Spec => []RequestIndexConsistent
<1>1. IInv => RequestIndexConsistent
  BY DEF IInv
<1> QED BY <1>1, Invariance, PTL

(* No call is stranded on a channel that has been cleaned up. *)
THEOREM NeverStranded == Spec => []OwnerIsOpen
<1>1. IInv => OwnerIsOpen
  BY DEF IInv
<1> QED BY <1>1, Invariance, PTL

(* Timers, owners, channels and request keys agree, for any number of them.  *)
THEOREM Consistent == Spec => []RegistryConsistent
<1>1. TimersArmed /\ RequestIndexConsistent /\ OwnerIsOpen => RegistryConsistent
  BY DEF RegistryConsistent
<1> QED BY <1>1, AlwaysTimed, IndexExact, NeverStranded, PTL

(* A flushed revocation leaves no call of that authority pending, for any    *)
(* interleaving of dispatch, commit and flush.                               *)
THEOREM RevocationComplete == Spec => []RevocationSticks
<1>1. IInv => RevocationSticks
  BY DEF IInv
<1> QED BY <1>1, Invariance, PTL

(* The registry implements CallOwnership: the initial state maps to its      *)
(* initial state, and each step, whatever number of calls it moves, to a     *)
(* step or a stutter.                                                        *)
THEOREM Refinement == Spec => ImplementsOwnership
<1>1. Init => Ownership!Init
  BY DEF Init, Ownership!Init, Ownership!Unsent, OwnershipOf, NewRecord
<1>2. IInv' /\ AllSimulate => [Ownership!Next]_([c \in Calls |-> OwnershipOf(rec[c])])
  <2> SUFFICES ASSUME IInv', AllSimulate PROVE Ownership!Next
    OBVIOUS
  <2> DEFINE call == [c \in Calls |-> OwnershipOf(rec[c])]
  <2>1. \A c \in Calls : OwnershipOf(rec'[c]) \in Ownership!Call
    BY DEF IInv, AllOK, Record, OwnershipOf, Ownership!Call
  <2>2. call' \in [Calls -> Ownership!Call]
    BY <2>1
  <2>3. \A c \in Calls : Ownership!CallStep(call[c], call'[c])
    BY DEF AllSimulate, Simulates
  <2> QED BY <2>2, <2>3 DEF Ownership!Next
<1>3. IInv /\ [Next]_vars => [Ownership!Next]_([c \in Calls |-> OwnershipOf(rec[c])])
  BY <1>2, NextOK
<1> QED BY <1>1, <1>3, Invariance, PTL DEF Spec, ImplementsOwnership, Ownership!Spec

-----------------------------------------------------------------------------
(* The two action properties: what a step may never do to a call.            *)
(*                                                                           *)
(* Every step changes a record in one of seven ways (EveryRecordSteps).      *)
(* Only one of them touches the redelivery mark, and only one settles a call *)
(* with an expiry; the first property is read off it, and for the second the *)
(* invariant is strengthened by OnTime, which says that no deadline, and no  *)
(* list a sweep has captured, is ahead of a call's original timeout.         *)

Expiries == {"timed_out", "reconnect_expired"}

(* What a step may do to the record of call c. *)
RecordStep(c) ==
    LET r == rec[c]
    IN  \/ rec'[c] = r
        \/ /\ r.status = "new"
           /\ \E ch \in Channels : rec'[c] = Registered(c, ch, InstanceOf[ch])
        \/ r.status = "pending" /\ r.owner # NoChannel /\ rec'[c] = Detached(r)
        \/ r.status = "pending" /\ \E ch \in Channels : rec'[c] = Rebound(r, ch)
        \/ r.status = "pending" /\ rec'[c] = [r EXCEPT !.age = @ + 1]
        \/ /\ r.status = "pending"
           /\ \E outcome \in Outcomes, by \in Channels \cup {NoChannel} :
                 /\ rec'[c] = Settled(r, outcome, by)
                 /\ outcome \in Expiries =>
                       \/ r.deadline <= r.age
                       \/ r.reDeadline # 0 /\ r.reDeadline <= r.age
                       \/ c \in due
        \/ \E ch \in Channels :
              /\ c \in OwnedBy(rec, ch)
              /\ r.redelivered = NoChannel
              /\ RedeliveryAllowed(c)
              /\ rec'[c] = [r EXCEPT !.redelivered = ch]

(* finish on a set of pending calls, with an error that is not an expiry. *)
LEMMA FailSteps ==
    ASSUME IInv, NEW S \in SUBSET Calls, NEW outcome \in Failures \ Expiries,
           Fail(S, outcome), NEW c \in Calls
    PROVE  RecordStep(c)
<1>1. rec'[c] = rec[c] \/ (c \in Pending(rec) /\ rec'[c] = Settled(rec[c], outcome, NoChannel))
  BY DEF Fail, SettleAll
<1>2. outcome \in Outcomes
  BY DEF Outcomes
<1> QED BY <1>1, <1>2 DEF RecordStep, Pending

(* The same for the expiry of a call that is due, or was when captured. *)
LEMMA ExpireSteps ==
    ASSUME IInv, NEW x \in Calls, Expire(x),
           \/ rec[x].deadline <= rec[x].age
           \/ rec[x].reDeadline # 0 /\ rec[x].reDeadline <= rec[x].age
           \/ x \in due,
           NEW c \in Calls
    PROVE  RecordStep(c)
<1>1. ExpiryOutcome(rec[x]) \in Outcomes
  BY DEF ExpiryOutcome, Outcomes, Failures
<1>2. \/ rec'[c] = rec[c]
      \/ c = x /\ c \in Pending(rec) /\ rec'[c] = Settled(rec[c], ExpiryOutcome(rec[x]), NoChannel)
  BY DEF Expire, Fail, SettleAll
<1> QED BY <1>1, <1>2 DEF RecordStep, Pending

(* Every step changes every record in one of those ways. *)
LEMMA EveryRecordSteps ==
    ASSUME IInv, Next, NEW c \in Calls
    PROVE  RecordStep(c)
<1> USE DEF IInv
<1>f. /\ "send_failed" \in Failures \ Expiries /\ "disconnected" \in Failures \ Expiries
      /\ "cancelled" \in Failures \ Expiries /\ "revoked" \in Failures \ Expiries
      /\ "not_received" \in Failures \ Expiries
  BY DEF Failures, Expiries
<1>1. ASSUME NEW x \in Calls, NEW ch \in Channels, NEW sent \in BOOLEAN, Dispatch(x, ch, sent)
      PROVE  RecordStep(c)
  BY <1>1 DEF Dispatch, RecordStep, AllOK
<1>2. ASSUME NEW x \in Calls, HandleUnsent(x) PROVE RecordStep(c)
  BY <1>2, <1>f, FailSteps DEF HandleUnsent
<1>3. ASSUME NEW ch \in Channels, Promote(ch) \/ PromotionFails(ch) PROVE RecordStep(c)
  BY <1>3 DEF Promote, PromotionFails, RebindInstance, ReboundCalls, RecordStep, Pending
<1>4. CASE FallbackRebind
  BY <1>4 DEF FallbackRebind, RebindInstance, ReboundCalls, RecordStep, Pending, TypeOK
<1>5. ASSUME NEW ch \in Channels, LoseChannel(ch) PROVE RecordStep(c)
  BY <1>5 DEF LoseChannel, RecordStep
<1>6. ASSUME NEW ch \in Channels, CleanUp(ch) PROVE RecordStep(c)
  BY <1>6, RecordsAssumption DEF CleanUp, DetachSocket, OwnedBy, RecordStep, Pending
<1>7. ASSUME NEW ch \in Channels, Drain(ch) PROVE RecordStep(c)
  <2>1. OwnedBy(rec, ch) \in SUBSET Calls
    BY DEF OwnedBy, Pending
  <2> QED BY <1>7, <1>f, <2>1, FailSteps DEF Drain
<1>8. ASSUME NEW x \in Calls, NEW ch \in Channels, ToolResult(x, ch) PROVE RecordStep(c)
  <2>1. "answered" \in Outcomes /\ "answered" \notin Expiries
    BY DEF Outcomes, Expiries
  <2> QED BY <1>8, <2>1 DEF ToolResult, Answer, ResultOwnership, RecordStep, Pending, AllOK
<1>9. ASSUME NEW x \in Calls, NEW ch \in Channels, NEW sent \in BOOLEAN,
             ReportedMissing(x, ch, sent)
      PROVE  RecordStep(c)
  <2>1. CASE x \in OwnedBy(rec, ch) /\ MissingDisposition(x, ch, sent) = "redeliver"
    <3>1. rec[x].redelivered = NoChannel /\ RedeliveryAllowed(x)
      BY <2>1 DEF MissingDisposition
    <3>2. rec' = [rec EXCEPT ![x].redelivered = ch]
      BY <1>9, <2>1 DEF ReportedMissing
    <3>3. rec'[c] = rec[c] \/ (c = x /\ rec'[c] = [rec[c] EXCEPT !.redelivered = ch])
      BY <3>2 DEF AllOK
    <3> QED BY <2>1, <3>1, <3>3 DEF RecordStep
  <2>2. CASE UNCHANGED rec
    BY <2>2 DEF RecordStep
  <2>3. CASE Fail({x}, "not_received")
    BY <2>3, <1>f, FailSteps
  <2> QED BY <1>9, <2>1, <2>2, <2>3 DEF ReportedMissing
<1>10. ASSUME NEW k \in RequestKeys, CancelRequest(k) PROVE RecordStep(c)
  <2>1. byRequestKey[k] \in Calls
    BY <1>10 DEF CancelRequest, TypeOK
  <2> QED BY <1>10, <2>1, <1>f, FailSteps DEF CancelRequest
<1>11. ASSUME NEW x \in Calls, Abort(x) PROVE RecordStep(c)
  BY <1>11, <1>f, FailSteps DEF Abort
<1>12. ASSUME NEW s \in Scopes, CommitRevocation(s) \/ StartFlush(s) PROVE RecordStep(c)
  BY <1>12 DEF CommitRevocation, StartFlush, RecordStep
<1>13. ASSUME NEW x \in Calls, FlushOne(x) PROVE RecordStep(c)
  BY <1>13, <1>f, FailSteps DEF FlushOne
<1>14. CASE FinishFlush \/ StartSweep
  BY <1>14 DEF FinishFlush, StartSweep, RecordStep
<1>15. ASSUME NEW x \in Calls, OperationTimer(x) \/ ReconnectTimer(x) \/ SweepOne(x)
       PROVE  RecordStep(c)
  BY <1>15, ExpireSteps DEF OperationTimer, ReconnectTimer, SweepOne
<1>16. CASE Tick
  BY <1>16 DEF Tick, Aged, RecordStep, Pending
<1> QED BY <1>1, <1>2, <1>3, <1>4, <1>5, <1>6, <1>7, <1>8, <1>9, <1>10, <1>11, <1>12,
           <1>13, <1>14, <1>15, <1>16 DEF Next

-----------------------------------------------------------------------------
(* A step that changes the redelivery mark sets it, once, on the channel     *)
(* that owns the call and within its execution budget.                       *)
LEMMA RedeliveryStep ==
    ASSUME IInv, NEW c \in Calls, RecordStep(c), rec'[c].redelivered # rec[c].redelivered
    PROVE  /\ rec[c].redelivered = NoChannel
           /\ c \in OwnedBy(rec, rec'[c].redelivered)
           /\ rec[c].age + MinRedelivery <= ExecutionBudget[c]
<1> DEFINE r == rec[c]
<1>1. r \in Record /\ (r.status = "new" => r = NewRecord)
  BY DEF IInv, AllOK, RecordOK
<1>2. r.status = "new" => r.redelivered = NoChannel
  BY <1>1 DEF NewRecord
<1>3. \A ch \in Channels : Registered(c, ch, InstanceOf[ch]).redelivered = NoChannel
  BY DEF Registered, NewRecord
<1>4. Detached(r).redelivered = r.redelivered
  BY <1>1 DEF Detached, ExtendedForReconnect, Record
<1>5. \A ch \in Channels : Rebound(r, ch).redelivered = r.redelivered
  BY <1>1 DEF Rebound, ExtendedForReconnect, Record
<1>6. ASSUME NEW outcome \in Outcomes, NEW by \in Channels \cup {NoChannel}
      PROVE  Settled(r, outcome, by).redelivered = r.redelivered
  BY <1>1 DEF Settled, NewRecord, Record
<1>7. [r EXCEPT !.age = @ + 1].redelivered = r.redelivered
  BY <1>1 DEF Record
<1>8. PICK ch \in Channels :
           /\ c \in OwnedBy(rec, ch) /\ r.redelivered = NoChannel /\ RedeliveryAllowed(c)
           /\ rec'[c] = [r EXCEPT !.redelivered = ch]
  BY <1>2, <1>3, <1>4, <1>5, <1>6, <1>7 DEF RecordStep
<1>9. rec'[c].redelivered = ch
  BY <1>1, <1>8 DEF Record
<1> QED BY <1>8, <1>9 DEF RedeliveryAllowed

(* A call is sent again at most once in its life, on the channel that owns   *)
(* it, and never with less than the minimum execution budget left            *)
(* (settleDaemonProvenMissingCalls, daemonToolRedeliveryArguments).          *)
THEOREM RedeliveredOnce == Spec => RedeliverOnceWithinBudget
<1>1. IInv /\ [Next]_vars =>
        [\A c \in Calls :
           rec'[c].redelivered # rec[c].redelivered =>
              /\ rec[c].redelivered = NoChannel
              /\ c \in OwnedBy(rec, rec'[c].redelivered)
              /\ rec[c].age + MinRedelivery <= ExecutionBudget[c]]_vars
  BY EveryRecordSteps, RedeliveryStep
<1> QED BY <1>1, Invariance, PTL DEF Spec, RedeliverOnceWithinBudget

-----------------------------------------------------------------------------
(* No deadline of a pending call, and no list a sweep has captured, is ahead *)
(* of the timeout the call was dispatched with.                              *)
Punctual(c, r) ==
    r.status = "pending" =>
        /\ r.outcome = "none"
        /\ r.original = Timeout[c]
        /\ r.original <= r.deadline
        /\ r.reDeadline # 0 => r.original <= r.reDeadline

CapturedLate(c) ==
    c \in due => /\ rec[c].status # "new"
                 /\ rec[c].status = "pending" => rec[c].original <= rec[c].age

OnTime == \A c \in Calls : Punctual(c, rec[c]) /\ CapturedLate(c)

(* A pending record stays punctual, does not grow younger, and is not failed *)
(* by an expiry before its timeout.                                          *)
KeptOnTime(c, r, s) ==
    /\ Punctual(c, s)
    /\ r.status = "settled" => s.status = "settled"
    /\ r.status = "pending" => s.status # "new"
    /\ r.status = "pending" /\ s.status = "pending" =>
           s.original = r.original /\ r.age <= s.age
    /\ r.status = "pending" /\ s.outcome \in Expiries => r.original <= r.age

(* The reconnect grace covers every timeout: DAEMON_RECONNECT_GRACE_MS is    *)
(* 120 s, and the longest settlement timeout daemonToolTimeoutBudget gives   *)
(* is that of a read_job, 60 + 10 + 5 s.                                     *)
GraceCoversTimeouts == \A c \in Calls : Timeout[c] <= ReconnectGrace

(* Detaching does not bring the end of a call forward.                       *)
LEMMA DetachedOnTime ==
    ASSUME GraceCoversTimeouts, NEW c \in Calls, NEW r \in Record,
           r.original = Timeout[c], r.original <= r.deadline
    PROVE  /\ Detached(r).original = r.original /\ Detached(r).age = r.age
           /\ r.original <= Detached(r).deadline
           /\ r.original <= Detached(r).reDeadline
<1> DEFINE e == ExtendedForReconnect(r)
           d == Detached(r)
<1>1. /\ r.age \in Nat /\ r.original \in Nat /\ r.deadline \in Nat
      /\ Timeout[c] <= ReconnectGrace /\ ReconnectGrace \in Nat /\ DeliveryGrace \in Nat
  BY RecordsAssumption DEF Record, GraceCoversTimeouts
<1>2. /\ e.age = r.age /\ e.original = r.original
      /\ e.deadline = Larger(r.deadline, r.original + DeliveryGrace)
  BY DEF ExtendedForReconnect, Record
<1>3. /\ d.age = e.age /\ d.original = e.original /\ d.deadline = e.deadline
      /\ d.reDeadline = e.age + Smaller(ReconnectGrace, Remaining(e))
  BY DEF Detached, ExtendedForReconnect, Record
<1>4. e.deadline \in Nat /\ r.original <= e.deadline
  BY <1>1, <1>2 DEF Larger
<1>5. Remaining(e) \in Nat /\ e.deadline <= e.age + Remaining(e)
  BY <1>1, <1>2, <1>4 DEF Remaining
<1>6. r.original <= e.age + Smaller(ReconnectGrace, Remaining(e))
  BY <1>1, <1>2, <1>4, <1>5 DEF Smaller
<1> QED BY <1>2, <1>3, <1>4, <1>6

(* Nor does rebinding.                                                       *)
LEMMA ReboundOnTime ==
    ASSUME NEW r \in Record, NEW ch \in Channels, r.original <= r.deadline
    PROVE  /\ Rebound(r, ch).original = r.original /\ Rebound(r, ch).age = r.age
           /\ r.original <= Rebound(r, ch).deadline
           /\ Rebound(r, ch).reDeadline \in {0, r.reDeadline}
<1> DEFINE e == ExtendedForReconnect(r)
           b == Rebound(r, ch)
<1>1. r.age \in Nat /\ r.original \in Nat /\ r.deadline \in Nat /\ DeliveryGrace \in Nat
  BY RecordsAssumption DEF Record
<1>2. /\ e.age = r.age /\ e.original = r.original /\ e.reDeadline = r.reDeadline
      /\ e.deadline = Larger(r.deadline, r.original + DeliveryGrace)
  BY DEF ExtendedForReconnect, Record
<1>3. /\ b.age = e.age /\ b.original = e.original /\ b.deadline = e.age + Remaining(e)
      /\ b.reDeadline \in {0, e.reDeadline}
  BY DEF Rebound, ExtendedForReconnect, Record
<1>4. e.deadline \in Nat /\ r.original <= e.deadline
  BY <1>1, <1>2 DEF Larger
<1>5. r.original <= e.age + Remaining(e)
  BY <1>1, <1>2, <1>4 DEF Remaining
<1> QED BY <1>2, <1>3, <1>5

(* Every step keeps every record on time.                                    *)
LEMMA RecordsOnTime ==
    ASSUME GraceCoversTimeouts, IInv, OnTime, NEW c \in Calls, RecordStep(c)
    PROVE  KeptOnTime(c, rec[c], rec'[c])
<1> DEFINE r == rec[c]
           s == rec'[c]
<1> USE DEF KeptOnTime
<1>1. r \in Record /\ Punctual(c, r)
  BY DEF IInv, AllOK, OnTime
<1>2. /\ r.age \in Nat /\ r.original \in Nat /\ r.deadline \in Nat /\ r.reDeadline \in Nat
      /\ Timeout[c] \in Nat
  BY <1>1, RecordsAssumption DEF Record
<1>3. r.status = "pending" =>
        /\ r.outcome = "none" /\ r.original = Timeout[c] /\ r.original <= r.deadline
        /\ r.reDeadline # 0 => r.original <= r.reDeadline
        /\ c \in due => r.original <= r.age
  BY <1>1 DEF OnTime, Punctual, CapturedLate, Pending
<1>4. CASE s = r
  BY <1>1, <1>2, <1>3, <1>4 DEF Expiries
<1>5. ASSUME NEW ch \in Channels, r.status = "new", s = Registered(c, ch, InstanceOf[ch])
      PROVE  KeptOnTime(c, r, s)
  BY <1>2, <1>5 DEF Registered, NewRecord, Punctual
<1>6. CASE r.status = "pending" /\ s = Detached(r)
  <2>1. /\ s.original = r.original /\ s.age = r.age
        /\ r.original <= s.deadline /\ r.original <= s.reDeadline
    BY <1>1, <1>3, <1>6, DetachedOnTime
  <2>2. s.status = r.status /\ s.outcome = r.outcome
    BY <1>1, <1>6 DEF Detached, ExtendedForReconnect, Record
  <2> QED BY <1>2, <1>3, <1>6, <2>1, <2>2 DEF Punctual, Expiries
<1>7. ASSUME NEW ch \in Channels, r.status = "pending", s = Rebound(r, ch)
      PROVE  KeptOnTime(c, r, s)
  <2>1. /\ s.original = r.original /\ s.age = r.age
        /\ r.original <= s.deadline /\ s.reDeadline \in {0, r.reDeadline}
    BY <1>1, <1>3, <1>7, ReboundOnTime
  <2>2. s.status = r.status /\ s.outcome = r.outcome
    BY <1>1, <1>7 DEF Rebound, ExtendedForReconnect, Record
  <2> QED BY <1>2, <1>3, <1>7, <2>1, <2>2 DEF Punctual, Expiries
<1>8. CASE r.status = "pending" /\ s = [r EXCEPT !.age = @ + 1]
  <2>1. /\ s.status = r.status /\ s.outcome = r.outcome /\ s.original = r.original
        /\ s.deadline = r.deadline /\ s.reDeadline = r.reDeadline /\ s.age = r.age + 1
    BY <1>1, <1>8 DEF Record
  <2> QED BY <1>2, <1>3, <1>8, <2>1 DEF Punctual, Expiries
<1>9. ASSUME NEW outcome \in Outcomes, NEW by \in Channels \cup {NoChannel},
             r.status = "pending", s = Settled(r, outcome, by),
             outcome \in Expiries =>
                \/ r.deadline <= r.age
                \/ r.reDeadline # 0 /\ r.reDeadline <= r.age
                \/ c \in due
      PROVE  KeptOnTime(c, r, s)
  <2>1. s.status = "settled" /\ s.outcome = outcome
    BY <1>1, <1>9 DEF Settled, NewRecord, Record
  <2>2. outcome \in Expiries => r.original <= r.age
    BY <1>2, <1>3, <1>9
  <2> QED BY <1>9, <2>1, <2>2 DEF Punctual
<1>10. ASSUME NEW ch \in Channels, c \in OwnedBy(rec, ch), s = [r EXCEPT !.redelivered = ch]
       PROVE  KeptOnTime(c, r, s)
  <2>1. /\ s.status = r.status /\ s.outcome = r.outcome /\ s.original = r.original
        /\ s.deadline = r.deadline /\ s.reDeadline = r.reDeadline /\ s.age = r.age
    BY <1>1, <1>10 DEF Record
  <2>2. r.status = "pending"
    BY <1>10 DEF OwnedBy, Pending
  <2> QED BY <1>2, <1>3, <2>1, <2>2 DEF Punctual, Expiries
<1> QED BY <1>4, <1>5, <1>6, <1>7, <1>8, <1>9, <1>10 DEF RecordStep

(* A sweep captures calls that are due, and adds none later.                 *)
LEMMA CapturedStep ==
    ASSUME IInv, Next, NEW c \in due'
    PROVE  c \in due \/ (c \in Pending(rec) /\ Due(rec[c]) /\ UNCHANGED rec)
BY DEF Next, Dispatch, HandleUnsent, Promote, PromotionFails, FallbackRebind, LoseChannel,
       CleanUp, Drain, ToolResult, ReportedMissing, CancelRequest, Abort, CommitRevocation,
       StartFlush, FlushOne, FinishFlush, OperationTimer, ReconnectTimer, StartSweep,
       SweepOne, Tick

(* OnTime is an invariant, given IInv.                                       *)
LEMMA OnTimeNext ==
    ASSUME GraceCoversTimeouts, IInv, OnTime, IInv', [Next]_vars
    PROVE  OnTime'
<1>1. CASE UNCHANGED vars
  BY <1>1 DEF vars, OnTime, Punctual, CapturedLate, Pending
<1>2. ASSUME Next, NEW c \in Calls PROVE Punctual(c, rec'[c]) /\ CapturedLate(c)'
  <2> DEFINE r == rec[c]
             s == rec'[c]
  <2>1. KeptOnTime(c, r, s)
    BY <1>2, EveryRecordSteps, RecordsOnTime
  <2>2. ASSUME c \in due'
        PROVE  s.status # "new" /\ (s.status = "pending" => s.original <= s.age)
    <3>1. r \in Record /\ s \in Record
      BY DEF IInv, AllOK
    <3>2. CASE c \in due
      <4>1. r.status # "new" /\ (r.status = "pending" => r.original <= r.age)
        BY <3>2 DEF OnTime, CapturedLate
      <4> QED BY <2>1, <3>1, <4>1 DEF KeptOnTime, Record
    <3>3. CASE c \in Pending(rec) /\ Due(r) /\ UNCHANGED rec
      BY <3>1, <3>3 DEF OnTime, Punctual, Pending, Due, Record
    <3> QED BY <1>2, <2>2, <3>2, <3>3, CapturedStep
  <2> QED BY <2>1, <2>2 DEF KeptOnTime, CapturedLate
<1> QED BY <1>1, <1>2 DEF OnTime

(* No timer and no sweep fails a call before the timeout it was dispatched   *)
(* with is over, however often it was detached and rebound meanwhile, and    *)
(* however stale the list of calls a sweep works through (expireDue).        *)
THEOREM NeverEarly ==
    ASSUME GraceCoversTimeouts
    PROVE  Spec => NoEarlyExpiry
<1>1. Init => OnTime
  BY RecordsAssumption DEF Init, OnTime, Punctual, CapturedLate, NewRecord
<1>2. IInv /\ OnTime /\ IInv' /\ [Next]_vars => OnTime'
  BY OnTimeNext
<1>3. IInv /\ OnTime /\ [Next]_vars =>
        [\A c \in Pending(rec) :
           rec'[c].outcome \in {"timed_out", "reconnect_expired"} =>
              rec[c].age >= rec[c].original]_vars
  <2> SUFFICES ASSUME IInv, OnTime, Next, NEW c \in Pending(rec),
                      rec'[c].outcome \in {"timed_out", "reconnect_expired"}
               PROVE  rec[c].age >= rec[c].original
    OBVIOUS
  <2>1. c \in Calls /\ rec[c].status = "pending" /\ rec[c] \in Record
    BY DEF Pending, IInv, AllOK
  <2>2. KeptOnTime(c, rec[c], rec'[c])
    BY <2>1, EveryRecordSteps, RecordsOnTime
  <2> QED BY <2>1, <2>2 DEF KeptOnTime, Expiries, Record
<1> QED BY <1>1, <1>2, <1>3, Invariance, PTL DEF Spec, NoEarlyExpiry

-----------------------------------------------------------------------------
(* ToolCalls: whatever happens before a call reaches the registry, the       *)
(* registry behaves as PendingCalls says, so that what is proved of it holds *)
(* of whole tool calls; and no wakeup is lost.                               *)

(* Each step is one of the registry or leaves it alone. *)
LEMMA StepsOfRegistry == ASSUME [WNext]_callVars PROVE [Next]_vars
<1>1. CASE \E c \in Calls : Arrive(c)
  BY <1>1 DEF Arrive
<1>2. CASE \E c \in Calls : GiveUp(c)
  BY <1>2 DEF GiveUp
<1>3. CASE \E ch \in Channels : Notify(ch)
  BY <1>3 DEF Notify
<1>4. CASE \E c \in Calls, ch \in Channels, sent \in BOOLEAN : Send(c, ch, sent)
  BY <1>4 DEF Send, Next
<1>5. CASE \E c \in Calls : DispatchRefused(c)
  BY <1>5 DEF DispatchRefused
<1>6. CASE \E ch \in Channels : PromoteAndAnnounce(ch)
  BY <1>6 DEF PromoteAndAnnounce, Next
<1>7. CASE \E s \in Scopes : FlushWaiters(s)
  BY <1>7 DEF FlushWaiters, Next
<1>8. CASE RegistryStep
  BY <1>8 DEF RegistryStep, Next
<1>9. CASE UNCHANGED callVars
  BY <1>9 DEF callVars
<1> QED BY <1>1, <1>2, <1>3, <1>4, <1>5, <1>6, <1>7, <1>8, <1>9 DEF WNext

(* Tool calls with the wait for a ready daemon implement the registry: all   *)
(* theorems of PendingCalls hold of callDaemonTool as a whole.               *)
THEOREM ImplementsRegistry == WSpec => Spec
<1>1. WInit => Init
  BY DEF WInit
<1> QED BY <1>1, StepsOfRegistry, PTL DEF WSpec, Spec

(* No registry step makes a channel ready or a call wait. *)
LEMMA OnlyPromotionReadies ==
    ASSUME TypeOK, RegistryStep
    PROVE  ReadyChannels' \subseteq ReadyChannels /\ Waiting' = Waiting
<1>1. Waiting' = Waiting
  BY DEF RegistryStep, Waiting, waitVars
<1>2. \A ch \in Channels : channel'[ch] = "ready" => channel[ch] = "ready"
  <2> USE DEF TypeOK
  <2>1. CASE UNCHANGED channel
    BY <2>1
  <2>2. CASE \E c \in Calls : HandleUnsent(c)
    BY <2>2 DEF HandleUnsent
  <2>3. CASE \E ch \in Channels : \/ PromotionFails(ch) \/ LoseChannel(ch)
                                  \/ CleanUp(ch) \/ Drain(ch)
    BY <2>3 DEF PromotionFails, LoseChannel, CleanUp, Drain
  <2> QED
    BY <2>1, <2>2, <2>3
       DEF RegistryStep, FallbackRebind, ToolResult, ReportedMissing, CancelRequest,
           Abort, CommitRevocation, FlushOne, FinishFlush, OperationTimer,
           ReconnectTimer, StartSweep, SweepOne, Tick
<1> QED BY <1>1, <1>2 DEF ReadyChannels

(* Nobody is left waiting beside a ready channel with no announcement due:   *)
(* true as it stands of every step.                                          *)
LEMMA WakeupKept ==
    ASSUME WaitTypeOK, NoWakeupLost, [WNext]_callVars
    PROVE  NoWakeupLost'
<1> USE DEF NoWakeupLost, WaitTypeOK
<1>1. CASE \E c \in Calls : Arrive(c)
  <2> PICK c \in Calls : Arrive(c)
    BY <1>1
  <2>1. ReadyChannels' = ReadyChannels /\ announcing' = announcing
    BY DEF Arrive, vars, ReadyChannels
  <2>2. CASE Immediate # {}
    <3>1. PICK ch \in Immediate : Take(c, ch)
      BY <2>2 DEF Arrive
    <3>2. Waiting' \subseteq Waiting
      BY <3>1 DEF Take, Waiting
    <3> QED BY <2>1, <3>2
  <2>3. CASE Immediate = {}
    <3>1. Waiting # {} \/ ReadyChannels = {}
      BY <2>3 DEF Immediate
    <3> QED BY <2>1, <3>1
  <2> QED BY <2>2, <2>3
<1>2. CASE \E c \in Calls : GiveUp(c) \/ DispatchRefused(c)
  BY <1>2 DEF GiveUp, DispatchRefused, Refuse, vars, Waiting, ReadyChannels
<1>3. CASE \E ch \in Channels : Notify(ch)
  <2> PICK ch \in Channels : Notify(ch)
    BY <1>3
  <2>1. ReadyChannels' = ReadyChannels
    BY DEF Notify, vars, ReadyChannels
  <2>2. CASE ReadyChannels = {}
    BY <2>1, <2>2
  <2>3. CASE ReadyChannels # {}
    <3>1. stage' = [c \in Calls |-> IF c \in Waiting THEN "holding" ELSE stage[c]]
      BY <2>3 DEF Notify, Released
    <3>2. Waiting' = {}
      BY <3>1 DEF Waiting
    <3> QED BY <3>2
  <2> QED BY <2>2, <2>3
<1>4. CASE \E c \in Calls, ch \in Channels, sent \in BOOLEAN : Send(c, ch, sent)
  BY <1>4 DEF Send, Dispatch, Waiting, ReadyChannels
<1>5. CASE \E ch \in Channels : PromoteAndAnnounce(ch)
  BY <1>5 DEF PromoteAndAnnounce
<1>6. CASE \E s \in Scopes : FlushWaiters(s)
  BY <1>6 DEF FlushWaiters, StartFlush, Waiting, ReadyChannels
<1>7. CASE RegistryStep
  <2>1. announcing' = announcing
    BY <1>7 DEF RegistryStep, waitVars
  <2> QED BY <1>7, <2>1, OnlyPromotionReadies
<1>8. CASE UNCHANGED callVars
  BY <1>8 DEF callVars, vars, waitVars, Waiting, ReadyChannels
<1> QED BY <1>1, <1>2, <1>3, <1>4, <1>5, <1>6, <1>7, <1>8 DEF WNext

(* Type correctness of the waiters: the registry's own comes with it. *)
LEMMA WaitTyped ==
    ASSUME WaitTypeOK, TypeOK', [WNext]_callVars
    PROVE  WaitTypeOK'
<1> USE DEF WaitTypeOK
<1>1. CASE \E c \in Calls : Arrive(c)
  BY <1>1 DEF Arrive, Take, Refuse, Immediate, ReadyChannels
<1>2. CASE \E c \in Calls : GiveUp(c) \/ DispatchRefused(c)
  BY <1>2 DEF GiveUp, DispatchRefused, Refuse
<1>3. CASE \E ch \in Channels : Notify(ch)
  BY <1>3 DEF Notify, ReadyChannels
<1>4. CASE \E c \in Calls, ch \in Channels, sent \in BOOLEAN : Send(c, ch, sent)
  BY <1>4 DEF Send
<1>5. CASE \E ch \in Channels : PromoteAndAnnounce(ch)
  BY <1>5 DEF PromoteAndAnnounce
<1>6. CASE \E s \in Scopes : FlushWaiters(s)
  BY <1>6 DEF FlushWaiters
<1>7. CASE RegistryStep \/ UNCHANGED callVars
  BY <1>7 DEF RegistryStep, callVars, waitVars
<1> QED BY <1>1, <1>2, <1>3, <1>4, <1>5, <1>6, <1>7 DEF WNext

(* For any number of calls and channels, a call that waits beside a ready    *)
(* channel is about to be woken.                                             *)
THEOREM AlwaysWoken == WSpec => []NoWakeupLost
<1>1. WSpec => []TypeOK
  BY ImplementsRegistry, TypeCorrect, PTL
<1>2. WInit => NoWakeupLost
  BY DEF WInit, NoWakeupLost, Waiting
<1>3. WInit /\ TypeOK => WaitTypeOK
  BY DEF WInit, WaitTypeOK
<1>4. WaitTypeOK /\ TypeOK' /\ [WNext]_callVars => WaitTypeOK'
  BY WaitTyped
<1>5. WaitTypeOK /\ NoWakeupLost /\ [WNext]_callVars => NoWakeupLost'
  BY WakeupKept
<1> QED BY <1>1, <1>2, <1>3, <1>4, <1>5, PTL DEF WSpec
=============================================================================
