------------------------- MODULE RelayRecoveryProofs ------------------------
(* Safety of recovery across reconnects, for any number of calls, sockets    *)
(* and daemon processes.                                                     *)
(*                                                                           *)
(* The inductive invariant says                                              *)
(*   - that only the daemon's socket can be alive, and what each role of a   *)
(*     socket still has queued (NetworkOK);                                  *)
(*   - how far the handshake of the daemon's socket has come, read off the   *)
(*     messages still queued for the daemon (HandshakeOK), and that a resume *)
(*     acknowledgement comes at most once and names expected ids (AcksOK);   *)
(*   - which messages can name a call in each of its states (NamesOK) and    *)
(*     that a pending call is owned by the one ready socket of its process   *)
(*     (OwnersOK);                                                           *)
(*   - that a call reported missing has not run and is not on its way, that  *)
(*     every call resumed is one the daemon was asked about, and that what   *)
(*     is awaited is held (RunsOK);                                          *)
(*   - that the daemon's grace timer, armed after the call was registered,   *)
(*     cannot run out before the Worker's deadline: a deadline is put off    *)
(*     only by a socket lost or gained, and there are finitely many          *)
(*     (TimingOK).                                                           *)
(* On top of it, RefusalsOK says that a call the daemon refused at its       *)
(* capacity is not sent to it again, which makes every step one of           *)
(* CallDelivery.                                                             *)
EXTENDS RelayRecovery, TLAPS, SequenceTheorems, FiniteSetTheorems

USE DEF None, Sockets

Next == Untimed \/ Timed

(* The messages of a queue, and the ones the living daemon will handle. *)
Contents(q) == {q[i] : i \in DOMAIN q}
Incoming == IF cur = None THEN {} ELSE Contents(down[cur])

(* At most one of the messages of T is queued. *)
AtMostOne(q, T) == \A i, j \in DOMAIN q : q[i] \in T /\ q[j] \in T => i = j

Acks    == {ResumeAck(S) : S \in SUBSET Calls}
Resumes == {Resume(S) : S \in SUBSET Calls}
(* What the Worker sends once a socket is ready. *)
Traffic == {ToolCall(c) : c \in Calls} \cup {CancelCall(c) : c \in Calls}
           \cup {ResultAck(c) : c \in Calls} \cup {Pong}

Early == {"none", "probing", "replaced"}

(* The network and the roles the Worker gives its sockets. *)
NetworkOK ==
    /\ alive \subseteq {cur}
    /\ cur = None <=> phase = "closed"
    /\ phase # "authenticated" => resume = NoResume
    /\ cur # None => role[cur] # "none" /\ instanceOf[cur] = instance
    /\ \A s \in Sockets : instanceOf[s] <= instance
    /\ \A s \in Sockets : s > opened => role[s] = "none"
    /\ \A s \in Sockets : role[s] = "none" => up[s] = <<>>
    /\ \A s \in Sockets : role[s] \in {"probing", "replaced"} => up[s] = <<Probed>>
    /\ \A s \in Sockets : role[s] \in Early => down[s] = <<>> /\ s \notin acked
    /\ cur # None /\ role[cur] \in Early => phase = "authenticated" /\ resume = NoResume
    /\ \A s, t \in Sockets : role[s] = "daemon" /\ role[t] = "daemon" => s = t

(* How far the handshake of the current socket has come, read off what is    *)
(* queued for the daemon. *)
Announced(q) == q # <<>> /\ Head(q) = ReadyAck /\ Contents(Tail(q)) \subseteq Traffic
Opening(q)   == q # <<>> /\ Head(q) \in Resumes /\ Announced(Tail(q))
Broken(q)    == q # <<>> /\ Head(q) \in Resumes /\ Tail(q) = <<>>
HandshakeOK ==
    /\ phase = "ready" => Contents(down[cur]) \subseteq Traffic
    /\ phase = "authenticated" =>
         \/ down[cur] = <<>> /\ ~(role[cur] = "daemon" /\ cur \in alive)
         \/ Broken(down[cur]) /\ ~resume.known /\ role[cur] = "expired" /\ cur \notin alive
         \/ Opening(down[cur]) /\ ~resume.known
         \/ Announced(down[cur]) /\ resume.known

(* Resume acknowledgements: none before the session is ready, at most one on *)
(* each socket, and only ids the Worker expects.                             *)
AcksOK ==
    /\ cur # None /\ phase # "ready" => cur \notin acked /\ Contents(up[cur]) \cap Acks = {}
    /\ \A s \in Sockets : AtMostOne(up[s], Acks)
    /\ \A s \in acked : Contents(up[s]) \cap Acks = {}
    /\ \A s \in Sockets, S \in SUBSET Calls :
          role[s] = "daemon" /\ ResumeAck(S) \in Contents(up[s]) => S \subseteq expected[s]
    /\ cur # None /\ role[cur] = "daemon" =>
          /\ resume.missing \subseteq expected[cur]
          /\ \A S \in SUBSET Calls : Resume(S) \in Incoming => S \subseteq expected[cur]

(* Nothing names a call that was not dispatched yet. *)
Fresh(c) ==
    /\ rec[c] = NewRecord
    /\ started[c] = 0
    /\ ToolCall(c) \notin Incoming
    /\ c \notin resume.missing
    /\ \A S \in SUBSET Calls : Resume(S) \in Incoming => c \notin S
    /\ \A s \in Sockets :
         /\ Result(c) \notin Contents(up[s])
         /\ \A S \in SUBSET Calls : ResumeAck(S) \in Contents(up[s]) => c \notin S

(* What the messages under way say of a call's state. *)
NamesOK ==
    \A c \in Calls :
       /\ rec[c].status = "new" => Fresh(c)
       /\ rec[c].status = "pending" => rec[c].outcome = "none"
       /\ CancelCall(c) \in Incoming \/ ResultAck(c) \in Incoming => rec[c].status = "settled"

(* A pending call is owned by the ready socket of its process, if any. *)
OwnersOK ==
    \A c \in Pending(rec) :
       /\ rec[c].instance \in Instances /\ rec[c].instance <= instance
       /\ rec[c].owner # None => role[rec[c].owner] = "daemon"
       /\ \A s \in Sockets : rec[c].owner = s <=> role[s] = "daemon" /\ instanceOf[s] = rec[c].instance

(* Reported missing by the socket that owns it. *)
Claimed(c) ==
    LET s == rec[c].owner
    IN  /\ c \in Pending(rec) /\ s # None
        /\ \/ s = cur /\ c \in resume.missing
           \/ \E S \in SUBSET Calls : c \in S /\ ResumeAck(S) \in Contents(up[s])

(* Never run, and no longer to be run. *)
Untouched(c) == started[c] = 0 /\ ToolCall(c) \notin Incoming

(* Begun by the living process, and still waited for by the Worker. *)
Awaited(c) == c \in Pending(rec) /\ rec[c].instance = instance /\ started[c] > 0

(* What has run, what may still run, and what the daemon holds. *)
RunsOK ==
    /\ cur # None => \A c \in Calls : AtMostOne(down[cur], {ToolCall(c)})
    /\ \A c \in Calls :
         /\ started[c] <= 1
         /\ local[c] # "none" \/ c \in unsafe => started[c] > 0
         /\ ToolCall(c) \in Incoming => started[c] = 0
         /\ Claimed(c) => Untouched(c)
         /\ rec[c].outcome \in {"not_received", "send_failed"} => Untouched(c)
         /\ \A S \in SUBSET Calls : Resume(S) \in Incoming =>
              /\ c \in S => ToolCall(c) \notin Incoming
              /\ Awaited(c) => c \in S
         /\ Awaited(c) => local[c] \in {"active", "retained"}

(* How often sockets were lost or gained while a call waits, and how far its *)
(* deadlines can have been put off by that.                                  *)
Tried == {s \in Sockets : role[s] \in {"daemon", "expired"}}
Grants(c) == 2 * Cardinality(Tried) - 1 - (IF rec[c].owner = None THEN 0 ELSE 1)
Allowance(c) == Timeout[c] + DeliveryGrace + Grants(c) * (1 + MaxLateness)

(* Timers: the Worker's deadlines, and the daemon's grace timer behind them. *)
TimingOK ==
    /\ phase = "ready" => expiry = 0
    /\ \A c \in Pending(rec) :
         LET r == rec[c]
         IN  /\ r.opTimer <=> r.owner # None
             /\ r.reDeadline # 0 <=> r.owner = None
             /\ r.original = Timeout[c]
             /\ r.deadline <= Allowance(c) /\ r.reDeadline <= Allowance(c)
             /\ r.age <= Allowance(c) + MaxLateness
             /\ Awaited(c) => expiry <= r.age + 1

(* Capacity counts what runs and what is retained. *)
CapacityOK == IsFiniteSet(Owned) /\ Cardinality(Owned) <= DaemonMaximum

IInv == /\ TypeOK /\ NetworkOK /\ HandshakeOK /\ AcksOK /\ NamesOK /\ OwnersOK /\ RunsOK
        /\ TimingOK /\ CapacityOK

-----------------------------------------------------------------------------
(* Queues. *)

LEMMA EmptyContents == Contents(<<>>) = {}
BY DEF Contents

LEMMA ConsContents ==
    ASSUME NEW M, NEW q \in Seq(M), q # <<>>
    PROVE  /\ Head(q) \in M /\ Tail(q) \in Seq(M)
           /\ Contents(q) = {Head(q)} \cup Contents(Tail(q))
<1>1. /\ Head(q) \in M /\ Tail(q) \in Seq(M)
      /\ Len(Tail(q)) = Len(q) - 1 /\ \A i \in 1 .. Len(Tail(q)) : Tail(q)[i] = q[i + 1]
  BY HeadTailProperties
<1>2. /\ Len(q) \in Nat \ {0} /\ DOMAIN q = 1 .. Len(q) /\ DOMAIN Tail(q) = 1 .. Len(Tail(q))
  BY <1>1, LenProperties, EmptySeq
<1>3. Head(q) = q[1]
  BY <1>2
<1>4. \A i \in DOMAIN q : i = 1 \/ (i - 1 \in DOMAIN Tail(q) /\ q[i] = Tail(q)[i - 1])
  BY <1>1, <1>2
<1>5. \A i \in DOMAIN Tail(q) : i + 1 \in DOMAIN q /\ Tail(q)[i] = q[i + 1]
  BY <1>1, <1>2
<1>6. 1 \in DOMAIN q
  BY <1>2
<1> QED BY <1>1, <1>3, <1>4, <1>5, <1>6 DEF Contents

LEMMA ConcatContents ==
    ASSUME NEW M, NEW q \in Seq(M), NEW r \in Seq(M)
    PROVE  /\ q \o r \in Seq(M)
           /\ Contents(q \o r) = Contents(q) \cup Contents(r)
<1>1. /\ q \o r \in Seq(M) /\ Len(q \o r) = Len(q) + Len(r)
      /\ \A i \in 1 .. Len(q) + Len(r) :
            (q \o r)[i] = IF i <= Len(q) THEN q[i] ELSE r[i - Len(q)]
  BY ConcatProperties
<1>2. /\ Len(q) \in Nat /\ Len(r) \in Nat
      /\ DOMAIN q = 1 .. Len(q) /\ DOMAIN r = 1 .. Len(r)
      /\ DOMAIN (q \o r) = 1 .. Len(q) + Len(r)
  BY <1>1, LenProperties
<1>3. \A i \in DOMAIN (q \o r) :
         \/ i \in DOMAIN q /\ (q \o r)[i] = q[i]
         \/ i - Len(q) \in DOMAIN r /\ (q \o r)[i] = r[i - Len(q)]
  BY <1>1, <1>2
<1>4. \A i \in DOMAIN q : i \in DOMAIN (q \o r) /\ (q \o r)[i] = q[i]
  BY <1>1, <1>2
<1>5. \A i \in DOMAIN r : i + Len(q) \in DOMAIN (q \o r) /\ (q \o r)[i + Len(q)] = r[i]
  BY <1>1, <1>2
<1>6. Contents(q \o r) \subseteq Contents(q) \cup Contents(r)
  BY <1>3 DEF Contents
<1>7. Contents(q) \subseteq Contents(q \o r) /\ Contents(r) \subseteq Contents(q \o r)
  BY <1>4, <1>5 DEF Contents
<1> QED BY <1>1, <1>6, <1>7

LEMMA AppendContents ==
    ASSUME NEW M, NEW q \in Seq(M), NEW n \in M
    PROVE  q \o <<n>> \in Seq(M) /\ Contents(q \o <<n>>) = Contents(q) \cup {n}
<1> DEFINE r == <<n>>
<1>1. r \in Seq(M)
  OBVIOUS
<1>2. Contents(r) = {n}
  BY DEF Contents
<1> HIDE DEF r
<1>3. q \o r \in Seq(M) /\ Contents(q \o r) = Contents(q) \cup Contents(r)
  BY <1>1, ConcatContents
<1>4. q \o r \in Seq(M) /\ Contents(q \o r) = Contents(q) \cup {n}
  BY <1>2, <1>3
<1> QED BY <1>4 DEF r

LEMMA ConcatShape ==
    ASSUME NEW M, NEW q \in Seq(M), NEW r \in Seq(M), q # <<>>
    PROVE  /\ q \o r # <<>> /\ Head(q \o r) = Head(q)
           /\ Tail(q \o r) = Tail(q) \o r
<1>1. /\ q \o r \in Seq(M) /\ Len(q \o r) = Len(q) + Len(r)
      /\ \A i \in 1 .. Len(q) + Len(r) :
            (q \o r)[i] = IF i <= Len(q) THEN q[i] ELSE r[i - Len(q)]
  BY ConcatProperties
<1>2. /\ Len(q) \in Nat \ {0} /\ Len(r) \in Nat
  BY <1>1, LenProperties, EmptySeq
<1>3. q \o r # <<>>
  BY <1>1, <1>2, EmptySeq
<1>4. Head(q \o r) = Head(q)
  BY <1>1, <1>2
<1>5. /\ Tail(q) \in Seq(M) /\ Len(Tail(q)) = Len(q) - 1
      /\ \A i \in 1 .. Len(Tail(q)) : Tail(q)[i] = q[i + 1]
  BY HeadTailProperties
<1>6. /\ Tail(q \o r) \in Seq(M) /\ Len(Tail(q \o r)) = Len(q) + Len(r) - 1
      /\ \A i \in 1 .. Len(Tail(q \o r)) : Tail(q \o r)[i] = (q \o r)[i + 1]
  BY <1>1, <1>3, HeadTailProperties
<1>7. /\ Tail(q) \o r \in Seq(M) /\ Len(Tail(q) \o r) = Len(q) + Len(r) - 1
      /\ \A i \in 1 .. Len(q) - 1 + Len(r) :
            (Tail(q) \o r)[i] = IF i <= Len(q) - 1 THEN Tail(q)[i] ELSE r[i - (Len(q) - 1)]
  BY <1>2, <1>5, ConcatProperties
<1>8. ASSUME NEW i \in 1 .. Len(q) + Len(r) - 1
      PROVE  Tail(q \o r)[i] = (Tail(q) \o r)[i]
  <2>1. CASE i <= Len(q) - 1
    BY <1>1, <1>2, <1>5, <1>6, <1>7, <2>1
  <2>2. CASE i > Len(q) - 1
    BY <1>1, <1>2, <1>5, <1>6, <1>7, <2>2
  <2> QED BY <1>2, <2>1, <2>2
<1>9. Tail(q \o r) = Tail(q) \o r
  BY <1>6, <1>7, <1>8, SeqEqual
<1> QED BY <1>3, <1>4, <1>9

LEMMA AtMostOneTail ==
    ASSUME NEW M, NEW q \in Seq(M), q # <<>>, NEW T, AtMostOne(q, T)
    PROVE  /\ AtMostOne(Tail(q), T)
           /\ Head(q) \in T => Contents(Tail(q)) \cap T = {}
<1>1. /\ Tail(q) \in Seq(M) /\ Len(Tail(q)) = Len(q) - 1
      /\ \A i \in 1 .. Len(Tail(q)) : Tail(q)[i] = q[i + 1]
  BY HeadTailProperties
<1>2. /\ Len(q) \in Nat \ {0} /\ DOMAIN q = 1 .. Len(q) /\ DOMAIN Tail(q) = 1 .. Len(Tail(q))
  BY <1>1, LenProperties, EmptySeq
<1>3. Head(q) = q[1] /\ 1 \in DOMAIN q
  BY <1>2
<1>4. \A i \in DOMAIN Tail(q) : i + 1 \in DOMAIN q /\ i + 1 # 1 /\ Tail(q)[i] = q[i + 1] /\ i \in Nat
  BY <1>1, <1>2
<1>5. AtMostOne(Tail(q), T)
  BY <1>4 DEF AtMostOne
<1>6. Head(q) \in T => Contents(Tail(q)) \cap T = {}
  BY <1>3, <1>4 DEF AtMostOne, Contents
<1> QED BY <1>5, <1>6

LEMMA AtMostOneConcat ==
    ASSUME NEW M, NEW q \in Seq(M), NEW r \in Seq(M), NEW T,
           AtMostOne(q, T), AtMostOne(r, T),
           Contents(q) \cap T = {} \/ Contents(r) \cap T = {}
    PROVE  AtMostOne(q \o r, T)
<1>1. /\ q \o r \in Seq(M) /\ Len(q \o r) = Len(q) + Len(r)
      /\ \A i \in 1 .. Len(q) + Len(r) :
            (q \o r)[i] = IF i <= Len(q) THEN q[i] ELSE r[i - Len(q)]
  BY ConcatProperties
<1>2. /\ Len(q) \in Nat /\ Len(r) \in Nat
      /\ DOMAIN q = 1 .. Len(q) /\ DOMAIN r = 1 .. Len(r)
      /\ DOMAIN (q \o r) = 1 .. Len(q) + Len(r)
  BY <1>1, LenProperties
<1>3. \A i \in DOMAIN (q \o r) :
         \/ i \in DOMAIN q /\ (q \o r)[i] = q[i]
         \/ i - Len(q) \in DOMAIN r /\ (q \o r)[i] = r[i - Len(q)]
  BY <1>1, <1>2
<1>4. SUFFICES ASSUME NEW i \in DOMAIN (q \o r), NEW j \in DOMAIN (q \o r),
                      (q \o r)[i] \in T, (q \o r)[j] \in T
               PROVE  i = j
  BY DEF AtMostOne
<1>5. CASE Contents(q) \cap T = {}
  <2>1. i - Len(q) \in DOMAIN r /\ r[i - Len(q)] \in T /\ j - Len(q) \in DOMAIN r /\ r[j - Len(q)] \in T
    BY <1>3, <1>4, <1>5 DEF Contents
  <2>2. i - Len(q) = j - Len(q)
    BY <2>1 DEF AtMostOne
  <2> QED BY <1>2, <2>2
<1>6. CASE Contents(r) \cap T = {}
  <2>1. i \in DOMAIN q /\ q[i] \in T /\ j \in DOMAIN q /\ q[j] \in T
    BY <1>3, <1>4, <1>6 DEF Contents
  <2> QED BY <2>1 DEF AtMostOne
<1> QED BY <1>5, <1>6

LEMMA AtMostOneAbsent ==
    ASSUME NEW q, NEW T, Contents(q) \cap T = {}
    PROVE  AtMostOne(q, T)
BY DEF AtMostOne, Contents

LEMMA SingleContents ==
    ASSUME NEW M, NEW m \in M
    PROVE  /\ <<m>> \in Seq(M) /\ Contents(<<m>>) = {m}
           /\ \A T : AtMostOne(<<m>>, T)
BY DEF Contents, AtMostOne
-----------------------------------------------------------------------------
(* Messages. *)

LEMMA Kinds ==
    ASSUME NEW m \in Message
    PROVE  /\ m.type = "resume_calls" => m.ids \in SUBSET Calls /\ m = Resume(m.ids)
           /\ m.type = "resume_calls_ack" => m.ids \in SUBSET Calls /\ m = ResumeAck(m.ids)
           /\ m.type = "tool_call" => m.id \in Calls /\ m = ToolCall(m.id)
           /\ m.type = "cancel_call" => m.id \in Calls /\ m = CancelCall(m.id)
           /\ m.type = "tool_result" => m.id \in Calls /\ m = Result(m.id)
           /\ m.type = "tool_result_ack" => m.id \in Calls /\ m = ResultAck(m.id)
           /\ m.type = "ready_ack" => m = ReadyAck
           /\ m.type = "pong" => m = Pong
BY DEF Message, Resume, ResumeAck, ToolCall, CancelCall, Result, ResultAck, ReadyAck, Pong

LEMMA Constructors ==
    /\ \A c \in Calls : /\ ToolCall(c) \in Message /\ CancelCall(c) \in Message
                        /\ Result(c) \in Message /\ ResultAck(c) \in Message
    /\ \A S \in SUBSET Calls : Resume(S) \in Message /\ ResumeAck(S) \in Message
    /\ Probed \in Message /\ ReadyAck \in Message /\ Pong \in Message
BY DEF Message, Resume, ResumeAck, ToolCall, CancelCall, Result, ResultAck, ReadyAck, Pong, Probed

(* A send reaches the queue of a living socket, and nothing else. *)
LEMMA SentQueues ==
    ASSUME NEW queues \in [Sockets -> Seq(Message)], NEW s \in Sockets, NEW r \in Seq(Message)
    PROVE  /\ Sent(queues, s, r) \in [Sockets -> Seq(Message)]
           /\ \A t \in Sockets : Sent(queues, s, r)[t] =
                 IF t = s /\ s \in alive THEN queues[t] \o r ELSE queues[t]
<1>1. queues[s] \o r \in Seq(Message)
  BY ConcatContents
<1> QED BY <1>1 DEF Sent

LEMMA OrderProperties ==
    ASSUME NEW S \in SUBSET Calls, NEW q \in Orders(S)
    PROVE  /\ Cardinality(S) \in Nat /\ DOMAIN q = 1 .. Cardinality(S)
           /\ \A i \in DOMAIN q : q[i] \in S
           /\ \A i, j \in DOMAIN q : q[i] = q[j] => i = j
<1>1. Cardinality(S) \in Nat
  BY RelayAssumption, FS_Subset, FS_CardinalityType
<1> QED BY <1>1 DEF Orders

LEMMA ResultsInOrder ==
    ASSUME NEW S \in SUBSET Calls, NEW q \in Orders(S)
    PROVE  /\ [i \in DOMAIN q |-> Result(q[i])] \in Seq(Message)
           /\ Contents([i \in DOMAIN q |-> Result(q[i])]) \subseteq {Result(c) : c \in S}
<1> DEFINE r == [i \in DOMAIN q |-> Result(q[i])]
<1>1. /\ Cardinality(S) \in Nat /\ DOMAIN q = 1 .. Cardinality(S)
      /\ \A i \in DOMAIN q : q[i] \in S
  BY OrderProperties
<1>2. r \in [1 .. Cardinality(S) -> Message]
  BY <1>1, Constructors
<1>3. r \in Seq(Message)
  BY <1>1, <1>2, SeqDef
<1>4. Contents(r) \subseteq {Result(c) : c \in S}
  BY <1>1 DEF Contents
<1> QED BY <1>3, <1>4

LEMMA CallsInOrder ==
    ASSUME NEW S \in SUBSET Calls, NEW q \in Orders(S)
    PROVE  /\ [i \in DOMAIN q |-> ToolCall(q[i])] \in Seq(Message)
           /\ Contents([i \in DOMAIN q |-> ToolCall(q[i])]) \subseteq {ToolCall(c) : c \in S}
           /\ \A c \in Calls : AtMostOne([i \in DOMAIN q |-> ToolCall(q[i])], {ToolCall(c)})
<1> DEFINE r == [i \in DOMAIN q |-> ToolCall(q[i])]
<1>1. /\ Cardinality(S) \in Nat /\ DOMAIN q = 1 .. Cardinality(S)
      /\ \A i \in DOMAIN q : q[i] \in S
      /\ \A i, j \in DOMAIN q : q[i] = q[j] => i = j
  BY OrderProperties
<1>2. r \in [1 .. Cardinality(S) -> Message]
  BY <1>1, Constructors
<1>3. r \in Seq(Message)
  BY <1>1, <1>2, SeqDef
<1>4. Contents(r) \subseteq {ToolCall(c) : c \in S}
  BY <1>1 DEF Contents
<1>5. \A c, d \in Calls : ToolCall(c) = ToolCall(d) => c = d
  BY DEF ToolCall
<1>6. \A c \in Calls : AtMostOne(r, {ToolCall(c)})
  BY <1>1, <1>5 DEF AtMostOne
<1> QED BY <1>3, <1>4, <1>6
-----------------------------------------------------------------------------
(* Records. *)

(* b bounds every deadline of a record, and is ahead of its age. *)
Capped(r, b) ==
    /\ r.original + DeliveryGrace <= b
    /\ r.deadline <= b /\ r.reDeadline <= b /\ r.age + 1 <= b

SameCall(r, d) ==
    /\ d.status = r.status /\ d.instance = r.instance /\ d.age = r.age
    /\ d.original = r.original /\ d.redelivered = r.redelivered /\ d.outcome = r.outcome

LEMMA DetachedFields ==
    ASSUME NEW r \in Record
    PROVE  /\ Detached(r) \in Record /\ SameCall(r, Detached(r))
           /\ Detached(r).owner = None /\ Detached(r).opTimer = FALSE
           /\ Detached(r).reDeadline # 0
           /\ \A b \in Nat : Capped(r, b) => Capped(Detached(r), b)
<1> DEFINE e == ExtendedForReconnect(r)
           d == Detached(r)
<1> USE RecordsAssumption
<1>1. /\ e \in Record /\ SameCall(r, e)
      /\ e.deadline = Larger(r.deadline, r.original + DeliveryGrace)
      /\ e.reDeadline = r.reDeadline
  BY DEF Record, ExtendedForReconnect, SameCall, Larger
<1>2. /\ Remaining(e) \in Nat \ {0}
      /\ e.age + Smaller(ReconnectGrace, Remaining(e)) \in Nat \ {0}
      /\ e.age + Smaller(ReconnectGrace, Remaining(e)) <= Larger(e.deadline, e.age + 1)
  BY <1>1 DEF Record, Remaining, Smaller, Larger
<1>3. d = [e EXCEPT !.owner = NoChannel, !.opTimer = FALSE,
                    !.reDeadline = e.age + Smaller(ReconnectGrace, Remaining(e))]
  BY DEF Detached
<1> HIDE DEF e, d
<1>4. /\ d \in Record /\ SameCall(e, d) /\ d.owner = NoChannel /\ d.opTimer = FALSE
      /\ d.reDeadline = e.age + Smaller(ReconnectGrace, Remaining(e))
      /\ d.deadline = e.deadline
  BY <1>1, <1>2, <1>3 DEF Record, SameCall
<1>5. SameCall(r, d)
  BY <1>1, <1>4 DEF SameCall
<1>6. ASSUME NEW b \in Nat, Capped(r, b) PROVE Capped(d, b)
  <2>1. r.age \in Nat /\ r.original \in Nat /\ r.deadline \in Nat
    BY DEF Record
  <2>2. e.deadline <= b /\ Larger(e.deadline, e.age + 1) <= b /\ e.deadline \in Nat
    BY <1>1, <1>6, <2>1 DEF Larger, Capped, SameCall
  <2>3. Larger(e.deadline, e.age + 1) \in Nat
    BY <1>1, <2>1, <2>2 DEF Larger, SameCall
  <2> QED BY <1>2, <1>4, <1>5, <1>6, <2>2, <2>3 DEF Capped, SameCall
<1> QED BY <1>2, <1>4, <1>5, <1>6 DEF d

LEMMA ReboundFields ==
    ASSUME NEW r \in Record, NEW ch \in Channels
    PROVE  /\ Rebound(r, ch) \in Record /\ SameCall(r, Rebound(r, ch))
           /\ Rebound(r, ch).owner = ch /\ Rebound(r, ch).opTimer = TRUE
           /\ r.owner = None \/ r.reDeadline = 0 => Rebound(r, ch).reDeadline = 0
           /\ \A b \in Nat : Capped(r, b) => Capped(Rebound(r, ch), b)
<1> DEFINE e == ExtendedForReconnect(r)
           d == Rebound(r, ch)
           reD == IF r.owner = NoChannel THEN 0 ELSE e.reDeadline
<1> USE RecordsAssumption
<1>1. /\ e \in Record /\ SameCall(r, e)
      /\ e.deadline = Larger(r.deadline, r.original + DeliveryGrace)
      /\ e.reDeadline = r.reDeadline
  BY DEF Record, ExtendedForReconnect, SameCall, Larger
<1>2. /\ e.age + Remaining(e) \in Nat
      /\ e.age + Remaining(e) <= Larger(e.deadline, e.age + 1)
      /\ reD \in Nat /\ reD \in {0, r.reDeadline}
      /\ r.owner = None \/ r.reDeadline = 0 => reD = 0
  BY <1>1 DEF Record, Remaining, Larger
<1>3. d = [e EXCEPT !.owner = ch, !.opTimer = TRUE, !.reDeadline = reD,
                    !.deadline = e.age + Remaining(e)]
  BY DEF Rebound
<1> HIDE DEF e, d, reD
<1>4. /\ d \in Record /\ SameCall(e, d) /\ d.owner = ch /\ d.opTimer = TRUE
      /\ d.reDeadline = reD
      /\ d.deadline = e.age + Remaining(e)
  BY <1>1, <1>2, <1>3 DEF Record, SameCall
<1>5. SameCall(r, d)
  BY <1>1, <1>4 DEF SameCall
<1>6. ASSUME NEW b \in Nat, Capped(r, b) PROVE Capped(d, b)
  <2>1. r.age \in Nat /\ r.original \in Nat /\ r.deadline \in Nat /\ r.reDeadline \in Nat
    BY DEF Record
  <2>2. e.deadline <= b /\ Larger(e.deadline, e.age + 1) <= b /\ e.deadline \in Nat
    BY <1>1, <1>6, <2>1 DEF Larger, Capped, SameCall
  <2>3. Larger(e.deadline, e.age + 1) \in Nat
    BY <1>1, <2>1, <2>2 DEF Larger, SameCall
  <2>4. reD <= b
    BY <1>2, <1>6, <2>1 DEF Capped
  <2> QED BY <1>2, <1>4, <1>5, <1>6, <2>2, <2>3, <2>4 DEF Capped, SameCall
<1> QED BY <1>2, <1>4, <1>5, <1>6 DEF d

LEMMA SettledFields ==
    ASSUME NEW r \in Record, NEW outcome \in Outcomes, NEW by \in Channels \cup {None}
    PROVE  /\ Settled(r, outcome, by) \in Record
           /\ Settled(r, outcome, by).status = "settled"
           /\ Settled(r, outcome, by).outcome = outcome
BY RecordsAssumption DEF Record, Settled, NewRecord

LEMMA RegisteredFields ==
    ASSUME NEW c \in Calls, NEW ch \in Channels, NEW i \in Instances
    PROVE  /\ Registered(c, ch, i) \in Record
           /\ Registered(c, ch, i).status = "pending"
           /\ Registered(c, ch, i).owner = ch /\ Registered(c, ch, i).instance = i
           /\ Registered(c, ch, i).age = 0
           /\ Registered(c, ch, i).original = Timeout[c]
           /\ Registered(c, ch, i).deadline = Timeout[c]
           /\ Registered(c, ch, i).opTimer = TRUE /\ Registered(c, ch, i).reDeadline = 0
           /\ Registered(c, ch, i).outcome = "none"
           /\ Registered(c, ch, i).redelivered = None
BY RecordsAssumption DEF Record, Registered, NewRecord, Outcomes, Failures

LEMMA AgedFields ==
    ASSUME NEW r \in Record
    PROVE  LET d == [r EXCEPT !.age = @ + 1]
           IN  /\ d \in Record /\ d.status = r.status /\ d.owner = r.owner
               /\ d.instance = r.instance /\ d.age = r.age + 1 /\ d.original = r.original
               /\ d.deadline = r.deadline /\ d.reDeadline = r.reDeadline
               /\ d.opTimer = r.opTimer /\ d.outcome = r.outcome
               /\ d.redelivered = r.redelivered
BY DEF Record
-----------------------------------------------------------------------------
(* Types. *)

LEMMA RegistryTyped ==
    ASSUME NEW R \in [Calls -> Record]
    PROVE  /\ \A ch \in Channels : DetachSocket(R, ch) \in [Calls -> Record]
           /\ \A ch \in Channels, i \in Instances : RebindInstance(R, i, ch) \in [Calls -> Record]
           /\ \A S \in SUBSET Calls, o \in Outcomes : SettleAll(R, S, o) \in [Calls -> Record]
           /\ \A c \in Calls, ch \in Channels : Answer(R, c, ch) \in [Calls -> Record]
           /\ Aged(R) \in [Calls -> Record]
<1>1. ASSUME NEW ch \in Channels PROVE DetachSocket(R, ch) \in [Calls -> Record]
  <2>1. \A c \in Calls : Detached(R[c]) \in Record
    BY DetachedFields
  <2> QED BY <2>1 DEF DetachSocket
<1>2. ASSUME NEW ch \in Channels, NEW i \in Instances PROVE RebindInstance(R, i, ch) \in [Calls -> Record]
  <2>1. \A c \in Calls : Rebound(R[c], ch) \in Record
    BY ReboundFields
  <2> QED BY <2>1 DEF RebindInstance
<1>3. ASSUME NEW S \in SUBSET Calls, NEW o \in Outcomes PROVE SettleAll(R, S, o) \in [Calls -> Record]
  <2>1. \A c \in Calls : Settled(R[c], o, None) \in Record
    BY SettledFields
  <2> QED BY <2>1 DEF SettleAll
<1>4. ASSUME NEW c \in Calls, NEW ch \in Channels PROVE Answer(R, c, ch) \in [Calls -> Record]
  <2>1. Settled(R[c], "answered", ch) \in Record
    BY SettledFields DEF Outcomes
  <2> QED BY <2>1 DEF Answer
<1>5. Aged(R) \in [Calls -> Record]
  <2>1. \A c \in Calls : [R[c] EXCEPT !.age = @ + 1] \in Record
    BY AgedFields
  <2> QED BY <2>1 DEF Aged
<1> QED BY <1>1, <1>2, <1>3, <1>4, <1>5

LEMMA Numbers ==
    /\ Cardinality(Channels) \in Nat /\ Channels \subseteq Nat /\ 0 \notin Channels /\ None = 0
    /\ Instances \subseteq Nat /\ 1 \in Instances
    /\ MaxLateness \in Nat \ {0} /\ DaemonGrace \in Nat /\ DeliveryGrace \in Nat
    /\ \A c \in Calls : Timeout[c] \in Nat \ {0}
    /\ NewRecord \in Record
<1>1. Cardinality(Channels) \in Nat
  BY RelayAssumption, FS_CardinalityType
<1>2. NewRecord \in Record
  BY DEF NewRecord, Record, Outcomes, Failures
<1> QED BY <1>1, <1>2, RelayAssumption, RecordsAssumption

LEMMA TypeStep ==
    ASSUME TypeOK, Next
    PROVE  TypeOK'
<1> USE Constructors, Numbers
<1>0. /\ rec \in [Calls -> Record] /\ up \in [Sockets -> Seq(Message)]
      /\ down \in [Sockets -> Seq(Message)]
      /\ instanceOf \in [Sockets -> Instances]
  BY DEF TypeOK
<1>e. \A q \in Seq(Message) : q # <<>> => Tail(q) \in Seq(Message) /\ Head(q) \in Message
  BY ConsContents
<1>p. \A s \in Sockets : /\ up[s] # <<>> => Popped(up, s) \in [Sockets -> Seq(Message)]
                         /\ down[s] # <<>> => Popped(down, s) \in [Sockets -> Seq(Message)]
  BY <1>0, <1>e DEF Popped
<1>n. <<>> \in Seq(Message)
  BY EmptySeq
<1>o. ASSUME NEW m \in Message PROVE <<m>> \in Seq(Message)
  BY SingleContents
<1>s. ASSUME NEW s \in Sockets, NEW m \in Message
      PROVE  /\ Sent(up, s, <<m>>) \in [Sockets -> Seq(Message)]
             /\ Sent(down, s, <<m>>) \in [Sockets -> Seq(Message)]
  BY <1>0, <1>o, SentQueues
<1>1. ASSUME NEW s \in Sockets, WorkerCloses(s) PROVE TypeOK'
  BY <1>1, <1>0, <1>n, RegistryTyped DEF WorkerCloses, TypeOK, daemonVars, history
<1>2. ASSUME NEW s \in Sockets, Promote(s) PROVE TypeOK'
  <2> DEFINE previous == {t \in Sockets \ {s} : role[t] = "daemon"}
             rebound == RebindInstance(rec, instanceOf[s], s)
             ids == ReboundCalls(rec, instanceOf[s], s)
  <2>1. rebound \in [Calls -> Record]
    BY <1>0, RegistryTyped
  <2>2. \A c \in Calls : Detached(rebound[c]) \in Record
    BY <2>1, DetachedFields
  <2>3. rec' \in [Calls -> Record]
    BY <1>2, <2>1, <2>2 DEF Promote
  <2>4. ids \in SUBSET Calls
    BY DEF ReboundCalls, Pending
  <2>5. PromotionMessages(ids) \in Seq(Message)
    BY <2>4 DEF PromotionMessages
  <2>6. down' \in [Sockets -> Seq(Message)]
    BY <1>2, <1>0, <2>5, SentQueues DEF Promote
  <2>7. up' \in [Sockets -> Seq(Message)]
    BY <1>2, <1>0, <1>e, <1>n DEF Promote, WorkerHandles
  <2>8. role' \in [Sockets -> {"none", "probing", "replaced", "daemon", "expired"}]
        /\ expected' \in [Sockets -> SUBSET Calls] /\ alive' \in SUBSET Sockets
    BY <1>2, <2>4 DEF Promote, TypeOK
  <2> QED BY <1>2, <2>3, <2>6, <2>7, <2>8 DEF Promote, TypeOK, daemonVars, history
<1>3. ASSUME NEW s \in Sockets, NEW resumeSent \in BOOLEAN, PromotionFails(s, resumeSent) PROVE TypeOK'
  <2> DEFINE detached == DetachSocket(RebindInstance(rec, instanceOf[s], s), s)
             ids == ReboundCalls(rec, instanceOf[s], s)
  <2>1. detached \in [Calls -> Record]
    BY <1>0, RegistryTyped
  <2>2. \A t \in Sockets : RebindInstance(detached, instanceOf[s], t) \in [Calls -> Record]
    BY <1>0, <2>1, RegistryTyped
  <2>3. rec' \in [Calls -> Record]
    BY <1>3, <2>1, <2>2 DEF PromotionFails
  <2>4. ids \in SUBSET Calls
    BY DEF ReboundCalls, Pending
  <2>5. down[s] \o <<Resume(ids)>> \in Seq(Message)
    BY <1>0, <1>o, <2>4, ConcatContents
  <2>6. down' \in [Sockets -> Seq(Message)]
    BY <1>3, <1>0, <2>5 DEF PromotionFails
  <2> QED BY <1>3, <1>0, <1>n, <2>3, <2>6 DEF PromotionFails, TypeOK, daemonVars, history
<1>4. ASSUME NEW s \in Sockets, WorkerResult(s) PROVE TypeOK'
  <2>1. Head(up[s]).id \in Calls
    BY <1>4, <1>0, <1>e, Kinds DEF WorkerResult, WorkerHandles
  <2>2. Acknowledgement(Head(up[s]).id, s) \in Seq(Message)
    BY <1>n, <1>o, <2>1 DEF Acknowledgement
  <2>3. rec' \in [Calls -> Record] /\ down' \in [Sockets -> Seq(Message)]
        /\ up' \in [Sockets -> Seq(Message)]
    BY <1>4, <1>0, <1>p, <2>1, <2>2, RegistryTyped, SentQueues DEF WorkerResult, WorkerHandles
  <2> QED BY <1>4, <2>3 DEF WorkerResult, TypeOK, daemonVars, history
<1>5. ASSUME NEW s \in Sockets, WorkerResumeAck(s) PROVE TypeOK'
  <2>1. up' \in [Sockets -> Seq(Message)] /\ acked' \in SUBSET Sockets
    BY <1>5, <1>0, <1>p DEF WorkerResumeAck, WorkerHandles, TypeOK
  <2> DEFINE owned == Head(up[s]).ids \cap OwnedBy(rec, s)
             again == {c \in owned : rec[c].redelivered = None /\ RedeliveryAllowed(c)}
  <2>2. again \in SUBSET Calls
    BY DEF OwnedBy, Pending
  <2>3. \A c \in Calls : [rec[c] EXCEPT !.redelivered = s] \in Record
    BY <1>0, ZenonT(60) DEF Record
  <2>4. \A c \in Calls : Settled(rec[c], "not_received", None) \in Record
    BY <1>0, SettledFields DEF Outcomes, Failures
  <2>5. \A q \in Orders(again) : Sent(down, s, [i \in DOMAIN q |-> ToolCall(q[i])]) \in [Sockets -> Seq(Message)]
    <3> TAKE q \in Orders(again)
    <3> DEFINE r == [i \in DOMAIN q |-> ToolCall(q[i])]
    <3> HIDE DEF again
    <3>1. r \in Seq(Message)
      BY <2>2, CallsInOrder
    <3> HIDE DEF r
    <3>2. Sent(down, s, r) \in [Sockets -> Seq(Message)]
      BY <1>0, <3>1, SentQueues
    <3> QED BY <3>2 DEF r
  <2>6. rec' \in [Calls -> Record] /\ down' \in [Sockets -> Seq(Message)] /\ violation' \in BOOLEAN
    <3>1. CASE Head(up[s]).ids \subseteq expected[s] /\ s \notin acked
      <4>a. \A c \in Calls : rec'[c] \in {rec[c], [rec[c] EXCEPT !.redelivered = s],
                                          Settled(rec[c], "not_received", None)}
        BY <1>5, <3>1 DEF WorkerResumeAck
      <4>b. rec' = [c \in Calls |-> rec'[c]]
        BY <1>5, <3>1 DEF WorkerResumeAck
      <4>1. rec' \in [Calls -> Record]
        <5>1. \A c \in Calls : rec'[c] \in Record
          BY <1>0, <2>3, <2>4, <4>a
        <5> QED BY <4>b, <5>1
      <4>2. down' \in [Sockets -> Seq(Message)]
        BY <1>5, <2>5, <3>1 DEF WorkerResumeAck
      <4>3. violation' \in BOOLEAN
        BY <1>5, <3>1 DEF WorkerResumeAck, TypeOK
      <4> QED BY <4>1, <4>2, <4>3
    <3>2. CASE ~(Head(up[s]).ids \subseteq expected[s] /\ s \notin acked)
      BY <1>5, <1>0, <3>2 DEF WorkerResumeAck
    <3> QED BY <3>1, <3>2
  <2> QED BY <1>5, <2>1, <2>6 DEF WorkerResumeAck, TypeOK, daemonVars
<1>6. ASSUME NEW s \in Sockets, WorkerPong(s) PROVE TypeOK'
  BY <1>6, <1>0, <1>o, SentQueues DEF WorkerPong, TypeOK, workerVars, daemonVars, history
<1>7. ASSUME NEW c \in Calls, NEW s \in Sockets, Dispatch(c, s) PROVE TypeOK'
  <2>i. instanceOf[s] \in Instances
    BY <1>0
  <2>1. Registered(c, s, instanceOf[s]) \in Record
    BY <2>i, RegisteredFields
  <2>2. rec' \in [Calls -> Record]
    BY <1>7, <1>0, <2>1 DEF Dispatch
  <2>3. down' \in [Sockets -> Seq(Message)]
    BY <1>7, <1>s DEF Dispatch
  <2> QED BY <1>7, <2>2, <2>3 DEF Dispatch, TypeOK, daemonVars, history
<1>8. ASSUME NEW c \in Calls, NEW s \in Sockets, DispatchFails(c, s) PROVE TypeOK'
  <2>i. instanceOf[s] \in Instances
    BY <1>0
  <2>a. Registered(c, s, instanceOf[s]) \in Record
    BY <2>i, RegisteredFields
  <2>b. "send_failed" \in Outcomes
    BY DEF Outcomes, Failures
  <2>1. Settled(Registered(c, s, instanceOf[s]), "send_failed", None) \in Record
    BY <2>a, <2>b, SettledFields
  <2>2. rec' \in [Calls -> Record]
    BY <1>8, <1>0, <2>1, RegistryTyped DEF DispatchFails
  <2> QED BY <1>8, <1>0, <1>n, <2>2 DEF DispatchFails, TypeOK, daemonVars, history
<1>9. ASSUME NEW c \in Calls, NEW o \in Outcomes, GiveUp(c, o) PROVE TypeOK'
  <2>1. rec[c].owner \in Sockets \cup {None}
    BY <1>0 DEF Record
  <2>2. rec' \in [Calls -> Record]
    BY <1>9, <1>0, RegistryTyped DEF GiveUp
  <2>3. down' \in [Sockets -> Seq(Message)]
    BY <1>9, <1>0, <1>s, <2>1 DEF GiveUp
  <2> QED BY <1>9, <2>2, <2>3 DEF GiveUp, TypeOK, daemonVars, history
<1>10. ASSUME NEW c \in Calls, CancelRequest(c) \/ ExpireCall(c) PROVE TypeOK'
  BY <1>9, <1>10 DEF CancelRequest, ExpireCall, ExpiryOutcome, Outcomes, Failures
<1>11. ASSUME NEW s \in Sockets, Connect(s) PROVE TypeOK'
  BY <1>11, <1>0, <1>o DEF Connect, TypeOK, history, NoResume
<1>12. CASE DaemonCloses
  BY <1>12, <1>0, <1>n DEF DaemonCloses, TypeOK, workerVars, history, NoResume, Scheduled
<1>13. CASE DaemonResume
  <2>1. Head(down[cur]).ids \in SUBSET Calls /\ down' \in [Sockets -> Seq(Message)]
    BY <1>13, <1>0, <1>e, <1>p, Kinds DEF DaemonResume, DaemonHandles, TypeOK
  <2>a. [known |-> TRUE, missing |-> ProvenMissing(Head(down[cur]).ids)] \in [known : BOOLEAN, missing : SUBSET Calls]
    BY <2>1 DEF ProvenMissing
  <2>2. resume' \in [known : BOOLEAN, missing : SUBSET Calls]
    BY <1>13, <2>a DEF DaemonResume, TypeOK
  <2>3. /\ local' \in [Calls -> {"none", "active", "suppressed", "retained"}]
        /\ unsafe' \in SUBSET Calls /\ violation' \in BOOLEAN
    BY <1>13 DEF DaemonResume, TypeOK
  <2> QED BY <1>13, <2>1, <2>2, <2>3 DEF DaemonResume, TypeOK, workerVars
<1>14. CASE DaemonReady
  <2>1. cur \in Sockets /\ down' \in [Sockets -> Seq(Message)]
    BY <1>14, <1>0, <1>p DEF DaemonReady, DaemonHandles, TypeOK
  <2>2. \A q \in Orders(Retained) :
           Sent(up, cur, [i \in DOMAIN q |-> Result(q[i])] \o <<ResumeAck(resume.missing)>>)
             \in [Sockets -> Seq(Message)]
    <3> TAKE q \in Orders(Retained)
    <3>1. [i \in DOMAIN q |-> Result(q[i])] \in Seq(Message)
      BY ResultsInOrder DEF Retained
    <3>2. <<ResumeAck(resume.missing)>> \in Seq(Message)
      BY <1>o DEF TypeOK
    <3>3. [i \in DOMAIN q |-> Result(q[i])] \o <<ResumeAck(resume.missing)>> \in Seq(Message)
      BY <3>1, <3>2, ConcatContents
    <3> QED BY <1>0, <2>1, <3>3, SentQueues
  <2>3. up' \in [Sockets -> Seq(Message)]
    BY <1>14, <1>0, <2>2 DEF DaemonReady
  <2>a. NoResume \in [known : BOOLEAN, missing : SUBSET Calls]
    BY DEF NoResume
  <2>b. 0 \in 0 .. DaemonGrace + MaxLateness
    OBVIOUS
  <2>4. /\ resume' \in [known : BOOLEAN, missing : SUBSET Calls] /\ violation' \in BOOLEAN
        /\ phase' \in {"closed", "authenticated", "ready"} /\ expiry' \in 0 .. DaemonGrace + MaxLateness
    BY <1>14, <2>a, <2>b DEF DaemonReady, TypeOK
  <2>5. UNCHANGED <<rec, role, expected, acked, alive, instanceOf, cur, local, unsafe, instance, opened, started>>
    BY <1>14 DEF DaemonReady, workerVars
  <2> QED BY <2>1, <2>3, <2>4, <2>5 DEF TypeOK
<1>15. CASE DaemonToolCall
  <2>1. /\ cur \in Sockets /\ down' \in [Sockets -> Seq(Message)] /\ Head(down[cur]).id \in Calls
    BY <1>15, <1>0, <1>e, <1>p, Kinds DEF DaemonToolCall, DaemonHandles, TypeOK
  <2>2. up' \in [Sockets -> Seq(Message)]
    <3>1. up' = up \/ up' = Sent(up, cur, <<Result(Head(down[cur]).id)>>)
      BY <1>15 DEF DaemonToolCall
    <3>2. Result(Head(down[cur]).id) \in Message
      BY <2>1
    <3>3. Sent(up, cur, <<Result(Head(down[cur]).id)>>) \in [Sockets -> Seq(Message)]
      BY <1>s, <2>1, <3>2
    <3> QED BY <1>0, <3>1, <3>3
  <2>a. /\ local' \in {local, [local EXCEPT ![Head(down[cur]).id] = "active"]}
        /\ started' \in {started, [started EXCEPT ![Head(down[cur]).id] = @ + 1]}
        /\ violation' \in {violation, TRUE}
    BY <1>15 DEF DaemonToolCall
  <2>b. /\ [local EXCEPT ![Head(down[cur]).id] = "active"] \in [Calls -> {"none", "active", "suppressed", "retained"}]
        /\ [started EXCEPT ![Head(down[cur]).id] = @ + 1] \in [Calls -> Nat]
    <3> DEFINE c == Head(down[cur]).id
    <3>1. c \in Calls
      BY <2>1
    <3> HIDE DEF c
    <3>2. [local EXCEPT ![c] = "active"] \in [Calls -> {"none", "active", "suppressed", "retained"}]
      BY <3>1 DEF TypeOK
    <3>3. started \in [Calls -> Nat] /\ started[c] + 1 \in Nat
      BY <3>1 DEF TypeOK
    <3>4. [started EXCEPT ![c] = @ + 1] \in [Calls -> Nat]
      BY <3>1, <3>3
    <3> QED BY <3>2, <3>4 DEF c
  <2>3. /\ local' \in [Calls -> {"none", "active", "suppressed", "retained"}]
        /\ started' \in [Calls -> Nat] /\ violation' \in BOOLEAN
    BY <2>a, <2>b DEF TypeOK
  <2>4. UNCHANGED <<rec, role, expected, acked, alive, instanceOf, cur, phase, resume, unsafe, expiry,
                    instance, opened>>
    BY <1>15 DEF DaemonToolCall, workerVars
  <2> QED BY <2>1, <2>2, <2>3, <2>4 DEF TypeOK
<1>16. CASE DaemonCancel
  <2>1. /\ cur \in Sockets /\ down' \in [Sockets -> Seq(Message)] /\ Head(down[cur]).id \in Calls
    BY <1>16, <1>0, <1>e, <1>p, Kinds DEF DaemonCancel, DaemonHandles, TypeOK
  <2> QED BY <1>16, <2>1 DEF DaemonCancel, TypeOK, workerVars
<1>17. CASE DaemonAck
  <2>1. /\ cur \in Sockets /\ down' \in [Sockets -> Seq(Message)] /\ Head(down[cur]).id \in Calls
    BY <1>17, <1>0, <1>e, <1>p, Kinds DEF DaemonAck, DaemonHandles, TypeOK
  <2> QED BY <1>17, <2>1 DEF DaemonAck, TypeOK, workerVars
<1>18. CASE DaemonPong
  <2>1. cur \in Sockets /\ down' \in [Sockets -> Seq(Message)]
    BY <1>18, <1>0, <1>p DEF DaemonPong, DaemonHandles, TypeOK
  <2>2. \A q \in Orders(Retained) : Sent(up, cur, [i \in DOMAIN q |-> Result(q[i])]) \in [Sockets -> Seq(Message)]
    <3> TAKE q \in Orders(Retained)
    <3> DEFINE r == [i \in DOMAIN q |-> Result(q[i])]
    <3>1. Retained \in SUBSET Calls
      BY DEF Retained
    <3>2. r \in Seq(Message)
      BY <3>1, ResultsInOrder
    <3> HIDE DEF r
    <3>3. Sent(up, cur, r) \in [Sockets -> Seq(Message)]
      BY <1>0, <2>1, <3>2, SentQueues
    <3> QED BY <3>3 DEF r
  <2>3. up' \in [Sockets -> Seq(Message)]
    <3>1. PICK q \in Orders(Retained) : up' = Sent(up, cur, [i \in DOMAIN q |-> Result(q[i])])
      BY <1>18 DEF DaemonPong
    <3> QED BY <2>2, <3>1
  <2>4. UNCHANGED <<rec, role, expected, acked, alive, instanceOf, cur, phase, resume, local, unsafe, expiry,
                    instance, opened, started, violation>>
    BY <1>18 DEF DaemonPong, workerVars, daemonVars, history
  <2> QED BY <2>1, <2>3, <2>4 DEF TypeOK
<1>19. ASSUME NEW c \in Calls, Finish(c) PROVE TypeOK'
  <2>1. up' \in [Sockets -> Seq(Message)]
    <3>1. CASE cur = None
      <4>1. cur \notin alive
        BY <3>1 DEF TypeOK
      <4> QED BY <1>19, <1>0, <4>1 DEF Finish, Sent
    <3>2. CASE cur \in Sockets
      BY <1>19, <1>0, <1>s, <3>2 DEF Finish
    <3>3. cur \in Sockets \cup {None}
      BY DEF TypeOK
    <3> QED BY <3>1, <3>2, <3>3
  <2>2. local' \in [Calls -> {"none", "active", "suppressed", "retained"}]
    BY <1>19, ZenonT(60) DEF Finish, TypeOK, AfterDelivery
  <2>3. expiry' \in 0 .. DaemonGrace + MaxLateness
    BY <1>19 DEF Finish, TypeOK, Scheduled
  <2> QED BY <1>19, <2>1, <2>2, <2>3 DEF Finish, TypeOK, workerVars, history
<1>20. CASE GraceExpires
  BY <1>20 DEF GraceExpires, TypeOK, workerVars, netVars, history, Retained
<1>21. CASE Crash
  BY <1>21, <1>0, <1>n, RelayAssumption, SMTT(30) DEF Crash, TypeOK, workerVars, history, NoResume
<1>22. CASE Tick
  BY <1>22, <1>0, RegistryTyped, SMTT(30) DEF Tick, TypeOK, netVars, history
<1>23. ASSUME NEW s \in Sockets, Drop(s) PROVE TypeOK'
  BY <1>23 DEF Drop, TypeOK, workerVars, daemonVars, history
<1> QED
  BY <1>1, <1>2, <1>3, <1>4, <1>5, <1>6, <1>7, <1>8, <1>10, <1>11, <1>12, <1>13, <1>14, <1>15,
     <1>16, <1>17, <1>18, <1>19, <1>20, <1>21, <1>22, <1>23
     DEF Next, Untimed, Timed, WorkerStep, DaemonStep
-----------------------------------------------------------------------------
(* What a send or a receipt does to the queues. *)

LEMMA WorkerSends ==
    ASSUME TypeOK, NetworkOK, NEW s \in Sockets, NEW r \in Seq(Message),
           down' = Sent(down, s, r), cur' = cur
    PROVE  /\ \A t \in Sockets : t # s \/ s \notin alive => down'[t] = down[t]
           /\ s \in alive => s = cur /\ down'[s] = down[s] \o r
           /\ Incoming' = IF s \in alive THEN Incoming \cup Contents(r) ELSE Incoming
<1>0. down \in [Sockets -> Seq(Message)] /\ alive \subseteq {cur}
  BY DEF TypeOK, NetworkOK
<1>1. /\ \A t \in Sockets : t # s \/ s \notin alive => down'[t] = down[t]
      /\ s \in alive => s = cur /\ down'[s] = down[s] \o r
  <2>1. \A t \in Sockets : down'[t] = IF t = s /\ s \in alive THEN down[t] \o r ELSE down[t]
    BY <1>0 DEF Sent
  <2> QED BY <1>0, <2>1
<1>2. ASSUME cur # None PROVE cur \in Sockets
  BY <1>2 DEF TypeOK
<1>3. CASE s \in alive
  <2>1. down[s] \in Seq(Message) /\ cur # None
    BY <1>1, <1>3, Numbers DEF TypeOK
  <2>a. Contents(down[s] \o r) = Contents(down[s]) \cup Contents(r)
    BY <2>1, ConcatContents
  <2>2. Contents(down'[s]) = Contents(down[s]) \cup Contents(r)
    BY <1>1, <1>3, <2>a
  <2> QED BY <1>1, <1>3, <2>1, <2>2 DEF Incoming
<1>4. CASE s \notin alive
  BY <1>1, <1>2, <1>4 DEF Incoming
<1> QED BY <1>1, <1>3, <1>4

LEMMA DaemonPops ==
    ASSUME TypeOK, down' = Popped(down, cur), cur \in Sockets, down[cur] # <<>>, cur' = cur
    PROVE  /\ Head(down[cur]) \in Message
           /\ down'[cur] = Tail(down[cur])
           /\ \A t \in Sockets : t # cur => down'[t] = down[t]
           /\ Incoming = {Head(down[cur])} \cup Incoming'
<1>1. cur # None /\ down \in [Sockets -> Seq(Message)]
  BY Numbers DEF TypeOK
<1>2. /\ Head(down[cur]) \in Message
      /\ Contents(down[cur]) = {Head(down[cur])} \cup Contents(Tail(down[cur]))
  BY <1>1, ConsContents
<1>3. down'[cur] = Tail(down[cur]) /\ \A t \in Sockets : t # cur => down'[t] = down[t]
  BY <1>1 DEF Popped
<1> QED BY <1>1, <1>2, <1>3 DEF Incoming

LEMMA DaemonSends ==
    ASSUME TypeOK, NEW r \in Seq(Message), up' = Sent(up, cur, r)
    PROVE  /\ \A t \in Sockets : t # cur \/ cur \notin alive => up'[t] = up[t]
           /\ cur \in alive => up'[cur] = up[cur] \o r
           /\ \A t \in Sockets : Contents(up'[t]) = IF t = cur /\ cur \in alive
                                   THEN Contents(up[t]) \cup Contents(r) ELSE Contents(up[t])
<1>1. /\ \A t \in Sockets : t # cur \/ cur \notin alive => up'[t] = up[t]
      /\ cur \in alive => up'[cur] = up[cur] \o r /\ cur \in Sockets
  <2>1. CASE cur \in Sockets
    <3>1. up \in [Sockets -> Seq(Message)]
      BY DEF TypeOK
    <3>2. \A t \in Sockets : up'[t] = IF t = cur /\ cur \in alive THEN up[t] \o r ELSE up[t]
      BY <2>1, <3>1 DEF Sent
    <3> QED BY <2>1, <3>2
  <2>2. CASE cur \notin Sockets
    BY <2>2 DEF TypeOK, Sent
  <2> QED BY <2>1, <2>2
<1>2. ASSUME cur \in alive PROVE Contents(up'[cur]) = Contents(up[cur]) \cup Contents(r)
  <2>1. up[cur] \in Seq(Message)
    BY <1>1, <1>2 DEF TypeOK
  <2>2. Contents(up[cur] \o r) = Contents(up[cur]) \cup Contents(r)
    BY <2>1, ConcatContents
  <2> QED BY <1>1, <1>2, <2>2
<1> QED BY <1>1, <1>2

LEMMA WorkerPops ==
    ASSUME TypeOK, NEW s \in Sockets, up[s] # <<>>, up' = Popped(up, s)
    PROVE  /\ Head(up[s]) \in Message
           /\ up'[s] = Tail(up[s])
           /\ \A t \in Sockets : t # s => up'[t] = up[t]
           /\ Contents(up[s]) = {Head(up[s])} \cup Contents(up'[s])
<1>1. up \in [Sockets -> Seq(Message)]
  BY DEF TypeOK
<1> QED BY <1>1, ConsContents DEF Popped
-----------------------------------------------------------------------------
(* Sockets and the daemon's session. *)

LEMMA NetworkStep ==
    ASSUME TypeOK, TypeOK', NetworkOK, OwnersOK, HandshakeOK, Next
    PROVE  NetworkOK'
<1> USE Numbers DEF NetworkOK, Early
<1>0. /\ alive \subseteq Sockets /\ role \in [Sockets -> {"none", "probing", "replaced", "daemon", "expired"}]
      /\ up \in [Sockets -> Seq(Message)] /\ down \in [Sockets -> Seq(Message)]
      /\ instanceOf \in [Sockets -> Instances] /\ instance \in Instances
      /\ cur \in Sockets \cup {None} /\ acked \in SUBSET Sockets /\ opened \in Sockets \cup {None}
  BY DEF TypeOK
<1>n. instance \in Nat /\ \A t \in Sockets : instanceOf[t] \in Nat
  BY <1>0
<1>d. ASSUME NEW s \in Sockets, role[s] = "daemon", NEW r, down' = Sent(down, s, r)
      PROVE  \A t \in Sockets : role[t] \in Early => down'[t] = down[t]
  BY <1>0, <1>d DEF Sent
<1>1. ASSUME NEW s \in Sockets, WorkerCloses(s) PROVE NetworkOK'
  BY <1>1, <1>0 DEF WorkerCloses, daemonVars
<1>2. ASSUME NEW s \in Sockets, Promote(s) PROVE NetworkOK'
  BY <1>2, <1>0 DEF Promote, daemonVars, Sent
<1>3. ASSUME NEW s \in Sockets, NEW resumeSent \in BOOLEAN, PromotionFails(s, resumeSent) PROVE NetworkOK'
  BY <1>3, <1>0, SMTT(30) DEF PromotionFails, daemonVars
<1>4. ASSUME NEW s \in Sockets, WorkerResult(s) PROVE NetworkOK'
  BY <1>4, <1>0, <1>d DEF WorkerResult, daemonVars, Popped
<1>5. ASSUME NEW s \in Sockets, WorkerResumeAck(s) PROVE NetworkOK'
  <2>1. \A t \in Sockets : role[t] \in Early => down'[t] = down[t]
    <3>1. CASE Head(up[s]).ids \subseteq expected[s] /\ s \notin acked
      BY <1>5, <1>d, <3>1 DEF WorkerResumeAck
    <3>2. CASE ~(Head(up[s]).ids \subseteq expected[s] /\ s \notin acked)
      BY <1>5, <3>2 DEF WorkerResumeAck
    <3> QED BY <3>1, <3>2
  <2>2. /\ acked' = acked \cup {s} /\ up' = Popped(up, s) /\ role[s] = "daemon"
        /\ UNCHANGED <<role, alive, instanceOf, daemonVars>>
    BY <1>5 DEF WorkerResumeAck
  <2> QED BY <2>1, <2>2, <1>0 DEF daemonVars, Popped
<1>6. ASSUME NEW s \in Sockets, WorkerPong(s) PROVE NetworkOK'
  BY <1>6, <1>0, <1>d DEF WorkerPong, workerVars, daemonVars
<1>7. ASSUME NEW c \in Calls, NEW s \in Sockets, Dispatch(c, s) PROVE NetworkOK'
  BY <1>7, <1>0, <1>d DEF Dispatch, daemonVars
<1>8. ASSUME NEW c \in Calls, NEW s \in Sockets, DispatchFails(c, s) PROVE NetworkOK'
  BY <1>8, <1>0 DEF DispatchFails, daemonVars
<1>9. ASSUME NEW c \in Calls, CancelRequest(c) \/ ExpireCall(c) PROVE NetworkOK'
  <2>1. \A t \in Sockets : role[t] \in Early => down'[t] = down[t]
    <3>1. c \in Pending(rec) /\ (rec[c].owner # None => rec[c].owner \in Sockets /\ role[rec[c].owner] = "daemon")
      BY <1>9 DEF CancelRequest, ExpireCall, OwnersOK, TypeOK, Record, Pending
    <3>2. IF rec[c].owner = None THEN down' = down ELSE down' = Sent(down, rec[c].owner, <<CancelCall(c)>>)
      BY <1>9 DEF CancelRequest, ExpireCall, GiveUp
    <3>3. CASE rec[c].owner = None
      BY <3>2, <3>3
    <3>4. CASE rec[c].owner # None
      BY <1>d, <3>1, <3>2, <3>4
    <3> QED BY <3>3, <3>4
  <2>2. UNCHANGED <<role, acked, alive, up, instanceOf, daemonVars>>
    BY <1>9 DEF CancelRequest, ExpireCall, GiveUp
  <2> QED BY <1>0, <2>1, <2>2 DEF daemonVars
<1>10. ASSUME NEW s \in Sockets, Connect(s) PROVE NetworkOK'
  <2>1. /\ cur = None /\ s = opened + 1 /\ s > opened
        /\ opened' = s /\ cur' = s /\ phase' = "authenticated" /\ resume' = NoResume
        /\ UNCHANGED <<acked, down, instance>>
    BY <1>10, <1>0 DEF Connect
  <2>2. /\ \A t \in Sockets : instanceOf'[t] = IF t = s THEN instance ELSE instanceOf[t]
        /\ \A t \in Sockets : role'[t] = IF t = s THEN "probing"
                                          ELSE IF role[t] = "probing" THEN "replaced" ELSE role[t]
        /\ \A t \in Sockets : up'[t] = IF t = s THEN <<Probed>> ELSE up[t]
    BY <1>10, <1>0 DEF Connect
  <2>3. alive = {} /\ alive' \subseteq {s}
    BY <1>10, <1>0, <2>1 DEF Connect
  <2>4. role[s] = "none" /\ down[s] = <<>> /\ s \notin acked
    BY <2>1
  <2>5. \A t \in Sockets : t > s => t > opened
    BY <1>0, <2>1
  <2>6. /\ \A t \in Sockets : instanceOf'[t] <= instance'
        /\ instanceOf'[s] = instance' /\ role'[s] = "probing" /\ s # None
    BY <1>n, <1>0, <2>1, <2>2
  <2>7. \A t \in Sockets : t > opened' => role'[t] = "none"
    BY <1>0, <2>1, <2>2, <2>5
  <2>8. \A t \in Sockets :
          /\ role'[t] = "none" => up'[t] = <<>>
          /\ role'[t] \in {"probing", "replaced"} => up'[t] = <<Probed>>
          /\ role'[t] \in Early => down'[t] = <<>> /\ t \notin acked'
    BY <1>0, <2>1, <2>2, <2>4, SMTT(30)
  <2>d. \A t \in Sockets : role'[t] = "daemon" => role[t] = "daemon"
    BY <2>2
  <2>9. \A t, u \in Sockets : role'[t] = "daemon" /\ role'[u] = "daemon" => t = u
    BY <2>d
  <2> QED BY <2>1, <2>3, <2>6, <2>7, <2>8, <2>9
<1>11. CASE DaemonCloses
  BY <1>11, <1>0 DEF DaemonCloses, workerVars
<1>12. CASE DaemonResume \/ DaemonReady \/ DaemonToolCall \/ DaemonCancel \/ DaemonAck \/ DaemonPong
  <2>1. cur \in Sockets /\ down[cur] # <<>> /\ down' = Popped(down, cur) /\ role[cur] \notin Early
    BY <1>12, <1>0 DEF DaemonResume, DaemonReady, DaemonToolCall, DaemonCancel, DaemonAck,
       DaemonPong, DaemonHandles
  <2>a. ASSUME NEW r, up' = Sent(up, cur, r) PROVE \A t \in Sockets : t # cur => up'[t] = up[t]
    BY <1>0, <2>a DEF Sent
  <2>b. up' = up \/ \E r : up' = Sent(up, cur, r)
    BY <1>12 DEF DaemonResume, DaemonReady, DaemonToolCall, DaemonCancel, DaemonAck, DaemonPong
  <2>2. \A t \in Sockets : t # cur => up'[t] = up[t]
    BY <2>a, <2>b
  <2>3. UNCHANGED <<role, alive, instanceOf, instance, cur, opened, acked>>
    BY <1>12 DEF DaemonResume, DaemonReady, DaemonToolCall, DaemonCancel, DaemonAck,
       DaemonPong, workerVars, daemonVars
  <2>4. /\ phase' = "closed" <=> phase = "closed"
        /\ phase' # "authenticated" => resume' = NoResume
    BY <1>12 DEF DaemonResume, DaemonReady, DaemonToolCall, DaemonCancel, DaemonAck,
       DaemonPong, daemonVars
  <2> QED BY <1>0, <2>1, <2>2, <2>3, <2>4 DEF Popped
<1>13. ASSUME NEW c \in Calls, Finish(c) PROVE NetworkOK'
  BY <1>13, <1>0 DEF Finish, workerVars, Sent
<1>14. CASE GraceExpires \/ Tick
  <2>1. UNCHANGED <<role, acked, netVars, cur, phase, resume, instance, opened>>
    BY <1>14 DEF GraceExpires, Tick, workerVars
  <2>2. phase' = "ready" => phase = "ready"
    BY <2>1
  <2> QED BY <1>0, <2>1 DEF netVars
<1>15. CASE Crash
  <2>1. /\ alive' = alive \ {cur} /\ cur' = None /\ phase' = "closed" /\ resume' = NoResume
        /\ \A t \in Sockets : down'[t] = IF t = cur THEN <<>> ELSE down[t]
        /\ instance' = instance + 1
        /\ UNCHANGED <<role, acked, up, instanceOf, opened>>
    BY <1>15 DEF Crash, workerVars
  <2>2. \A t \in Sockets : instanceOf[t] <= instance'
    BY <1>n, <2>1
  <2>3. phase' # "ready" /\ alive' = {}
    BY <2>1
  <2> QED BY <1>0, <2>1, <2>2, <2>3
<1>16. ASSUME NEW s \in Sockets, Drop(s) PROVE NetworkOK'
  BY <1>16, <1>0 DEF Drop, workerVars, daemonVars
<1> QED
  BY <1>1, <1>2, <1>3, <1>4, <1>5, <1>6, <1>7, <1>8, <1>9, <1>10, <1>11, <1>12, <1>13, <1>14,
     <1>15, <1>16 DEF Next, Untimed, Timed, WorkerStep, DaemonStep
-----------------------------------------------------------------------------
(* The handshake. *)

LEMMA MessageTypes ==
    /\ \A m \in Traffic : m \in Message
                          /\ m.type \in {"tool_call", "cancel_call", "tool_result_ack", "pong"}
    /\ \A m \in Resumes : m \in Message /\ m.type = "resume_calls"
    /\ \A m \in Acks : m \in Message /\ m.type = "resume_calls_ack"
    /\ ReadyAck.type = "ready_ack"
    /\ \A m \in Message : m.type = "resume_calls" => m \in Resumes
    /\ \A m \in Message : m.type = "resume_calls_ack" => m \in Acks
<1>1. \A m \in Traffic : m \in Message
                          /\ m.type \in {"tool_call", "cancel_call", "tool_result_ack", "pong"}
  <2> TAKE m \in Traffic
  <2>1. CASE \E c \in Calls : m = ToolCall(c)
    BY <2>1, Constructors DEF ToolCall
  <2>2. CASE \E c \in Calls : m = CancelCall(c)
    BY <2>2, Constructors DEF CancelCall
  <2>3. CASE \E c \in Calls : m = ResultAck(c)
    BY <2>3, Constructors DEF ResultAck
  <2>4. CASE m = Pong
    BY <2>4, Constructors DEF Pong
  <2> QED BY <2>1, <2>2, <2>3, <2>4 DEF Traffic
<1>2. \A m \in Resumes : m \in Message /\ m.type = "resume_calls"
  BY Constructors DEF Resumes, Resume
<1>3. \A m \in Acks : m \in Message /\ m.type = "resume_calls_ack"
  BY Constructors DEF Acks, ResumeAck
<1>4. ReadyAck.type = "ready_ack"
  BY DEF ReadyAck
<1>5. \A m \in Message : /\ m.type = "resume_calls" => m \in Resumes
                         /\ m.type = "resume_calls_ack" => m \in Acks
  BY Kinds DEF Resumes, Acks
<1> QED BY <1>1, <1>2, <1>3, <1>4, <1>5

(* What the head of the daemon's queue tells about its session. *)
LEMMA Shapes ==
    ASSUME TypeOK, NetworkOK, HandshakeOK, cur \in Sockets, down[cur] # <<>>
    PROVE  LET kind == Head(down[cur]).type
           IN  /\ kind = "resume_calls" =>
                    phase = "authenticated" /\ ~resume.known /\ (Opening(down[cur]) \/ Broken(down[cur]))
               /\ kind = "ready_ack" =>
                    phase = "authenticated" /\ resume.known /\ Announced(down[cur])
               /\ kind \in {"tool_call", "cancel_call", "tool_result_ack", "pong"} =>
                    phase = "ready" /\ Contents(down[cur]) \subseteq Traffic
<1> DEFINE kind == Head(down[cur]).type
<1>1. Head(down[cur]) \in Contents(down[cur])
  BY ConsContents DEF TypeOK
<1>2. phase \in {"authenticated", "ready"}
  BY Numbers DEF NetworkOK, TypeOK
<1>3. CASE phase = "ready"
  <2>1. Contents(down[cur]) \subseteq Traffic
    BY <1>3 DEF HandshakeOK
  <2>2. kind \in {"tool_call", "cancel_call", "tool_result_ack", "pong"}
    BY <1>1, <2>1, MessageTypes
  <2> QED BY <1>3, <2>1, <2>2
<1>4. CASE phase = "authenticated"
  <2>1. \/ (Opening(down[cur]) \/ Broken(down[cur])) /\ ~resume.known
        \/ Announced(down[cur]) /\ resume.known
    BY <1>4 DEF HandshakeOK
  <2>2. CASE (Opening(down[cur]) \/ Broken(down[cur])) /\ ~resume.known
    <3>1. kind = "resume_calls"
      BY <2>2, MessageTypes DEF Opening, Broken
    <3> QED BY <1>4, <2>2, <3>1
  <2>3. CASE Announced(down[cur]) /\ resume.known
    <3>1. kind = "ready_ack"
      BY <2>3, MessageTypes DEF Announced
    <3> QED BY <1>4, <2>3, <3>1
  <2> QED BY <2>1, <2>2, <2>3
<1> QED BY <1>2, <1>3, <1>4

(* Traffic sent to a ready socket comes after the handshake. *)
LEMMA TrafficLast ==
    ASSUME TypeOK, NetworkOK, HandshakeOK,
           NEW s \in Sockets, role[s] = "daemon",
           NEW r \in Seq(Message), Contents(r) \subseteq Traffic, down' = Sent(down, s, r),
           UNCHANGED <<cur, phase, resume, role, alive>>
    PROVE  HandshakeOK'
<1>0. down \in [Sockets -> Seq(Message)]
  BY DEF TypeOK
<1>1. /\ \A t \in Sockets : t # s \/ s \notin alive => down'[t] = down[t]
      /\ s \in alive => s = cur /\ down'[s] = down[s] \o r
  BY WorkerSends
<1>2. CASE s \notin alive \/ cur = None
  <2>1. cur = None => phase = "closed"
    BY DEF NetworkOK
  <2>2. cur # None => down'[cur] = down[cur]
    BY <1>1, <1>2 DEF TypeOK
  <2> QED BY <2>1, <2>2 DEF HandshakeOK
<1>3. CASE s \in alive /\ cur # None
  <2>1. s = cur /\ down'[cur] = down[cur] \o r /\ down[cur] \in Seq(Message)
    BY <1>0, <1>1, <1>3
  <2>a. Contents(down[cur] \o r) = Contents(down[cur]) \cup Contents(r)
    BY <2>1, ConcatContents
  <2>2. Contents(down'[cur]) = Contents(down[cur]) \cup Contents(r)
    BY <2>1, <2>a
  <2>3. ASSUME NEW q \in Seq(Message), Announced(q) PROVE Announced(q \o r)
    <3>1. q # <<>> /\ Tail(q) \in Seq(Message)
      BY <2>3, ConsContents DEF Announced
    <3>2. /\ q \o r # <<>> /\ Head(q \o r) = Head(q) /\ Tail(q \o r) = Tail(q) \o r
      BY <3>1, ConcatShape
    <3>3. Contents(Tail(q) \o r) = Contents(Tail(q)) \cup Contents(r)
      BY <3>1, ConcatContents, ZenonT(60)
    <3> QED BY <2>3, <3>2, <3>3 DEF Announced
  <2>4. Opening(down[cur]) => Opening(down'[cur])
    <3> SUFFICES ASSUME Opening(down[cur]) PROVE Opening(down'[cur])
      OBVIOUS
    <3>1. down[cur] # <<>> /\ Tail(down[cur]) \in Seq(Message)
      BY <2>1, ConsContents DEF Opening
    <3>2. /\ down'[cur] # <<>> /\ Head(down'[cur]) = Head(down[cur])
          /\ Tail(down'[cur]) = Tail(down[cur]) \o r
      <4>1. /\ down[cur] \o r # <<>> /\ Head(down[cur] \o r) = Head(down[cur])
            /\ Tail(down[cur] \o r) = Tail(down[cur]) \o r
        BY <2>1, <3>1, ConcatShape
      <4> QED BY <2>1, <4>1
    <3> QED BY <2>3, <3>1, <3>2 DEF Opening
  <2>5. Announced(down[cur]) => Announced(down'[cur])
    BY <2>1, <2>3
  <2>6. phase = "authenticated" => \/ Opening(down[cur]) /\ ~resume.known
                                   \/ Announced(down[cur]) /\ resume.known
    BY <1>3, <2>1 DEF HandshakeOK
  <2> QED BY <2>2, <2>4, <2>5, <2>6 DEF HandshakeOK
<1> QED BY <1>2, <1>3

LEMMA HandshakeStep ==
    ASSUME TypeOK, NetworkOK, HandshakeOK, OwnersOK, Next
    PROVE  HandshakeOK'
<1> USE Numbers
<1>0. /\ alive \subseteq Sockets /\ role \in [Sockets -> {"none", "probing", "replaced", "daemon", "expired"}]
      /\ up \in [Sockets -> Seq(Message)] /\ down \in [Sockets -> Seq(Message)]
      /\ cur \in Sockets \cup {None}
  BY DEF TypeOK
<1>a. (cur = None <=> phase = "closed") /\ alive \subseteq {cur}
  BY DEF NetworkOK
<1>t. /\ \A c \in Calls : /\ {ToolCall(c), CancelCall(c), ResultAck(c)} \subseteq Traffic
      /\ Pong \in Traffic
  BY DEF Traffic
<1>s. ASSUME NEW s \in Sockets, role[s] = "daemon", NEW m \in Traffic,
             down' = Sent(down, s, <<m>>), UNCHANGED <<cur, phase, resume, role, alive>>
      PROVE  HandshakeOK'
  <2>1. m \in Message
    BY MessageTypes
  <2>2. <<m>> \in Seq(Message) /\ Contents(<<m>>) = {m}
    BY <2>1, SingleContents
  <2> QED BY <1>s, <2>2, TrafficLast
<1>u. ASSUME UNCHANGED <<cur, phase, resume, down>>,
             cur # None => /\ role'[cur] = role[cur]
                              \/ (role'[cur] = "expired" /\ role[cur] = "daemon")
                           /\ cur \in alive' => cur \in alive /\ role'[cur] = role[cur]
      PROVE  HandshakeOK'
  BY <1>u, <1>a DEF HandshakeOK
<1>1. ASSUME NEW s \in Sockets, WorkerCloses(s) PROVE HandshakeOK'
  <2>1. CASE s = cur /\ role[s] # "daemon"
    <3>1. down[cur] = <<>> /\ cur \notin alive'
      BY <1>1, <2>1 DEF WorkerCloses, NetworkOK, Early
    <3> QED BY <1>1, <1>0, <2>1, <3>1 DEF WorkerCloses, HandshakeOK, daemonVars, NetworkOK
  <2>2. CASE ~(s = cur /\ role[s] # "daemon")
    <3>1. UNCHANGED <<cur, phase, resume, down, alive>> /\ role' = [role EXCEPT ![s] = "expired"]
          /\ s \notin alive
      BY <1>1 DEF WorkerCloses, daemonVars
    <3> QED BY <1>0, <1>u, <2>2, <3>1
  <2> QED BY <2>1, <2>2
<1>2. ASSUME NEW s \in Sockets, Promote(s) PROVE HandshakeOK'
  <2> DEFINE ids == ReboundCalls(rec, instanceOf[s], s)
  <2>0. /\ UNCHANGED <<cur, phase, resume>> /\ down' = Sent(down, s, <<Resume(ids), ReadyAck>>)
        /\ role[s] = "probing" /\ role'[s] = "daemon" /\ alive' \subseteq alive
        /\ \A t \in Sockets \ {s} : /\ role'[t] = role[t] \/ (role'[t] = "expired" /\ role[t] = "daemon")
                                    /\ role'[t] # role[t] => t \notin alive'
    BY <1>2, <1>0 DEF Promote, PromotionMessages, daemonVars
  <2>1. ids \in SUBSET Calls
    BY DEF ReboundCalls, Pending
  <2>2. CASE s = cur
    <3>1. phase = "authenticated" /\ resume = NoResume /\ down[s] = <<>>
      BY <2>0, <2>2 DEF NetworkOK, Early
    <3>2. CASE s \notin alive
      BY <2>0, <2>2, <3>1, <3>2 DEF HandshakeOK, Sent
    <3>3. CASE s \in alive
      <4>1. <<Resume(ids), ReadyAck>> \in Seq(Message)
        BY <2>1, Constructors
      <4>2. down'[s] = <<Resume(ids), ReadyAck>>
        BY <1>0, <2>0, <3>1, <3>3, <4>1, ConcatEmptySeq DEF Sent
      <4>3. Tail(<<Resume(ids), ReadyAck>>) = <<ReadyAck>> /\ Head(<<Resume(ids), ReadyAck>>) = Resume(ids)
        OBVIOUS
      <4>4. Announced(<<ReadyAck>>)
        BY EmptyContents DEF Announced
      <4>5. Opening(down'[s])
        BY <2>1, <4>2, <4>3, <4>4 DEF Opening, Resumes
      <4> QED BY <2>0, <2>2, <3>1, <4>5 DEF HandshakeOK, NoResume
    <3> QED BY <3>2, <3>3
  <2>3. CASE s # cur
    <3>1. s \notin alive /\ down' = down
      BY <1>a, <2>0, <2>3 DEF Sent
    <3> QED BY <1>0, <1>u, <2>0, <2>3, <3>1
  <2> QED BY <2>2, <2>3
<1>3. ASSUME NEW s \in Sockets, NEW resumeSent \in BOOLEAN, PromotionFails(s, resumeSent) PROVE HandshakeOK'
  <2> DEFINE ids == ReboundCalls(rec, instanceOf[s], s)
  <2>0. /\ UNCHANGED <<cur, phase, resume, alive>> /\ s \notin alive
        /\ role[s] \in {"probing", "replaced"} /\ role' = [role EXCEPT ![s] = "expired"]
        /\ down' \in {down, [down EXCEPT ![s] = @ \o <<Resume(ids)>>]}
    BY <1>3, <1>0 DEF PromotionFails, daemonVars
  <2>1. ids \in SUBSET Calls
    BY DEF ReboundCalls, Pending
  <2>2. CASE s = cur
    <3>1. phase = "authenticated" /\ resume = NoResume /\ down[s] = <<>>
      BY <2>0, <2>2 DEF NetworkOK, Early
    <3>2. <<Resume(ids)>> \in Seq(Message)
      BY <2>1, Constructors, SingleContents
    <3>3. down'[s] = <<>> \/ down'[s] = <<Resume(ids)>>
      BY <1>0, <2>0, <3>1, <3>2, ConcatEmptySeq
    <3>4. Broken(<<Resume(ids)>>)
      BY <2>1 DEF Broken, Resumes
    <3>5. role'[cur] = "expired"
      BY <1>0, <2>0, <2>2
    <3> QED BY <2>0, <2>2, <3>1, <3>3, <3>4, <3>5 DEF HandshakeOK, NoResume
  <2>3. CASE s # cur
    <3>1. cur # None => down'[cur] = down[cur] /\ role'[cur] = role[cur]
      BY <1>0, <2>0, <2>3
    <3> QED BY <1>a, <2>0, <3>1 DEF HandshakeOK
  <2> QED BY <2>2, <2>3
<1>4. ASSUME NEW s \in Sockets, WorkerResult(s) PROVE HandshakeOK'
  <2>0. /\ down' = Sent(down, s, Acknowledgement(Head(up[s]).id, s)) /\ role[s] = "daemon"
        /\ UNCHANGED <<cur, phase, resume, role, alive>> /\ up[s] # <<>> /\ Head(up[s]).type = "tool_result"
    BY <1>4 DEF WorkerResult, WorkerHandles, daemonVars
  <2>1. Head(up[s]).id \in Calls
    BY <1>0, <2>0, ConsContents, Kinds
  <2>2. CASE Acknowledgement(Head(up[s]).id, s) = <<>>
    BY <2>0, <2>2, TrafficLast, EmptyContents, EmptySeq
  <2>3. CASE Acknowledgement(Head(up[s]).id, s) = <<ResultAck(Head(up[s]).id)>>
    BY <1>s, <1>t, <2>0, <2>1, <2>3
  <2> QED BY <2>2, <2>3 DEF Acknowledgement
<1>5. ASSUME NEW s \in Sockets, WorkerResumeAck(s) PROVE HandshakeOK'
  <2> DEFINE owned == Head(up[s]).ids \cap OwnedBy(rec, s)
             again == {c \in owned : rec[c].redelivered = None /\ RedeliveryAllowed(c)}
  <2>1. again \in SUBSET Calls
    BY DEF OwnedBy, Pending
  <2>2. UNCHANGED <<cur, phase, resume, role, alive>> /\ role[s] = "daemon"
    BY <1>5 DEF WorkerResumeAck, daemonVars
  <2>3. CASE down' = down
    BY <1>u, <2>2, <2>3
  <2>4. CASE \E q \in Orders(again) : down' = Sent(down, s, [i \in DOMAIN q |-> ToolCall(q[i])])
    <3>1. PICK q \in Orders(again) : down' = Sent(down, s, [i \in DOMAIN q |-> ToolCall(q[i])])
      BY <2>4
    <3> DEFINE r == [i \in DOMAIN q |-> ToolCall(q[i])]
    <3>2. r \in Seq(Message) /\ Contents(r) \subseteq {ToolCall(c) : c \in again}
      BY <2>1, CallsInOrder
    <3>3. Contents(r) \subseteq Traffic
      BY <1>t, <2>1, <3>2
    <3> HIDE DEF r
    <3> QED BY <2>2, <3>1, <3>2, <3>3, TrafficLast DEF r
  <2> QED BY <1>5, <2>3, <2>4 DEF WorkerResumeAck
<1>6. ASSUME NEW s \in Sockets, WorkerPong(s) PROVE HandshakeOK'
  BY <1>6, <1>s, <1>t DEF WorkerPong, daemonVars, workerVars
<1>7. ASSUME NEW c \in Calls, NEW s \in Sockets, Dispatch(c, s) PROVE HandshakeOK'
  BY <1>7, <1>s, <1>t DEF Dispatch, daemonVars
<1>8. ASSUME NEW c \in Calls, NEW s \in Sockets, DispatchFails(c, s) PROVE HandshakeOK'
  <2>1. UNCHANGED <<cur, phase, resume, down, alive>> /\ role' = [role EXCEPT ![s] = "expired"]
        /\ s \notin alive /\ role[s] = "daemon"
    BY <1>8 DEF DispatchFails, daemonVars
  <2> QED BY <1>0, <1>u, <2>1
<1>9. ASSUME NEW c \in Calls, CancelRequest(c) \/ ExpireCall(c) PROVE HandshakeOK'
  <2>1. c \in Pending(rec) /\ (rec[c].owner # None => rec[c].owner \in Sockets /\ role[rec[c].owner] = "daemon")
    BY <1>9 DEF CancelRequest, ExpireCall, OwnersOK, TypeOK, Record, Pending
  <2>2. /\ IF rec[c].owner = None THEN down' = down ELSE down' = Sent(down, rec[c].owner, <<CancelCall(c)>>)
        /\ UNCHANGED <<cur, phase, resume, role, alive>>
    BY <1>9 DEF CancelRequest, ExpireCall, GiveUp, daemonVars
  <2>3. CASE rec[c].owner = None
    BY <1>u, <2>2, <2>3
  <2>4. CASE rec[c].owner # None
    BY <1>s, <1>t, <2>1, <2>2, <2>4
  <2> QED BY <2>3, <2>4
<1>10. ASSUME NEW s \in Sockets, Connect(s) PROVE HandshakeOK'
  <2>1. /\ s > opened /\ cur' = s /\ phase' = "authenticated" /\ role'[s] = "probing" /\ down' = down
    BY <1>10, <1>0 DEF Connect, TypeOK
  <2>2. down[s] = <<>>
    BY <2>1 DEF NetworkOK, Early
  <2> QED BY <2>1, <2>2 DEF HandshakeOK
<1>11. CASE DaemonCloses \/ Crash
  BY <1>11 DEF DaemonCloses, Crash, HandshakeOK
<1>12. CASE DaemonResume
  <2>0. /\ cur \in Sockets /\ down[cur] # <<>> /\ Head(down[cur]).type = "resume_calls"
        /\ down' = Popped(down, cur) /\ UNCHANGED <<cur, phase, role, alive>>
    BY <1>12, <1>0 DEF DaemonResume, DaemonHandles, workerVars
  <2>1. phase = "authenticated" /\ ~resume.known /\ (Opening(down[cur]) \/ Broken(down[cur]))
    BY <2>0, Shapes
  <2>2. resume'.known
    BY <1>12, <2>1 DEF DaemonResume
  <2>3. down'[cur] = Tail(down[cur])
    BY <2>0, DaemonPops
  <2>4. CASE Opening(down[cur])
    BY <2>0, <2>1, <2>2, <2>3, <2>4 DEF Opening, HandshakeOK
  <2>5. CASE Broken(down[cur])
    <3>1. role[cur] = "expired"
      <4>1. ~Opening(down[cur])
        BY <2>5 DEF Opening, Broken, Announced
      <4>2. ~Announced(down[cur])
        BY <2>5, MessageTypes DEF Broken, Announced
      <4> QED BY <2>0, <2>1, <4>1, <4>2 DEF HandshakeOK
    <3> QED BY <2>0, <2>1, <2>3, <2>5, <3>1 DEF Broken, HandshakeOK
  <2> QED BY <2>1, <2>4, <2>5
<1>13. CASE DaemonReady
  <2>0. /\ cur \in Sockets /\ down[cur] # <<>> /\ Head(down[cur]).type = "ready_ack"
        /\ down' = Popped(down, cur) /\ cur' = cur
    BY <1>13, <1>0 DEF DaemonReady, DaemonHandles
  <2>1. phase = "authenticated" /\ resume.known /\ Announced(down[cur])
    BY <2>0, Shapes
  <2>2. phase' = "ready"
    BY <1>13, <2>1 DEF DaemonReady
  <2>3. down'[cur] = Tail(down[cur])
    BY <2>0, DaemonPops
  <2> QED BY <2>0, <2>1, <2>2, <2>3 DEF Announced, HandshakeOK
<1>14. CASE DaemonToolCall \/ DaemonCancel \/ DaemonAck \/ DaemonPong
  <2>0. /\ cur \in Sockets /\ down[cur] # <<>>
        /\ Head(down[cur]).type \in {"tool_call", "cancel_call", "tool_result_ack", "pong"}
        /\ down' = Popped(down, cur) /\ UNCHANGED <<cur, phase>>
    BY <1>14, <1>0 DEF DaemonToolCall, DaemonCancel, DaemonAck, DaemonPong, DaemonHandles, daemonVars
  <2>1. phase = "ready" /\ Contents(down[cur]) \subseteq Traffic
    BY <2>0, Shapes
  <2>2. Contents(down'[cur]) \subseteq Contents(down[cur])
    BY <1>0, <2>0, DaemonPops, ConsContents
  <2> QED BY <2>0, <2>1, <2>2 DEF HandshakeOK
<1>15. CASE \/ \E c \in Calls : Finish(c)
            \/ GraceExpires \/ Tick \/ \E s \in Sockets : Drop(s)
  <2>1. UNCHANGED <<cur, phase, resume, role, down>> /\ alive' \subseteq alive
    BY <1>15 DEF Finish, GraceExpires, Tick, Drop, workerVars, netVars, daemonVars
  <2> QED BY <1>u, <2>1
<1> QED
  BY <1>1, <1>2, <1>3, <1>4, <1>5, <1>6, <1>7, <1>8, <1>9, <1>10, <1>11, <1>12, <1>13, <1>14,
     <1>15 DEF Next, Untimed, Timed, WorkerStep, DaemonStep
-----------------------------------------------------------------------------
(* Resume acknowledgements. *)

(* Nothing acknowledged in error: a step that queues no acknowledgement and  *)
(* no list of calls to resume on a ready socket. *)
LEMMA AcksFrame ==
    ASSUME AcksOK, cur' \in {cur, None}, acked' = acked,
           cur' # None => phase' = phase /\ resume' = resume,
           \A s \in Sockets : /\ AtMostOne(up'[s], Acks)
                              /\ Contents(up'[s]) \cap Acks \subseteq Contents(up[s]),
           \A s \in Sockets : role'[s] = "daemon" => role[s] = "daemon" /\ expected'[s] = expected[s],
           cur' # None /\ role'[cur'] = "daemon" => Incoming' \cap Resumes \subseteq Incoming,
           cur \in Sockets \cup {None}, acked \subseteq Sockets
    PROVE  AcksOK'
<1>1. \A S \in SUBSET Calls : ResumeAck(S) \in Acks /\ Resume(S) \in Resumes
  BY DEF Acks, Resumes
<1>2. cur' # None => cur' = cur /\ cur # None /\ cur \in Sockets
  OBVIOUS
<1>3. cur' # None /\ phase' # "ready" => cur' \notin acked' /\ Contents(up'[cur']) \cap Acks = {}
  BY <1>2 DEF AcksOK
<1>4. \A s \in acked' : Contents(up'[s]) \cap Acks = {}
  BY DEF AcksOK
<1>5. \A s \in Sockets, S \in SUBSET Calls :
          role'[s] = "daemon" /\ ResumeAck(S) \in Contents(up'[s]) => S \subseteq expected'[s]
  BY <1>1 DEF AcksOK
<1>6. cur' # None /\ role'[cur'] = "daemon" =>
          /\ resume'.missing \subseteq expected'[cur']
          /\ \A S \in SUBSET Calls : Resume(S) \in Incoming' => S \subseteq expected'[cur']
  BY <1>1, <1>2 DEF AcksOK
<1> QED BY <1>3, <1>4, <1>5, <1>6 DEF AcksOK

LEMMA NoAckSent ==
    ASSUME TypeOK, AcksOK, NEW r \in Seq(Message), Contents(r) \cap Acks = {}, up' = Sent(up, cur, r)
    PROVE  \A s \in Sockets : /\ AtMostOne(up'[s], Acks)
                              /\ Contents(up'[s]) \cap Acks \subseteq Contents(up[s])
<1>0. up \in [Sockets -> Seq(Message)]
  BY DEF TypeOK
<1> SUFFICES ASSUME NEW s \in Sockets
             PROVE  AtMostOne(up'[s], Acks) /\ Contents(up'[s]) \cap Acks \subseteq Contents(up[s])
  OBVIOUS
<1>1. CASE s = cur /\ cur \in alive
  <2>1. up'[s] = up[s] \o r /\ Contents(up'[s]) = Contents(up[s]) \cup Contents(r)
    BY <1>1, DaemonSends
  <2>2. AtMostOne(r, Acks) /\ AtMostOne(up[s], Acks)
    BY AtMostOneAbsent DEF AcksOK
  <2>3. AtMostOne(up[s] \o r, Acks)
    BY <1>0, <2>2, AtMostOneConcat
  <2> QED BY <2>1, <2>3
<1>2. CASE ~(s = cur /\ cur \in alive)
  BY <1>2, DaemonSends DEF AcksOK
<1> QED BY <1>1, <1>2

LEMMA AcksStep ==
    ASSUME TypeOK, NetworkOK, HandshakeOK, AcksOK, OwnersOK, Next
    PROVE  AcksOK'
<1> USE Numbers
<1>0. /\ role \in [Sockets -> {"none", "probing", "replaced", "daemon", "expired"}]
      /\ up \in [Sockets -> Seq(Message)] /\ down \in [Sockets -> Seq(Message)]
      /\ expected \in [Sockets -> SUBSET Calls]
      /\ cur \in Sockets \cup {None} /\ acked \subseteq Sockets /\ alive \subseteq Sockets
  BY DEF TypeOK
<1>a. \A s \in Sockets : AtMostOne(up[s], Acks)
  BY DEF AcksOK
<1>n. Contents(<<>>) = {} /\ AtMostOne(<<>>, Acks)
  BY EmptyContents, AtMostOneAbsent
<1>m. /\ Traffic \cap Resumes = {} /\ ReadyAck \notin Resumes
      /\ \A c \in Calls : Result(c) \notin Acks /\ Result(c) \in Message
      /\ \A S \in SUBSET Calls : Resume(S) \in Resumes /\ ResumeAck(S) \in Acks
  BY MessageTypes, Constructors DEF Result, Resumes, Acks
<1>i. UNCHANGED <<cur, down>> => Incoming' = Incoming
  BY DEF Incoming
<1>t. ASSUME NEW s \in Sockets, NEW m \in Traffic, down' = Sent(down, s, <<m>>), cur' = cur
      PROVE  Incoming' \cap Resumes \subseteq Incoming
  <2>1. <<m>> \in Seq(Message) /\ Contents(<<m>>) = {m}
    BY MessageTypes, SingleContents
  <2>2. Incoming' = Incoming \/ Incoming' = Incoming \cup Contents(<<m>>)
    BY <1>t, <2>1, WorkerSends
  <2> QED BY <1>m, <2>1, <2>2
<1>tr. /\ \A c \in Calls : /\ {ToolCall(c), CancelCall(c), ResultAck(c)} \subseteq Traffic
       /\ Pong \in Traffic
  BY DEF Traffic
(* Steps that leave up alone or empty some of its queues. *)
<1>f. ASSUME cur' \in {cur, None}, acked' = acked,
             cur' # None => phase' = phase /\ resume' = resume,
             \A s \in Sockets : up'[s] \in {up[s], <<>>},
             \A s \in Sockets : role'[s] = "daemon" => role[s] = "daemon" /\ expected'[s] = expected[s],
             cur' # None /\ role'[cur'] = "daemon" => Incoming' \cap Resumes \subseteq Incoming
      PROVE  AcksOK'
  <2>1. \A s \in Sockets : /\ AtMostOne(up'[s], Acks)
                           /\ Contents(up'[s]) \cap Acks \subseteq Contents(up[s])
    BY <1>a, <1>f, <1>n
  <2> QED BY <1>0, <1>f, <2>1, AcksFrame
<1>1. ASSUME NEW s \in Sockets, WorkerCloses(s) PROVE AcksOK'
  <2>1. /\ UNCHANGED <<acked, cur, phase, resume, down>>
        /\ role' = [role EXCEPT ![s] = "expired"] /\ expected' = [expected EXCEPT ![s] = {}]
        /\ up' = [up EXCEPT ![s] = <<>>]
    BY <1>1 DEF WorkerCloses, daemonVars
  <2> QED BY <1>0, <1>f, <1>i, <2>1
<1>2. ASSUME NEW s \in Sockets, Promote(s) PROVE AcksOK'
  <2> DEFINE ids == ReboundCalls(rec, instanceOf[s], s)
             previous == {t \in Sockets \ {s} : role[t] = "daemon"}
  <2>0. /\ UNCHANGED <<cur, phase, resume, acked>> /\ down' = Sent(down, s, <<Resume(ids), ReadyAck>>)
        /\ role[s] = "probing"
        /\ \A t \in Sockets : /\ role'[t] = IF t = s THEN "daemon" ELSE IF t \in previous THEN "expired" ELSE role[t]
                              /\ expected'[t] = IF t = s THEN ids ELSE IF t \in previous THEN {} ELSE expected[t]
                              /\ up'[t] = IF t = s THEN Tail(up[s]) ELSE IF t \in previous THEN <<>> ELSE up[t]
    BY <1>2, <1>0 DEF Promote, PromotionMessages, daemonVars
  <2>1. ids \in SUBSET Calls
    BY DEF ReboundCalls, Pending
  <2>2. up'[s] = <<>> /\ s \notin acked
    <3>1. up[s] = <<Probed>> /\ s \notin acked
      BY <2>0 DEF NetworkOK, Early
    <3>2. Tail(<<Probed>>) = <<>>
      OBVIOUS
    <3> QED BY <2>0, <3>1, <3>2
  <2>3. \A t \in Sockets : /\ AtMostOne(up'[t], Acks) /\ Contents(up'[t]) \subseteq Contents(up[t])
    BY <1>a, <1>n, <2>0, <2>2
  <2>4. cur # None /\ role'[cur] = "daemon" => cur = s
    BY <1>0, <2>0
  <2>5. cur = s => resume.missing = {} /\ \A S \in SUBSET Calls : Resume(S) \in Incoming' => S = ids
    <3> SUFFICES ASSUME cur = s
                 PROVE  resume.missing = {} /\ \A S \in SUBSET Calls : Resume(S) \in Incoming' => S = ids
      OBVIOUS
    <3>1. resume = NoResume /\ down[s] = <<>>
      BY <2>0 DEF NetworkOK, Early
    <3>2. <<Resume(ids), ReadyAck>> \in Seq(Message)
      BY <2>1, Constructors
    <3>3. Incoming = {}
      BY <1>n, <3>1 DEF Incoming
    <3>4. Incoming' \subseteq Contents(<<Resume(ids), ReadyAck>>)
      BY <2>0, <3>2, <3>3, WorkerSends
    <3>5. Contents(<<Resume(ids), ReadyAck>>) = {Resume(ids), ReadyAck}
      BY DEF Contents
    <3>6. \A S \in SUBSET Calls : Resume(S) # ReadyAck /\ (Resume(S) = Resume(ids) => S = ids)
      BY DEF Resume, ReadyAck
    <3> QED BY <3>1, <3>4, <3>5, <3>6 DEF NoResume
  <2>6. \A t \in Sockets, S \in SUBSET Calls :
           role'[t] = "daemon" /\ ResumeAck(S) \in Contents(up'[t]) => S \subseteq expected'[t]
    <3> TAKE t \in Sockets, S \in SUBSET Calls
    <3>1. CASE t = s
      BY <1>n, <2>2, <3>1
    <3>2. CASE t # s
      BY <2>0, <2>3, <3>2 DEF AcksOK
    <3> QED BY <3>1, <3>2
  <2>7. cur' # None /\ phase' # "ready" => cur' \notin acked' /\ Contents(up'[cur']) \cap Acks = {}
    BY <1>0, <2>0, <2>3 DEF AcksOK
  <2>8. \A t \in acked' : Contents(up'[t]) \cap Acks = {}
    BY <1>0, <2>0, <2>3 DEF AcksOK
  <2>9. cur' # None /\ role'[cur'] = "daemon" =>
          /\ resume'.missing \subseteq expected'[cur']
          /\ \A S \in SUBSET Calls : Resume(S) \in Incoming' => S \subseteq expected'[cur']
    BY <2>0, <2>4, <2>5
  <2> QED BY <2>3, <2>6, <2>7, <2>8, <2>9 DEF AcksOK
<1>3. ASSUME NEW s \in Sockets, NEW resumeSent \in BOOLEAN, PromotionFails(s, resumeSent) PROVE AcksOK'
  <2> DEFINE ids == ReboundCalls(rec, instanceOf[s], s)
  <2>0. /\ UNCHANGED <<cur, phase, resume, acked, expected>>
        /\ role' = [role EXCEPT ![s] = "expired"]
        /\ up' = [up EXCEPT ![s] = <<>>]
        /\ down' \in {down, [down EXCEPT ![s] = @ \o <<Resume(ids)>>]}
    BY <1>3, <1>0 DEF PromotionFails, daemonVars
  <2>1. cur # None /\ role'[cur] = "daemon" => down'[cur] = down[cur]
    BY <1>0, <2>0
  <2>2. cur # None /\ role'[cur] = "daemon" => Incoming' = Incoming
    BY <2>0, <2>1 DEF Incoming
  <2> QED BY <1>0, <1>f, <2>0, <2>2
<1>4. ASSUME NEW s \in Sockets, WorkerResult(s) PROVE AcksOK'
  <2>0. /\ down' = Sent(down, s, Acknowledgement(Head(up[s]).id, s)) /\ up[s] # <<>>
        /\ Head(up[s]).type = "tool_result" /\ up' = Popped(up, s)
        /\ UNCHANGED <<cur, phase, resume, role, expected, acked>>
    BY <1>4 DEF WorkerResult, WorkerHandles, daemonVars
  <2>1. Head(up[s]).id \in Calls
    BY <1>0, <2>0, ConsContents, Kinds
  <2>2. Incoming' \cap Resumes \subseteq Incoming
    <3>1. CASE Acknowledgement(Head(up[s]).id, s) = <<>>
      BY <2>0, <3>1, <1>n, WorkerSends, EmptySeq
    <3>2. CASE Acknowledgement(Head(up[s]).id, s) = <<ResultAck(Head(up[s]).id)>>
      BY <1>t, <1>tr, <2>0, <2>1, <3>2
    <3> QED BY <3>1, <3>2 DEF Acknowledgement
  <2>3. \A t \in Sockets : AtMostOne(up'[t], Acks) /\ Contents(up'[t]) \subseteq Contents(up[t])
    <3>1. up'[s] = Tail(up[s]) /\ Contents(up'[s]) \subseteq Contents(up[s])
          /\ \A t \in Sockets : t # s => up'[t] = up[t]
      BY <2>0, WorkerPops
    <3>2. AtMostOne(Tail(up[s]), Acks)
      BY <1>0, <1>a, <2>0, AtMostOneTail
    <3> QED BY <1>a, <3>1, <3>2
  <2> QED BY <1>0, <2>0, <2>2, <2>3, AcksFrame
<1>5. ASSUME NEW s \in Sockets, WorkerResumeAck(s) PROVE AcksOK'
  <2> DEFINE owned == Head(up[s]).ids \cap OwnedBy(rec, s)
             again == {c \in owned : rec[c].redelivered = None /\ RedeliveryAllowed(c)}
  <2>0. /\ up[s] # <<>> /\ Head(up[s]).type = "resume_calls_ack" /\ up' = Popped(up, s)
        /\ UNCHANGED <<cur, phase, resume, role, expected>> /\ acked' = acked \cup {s}
    BY <1>5 DEF WorkerResumeAck, WorkerHandles, daemonVars
  <2>1. again \in SUBSET Calls
    BY DEF OwnedBy, Pending
  <2>2. Incoming' \cap Resumes \subseteq Incoming
    <3>1. CASE down' = down
      BY <1>i, <2>0, <3>1
    <3>2. CASE \E q \in Orders(again) : down' = Sent(down, s, [i \in DOMAIN q |-> ToolCall(q[i])])
      <4>1. PICK q \in Orders(again) : down' = Sent(down, s, [i \in DOMAIN q |-> ToolCall(q[i])])
        BY <3>2
      <4> DEFINE r == [i \in DOMAIN q |-> ToolCall(q[i])]
      <4>2. r \in Seq(Message) /\ Contents(r) \subseteq {ToolCall(c) : c \in again}
        BY <2>1, CallsInOrder
      <4>3. Contents(r) \cap Resumes = {}
        BY <1>m, <1>tr, <2>1, <4>2
      <4> HIDE DEF r
      <4>4. Incoming' \subseteq Incoming \cup Contents(r)
        BY <2>0, <4>1, <4>2, WorkerSends DEF r
      <4> QED BY <4>3, <4>4
    <3> QED BY <1>5, <3>1, <3>2 DEF WorkerResumeAck
  <2>3. Head(up[s]) \in Acks /\ Head(up[s]) \in Contents(up[s])
    BY <1>0, <2>0, ConsContents, MessageTypes
  <2>4. Contents(up'[s]) \cap Acks = {} /\ AtMostOne(up'[s], Acks)
        /\ \A t \in Sockets : t # s => up'[t] = up[t]
    <3>1. up'[s] = Tail(up[s]) /\ \A t \in Sockets : t # s => up'[t] = up[t]
      BY <2>0, WorkerPops
    <3>2. AtMostOne(Tail(up[s]), Acks) /\ Contents(Tail(up[s])) \cap Acks = {}
      BY <1>0, <1>a, <2>0, <2>3, AtMostOneTail
    <3> QED BY <3>1, <3>2
  <2>5. cur' # None /\ phase' # "ready" => cur' \notin acked' /\ Contents(up'[cur']) \cap Acks = {}
    BY <1>0, <2>0, <2>3, <2>4 DEF AcksOK
  <2>6. \A t \in acked' : Contents(up'[t]) \cap Acks = {}
    BY <1>0, <2>0, <2>4 DEF AcksOK
  <2>7. \A t \in Sockets, S \in SUBSET Calls :
           role'[t] = "daemon" /\ ResumeAck(S) \in Contents(up'[t]) => S \subseteq expected'[t]
    BY <1>m, <2>0, <2>4 DEF AcksOK
  <2>8. cur' # None /\ role'[cur'] = "daemon" =>
          /\ resume'.missing \subseteq expected'[cur']
          /\ \A S \in SUBSET Calls : Resume(S) \in Incoming' => S \subseteq expected'[cur']
    BY <1>m, <2>0, <2>2 DEF AcksOK
  <2>9. \A t \in Sockets : AtMostOne(up'[t], Acks)
    BY <1>a, <2>4
  <2> QED BY <2>5, <2>6, <2>7, <2>8, <2>9 DEF AcksOK
<1>6. ASSUME NEW s \in Sockets, WorkerPong(s) PROVE AcksOK'
  BY <1>6, <1>f, <1>t, <1>tr DEF WorkerPong, daemonVars, workerVars
<1>7. ASSUME NEW c \in Calls, NEW s \in Sockets, Dispatch(c, s) PROVE AcksOK'
  BY <1>7, <1>f, <1>t, <1>tr DEF Dispatch, daemonVars
<1>8. ASSUME NEW c \in Calls, NEW s \in Sockets, DispatchFails(c, s) PROVE AcksOK'
  <2>1. /\ UNCHANGED <<acked, cur, phase, resume, down>>
        /\ role' = [role EXCEPT ![s] = "expired"] /\ expected' = [expected EXCEPT ![s] = {}]
        /\ up' = [up EXCEPT ![s] = <<>>]
    BY <1>8 DEF DispatchFails, daemonVars
  <2> QED BY <1>0, <1>f, <1>i, <2>1
<1>9. ASSUME NEW c \in Calls, CancelRequest(c) \/ ExpireCall(c) PROVE AcksOK'
  <2>1. rec[c].owner \in Sockets \cup {None}
    BY DEF TypeOK, Record
  <2>2. /\ IF rec[c].owner = None THEN down' = down ELSE down' = Sent(down, rec[c].owner, <<CancelCall(c)>>)
        /\ UNCHANGED <<cur, phase, resume, role, expected, acked, up>>
    BY <1>9 DEF CancelRequest, ExpireCall, GiveUp, daemonVars
  <2>3. Incoming' \cap Resumes \subseteq Incoming
    <3>1. CASE rec[c].owner = None
      BY <1>i, <2>2, <3>1
    <3>2. CASE rec[c].owner # None
      BY <1>t, <1>tr, <2>1, <2>2, <3>2
    <3> QED BY <3>1, <3>2
  <2> QED BY <1>f, <2>2, <2>3
<1>10. ASSUME NEW s \in Sockets, Connect(s) PROVE AcksOK'
  <2>1. /\ s > opened /\ cur' = s /\ down' = down /\ resume' = NoResume
        /\ UNCHANGED <<acked, expected>>
        /\ \A t \in Sockets : role'[t] = IF t = s THEN "probing"
                                         ELSE IF role[t] = "probing" THEN "replaced" ELSE role[t]
        /\ \A t \in Sockets : up'[t] = IF t = s THEN <<Probed>> ELSE up[t]
    BY <1>10, <1>0 DEF Connect, TypeOK
  <2>2. s \notin acked /\ Contents(up'[s]) \cap Acks = {} /\ AtMostOne(up'[s], Acks)
    <3>1. s \notin acked
      BY <2>1 DEF NetworkOK, Early
    <3>2. Contents(<<Probed>>) = {Probed} /\ Probed \notin Acks
      BY Constructors, SingleContents, MessageTypes DEF Probed
    <3> QED BY <2>1, <3>1, <3>2, AtMostOneAbsent
  <2>3. \A t \in Sockets : role'[t] = "daemon" => role[t] = "daemon" /\ t # s
    BY <2>1
  <2> QED BY <1>0, <2>1, <2>2, <2>3 DEF AcksOK
<1>11. CASE DaemonCloses \/ Crash
  <2>1. cur' = None /\ UNCHANGED <<acked, up, role, expected>>
    BY <1>11 DEF DaemonCloses, Crash, workerVars
  <2> QED BY <1>f, <2>1
<1>12. CASE DaemonResume
  <2>0. /\ cur \in Sockets /\ down[cur] # <<>> /\ Head(down[cur]).type = "resume_calls"
        /\ down' = Popped(down, cur) /\ UNCHANGED <<cur, phase, role, expected, acked, up>>
    BY <1>12, <1>0 DEF DaemonResume, DaemonHandles, workerVars
  <2>1. phase = "authenticated" /\ ~resume.known
    BY <2>0, Shapes
  <2> DEFINE ids == Head(down[cur]).ids
  <2>2. resume'.missing \subseteq ids
    BY <1>12, <2>1 DEF DaemonResume, ProvenMissing
  <2>3. ids \in SUBSET Calls /\ Resume(ids) \in Incoming /\ Incoming' \subseteq Incoming
    <3>1. Head(down[cur]) \in Message /\ Incoming = {Head(down[cur])} \cup Incoming'
      BY <2>0, DaemonPops
    <3> QED BY <2>0, <3>1, Kinds
  <2>4. role[cur] = "daemon" => ids \subseteq expected[cur]
    BY <2>0, <2>3 DEF AcksOK
  <2> QED BY <2>0, <2>2, <2>3, <2>4 DEF AcksOK
<1>13. CASE DaemonReady
  <2>0. /\ cur \in Sockets /\ down[cur] # <<>> /\ Head(down[cur]).type = "ready_ack"
        /\ down' = Popped(down, cur) /\ UNCHANGED <<cur, role, expected, acked>>
    BY <1>13, <1>0 DEF DaemonReady, DaemonHandles, workerVars
  <2>1. phase = "authenticated" /\ resume.known
    BY <2>0, Shapes
  <2>2. PICK q \in Orders(Retained) :
           up' = Sent(up, cur, [i \in DOMAIN q |-> Result(q[i])] \o <<ResumeAck(resume.missing)>>)
    BY <1>13, <2>1 DEF DaemonReady
  <2>3. phase' = "ready" /\ resume' = NoResume
    BY <1>13, <2>1 DEF DaemonReady
  <2> DEFINE a == [i \in DOMAIN q |-> Result(q[i])]
             b == <<ResumeAck(resume.missing)>>
  <2>4. Retained \in SUBSET Calls
    BY DEF Retained
  <2>5. a \in Seq(Message) /\ Contents(a) \subseteq {Result(c) : c \in Retained}
    BY <2>4, ResultsInOrder
  <2>6. resume.missing \in SUBSET Calls
    BY DEF TypeOK
  <2>7. b \in Seq(Message) /\ Contents(b) = {ResumeAck(resume.missing)} /\ AtMostOne(b, Acks)
    BY <2>6, Constructors, SingleContents
  <2>8. Contents(a) \cap Acks = {}
    BY <1>m, <2>4, <2>5
  <2> HIDE DEF a, b
  <2>9. a \o b \in Seq(Message) /\ Contents(a \o b) = Contents(a) \cup Contents(b)
        /\ AtMostOne(a \o b, Acks)
    BY <2>5, <2>7, <2>8, ConcatContents, AtMostOneConcat, AtMostOneAbsent
  <2>10. cur \notin acked /\ Contents(up[cur]) \cap Acks = {}
    BY <2>0, <2>1 DEF AcksOK
  <2>11. up' = Sent(up, cur, a \o b)
    BY <2>2 DEF a, b
  <2>12. /\ \A t \in Sockets : t # cur => up'[t] = up[t]
         /\ Contents(up'[cur]) \subseteq Contents(up[cur]) \cup Contents(a) \cup Contents(b)
         /\ up'[cur] = up[cur] \/ up'[cur] = up[cur] \o (a \o b)
    BY <2>0, <2>9, <2>11, DaemonSends
  <2>13. AtMostOne(up'[cur], Acks)
    <3>1. AtMostOne(up[cur] \o (a \o b), Acks)
      BY <1>0, <1>a, <2>0, <2>9, <2>10, AtMostOneConcat
    <3> QED BY <1>a, <2>0, <2>12, <3>1
  <2>14. \A S \in SUBSET Calls : ResumeAck(S) \in Contents(up'[cur]) => S = resume.missing
    <3>1. \A S \in SUBSET Calls : ResumeAck(S) = ResumeAck(resume.missing) => S = resume.missing
      BY DEF ResumeAck
    <3> QED BY <1>m, <2>7, <2>8, <2>10, <2>12, <3>1
  <2>15. Incoming' \subseteq Incoming
    BY <2>0, DaemonPops
  <2>16. \A t \in Sockets : AtMostOne(up'[t], Acks)
    BY <1>a, <2>12, <2>13
  <2>17. \A t \in acked' : Contents(up'[t]) \cap Acks = {}
    BY <1>0, <2>0, <2>10, <2>12 DEF AcksOK
  <2>18. \A t \in Sockets, S \in SUBSET Calls :
           role'[t] = "daemon" /\ ResumeAck(S) \in Contents(up'[t]) => S \subseteq expected'[t]
    <3> TAKE t \in Sockets, S \in SUBSET Calls
    <3>1. CASE t = cur
      BY <2>0, <2>14, <3>1 DEF AcksOK
    <3>2. CASE t # cur
      BY <2>0, <2>12, <3>2 DEF AcksOK
    <3> QED BY <3>1, <3>2
  <2> QED BY <2>0, <2>3, <2>15, <2>16, <2>17, <2>18 DEF AcksOK, NoResume
<1>14. CASE DaemonToolCall \/ DaemonCancel \/ DaemonAck \/ DaemonPong
  <2>0. /\ cur \in Sockets /\ down[cur] # <<>>
        /\ down' = Popped(down, cur) /\ UNCHANGED <<cur, phase, resume, role, expected, acked>>
    BY <1>14, <1>0 DEF DaemonToolCall, DaemonCancel, DaemonAck, DaemonPong, DaemonHandles, daemonVars, workerVars
  <2>1. Incoming' \subseteq Incoming
    BY <2>0, DaemonPops
  <2>2. CASE up' = up
    BY <1>f, <2>0, <2>1, <2>2
  <2>3. CASE DaemonToolCall /\ up' = Sent(up, cur, <<Result(Head(down[cur]).id)>>)
    <3>1. Head(down[cur]).id \in Calls
      BY <1>0, <2>0, <2>3, ConsContents, Kinds DEF DaemonToolCall, DaemonHandles
    <3>2. <<Result(Head(down[cur]).id)>> \in Seq(Message) /\ Contents(<<Result(Head(down[cur]).id)>>) \cap Acks = {}
      BY <1>m, <3>1, SingleContents
    <3>3. \A s \in Sockets : /\ AtMostOne(up'[s], Acks)
                             /\ Contents(up'[s]) \cap Acks \subseteq Contents(up[s])
      BY <2>3, <3>2, NoAckSent
    <3> QED BY <1>0, <2>0, <2>1, <3>3, AcksFrame
  <2>4. CASE DaemonPong
    <3>1. PICK q \in Orders(Retained) : up' = Sent(up, cur, [i \in DOMAIN q |-> Result(q[i])])
      BY <2>4 DEF DaemonPong
    <3> DEFINE a == [i \in DOMAIN q |-> Result(q[i])]
    <3>2. Retained \in SUBSET Calls
      BY DEF Retained
    <3>3. a \in Seq(Message) /\ Contents(a) \subseteq {Result(c) : c \in Retained}
      BY <3>2, ResultsInOrder
    <3>4. Contents(a) \cap Acks = {}
      BY <1>m, <3>2, <3>3
    <3> HIDE DEF a
    <3>5. \A s \in Sockets : /\ AtMostOne(up'[s], Acks)
                             /\ Contents(up'[s]) \cap Acks \subseteq Contents(up[s])
      BY <3>1, <3>3, <3>4, NoAckSent DEF a
    <3> QED BY <1>0, <2>0, <2>1, <3>5, AcksFrame
  <2> QED BY <1>14, <2>2, <2>3, <2>4 DEF DaemonToolCall, DaemonCancel, DaemonAck
<1>15. ASSUME NEW c \in Calls, Finish(c) PROVE AcksOK'
  <2>0. UNCHANGED <<cur, phase, resume, role, expected, acked, down>>
    BY <1>15 DEF Finish, workerVars
  <2>1. CASE up' = up
    BY <1>f, <1>i, <2>0, <2>1
  <2>2. CASE up' = Sent(up, cur, <<Result(c)>>)
    <3>1. <<Result(c)>> \in Seq(Message) /\ Contents(<<Result(c)>>) \cap Acks = {}
      BY <1>m, SingleContents
    <3>2. \A s \in Sockets : /\ AtMostOne(up'[s], Acks)
                             /\ Contents(up'[s]) \cap Acks \subseteq Contents(up[s])
      BY <2>2, <3>1, NoAckSent
    <3> QED BY <1>0, <1>i, <2>0, <3>2, AcksFrame
  <2> QED BY <1>15, <2>1, <2>2 DEF Finish
<1>16. CASE GraceExpires \/ Tick \/ \E s \in Sockets : Drop(s)
  <2>1. UNCHANGED <<cur, phase, resume, role, expected, acked, down, up>>
    BY <1>16 DEF GraceExpires, Tick, Drop, workerVars, netVars, daemonVars
  <2> QED BY <1>f, <1>i, <2>1
<1> QED
  BY <1>1, <1>2, <1>3, <1>4, <1>5, <1>6, <1>7, <1>8, <1>9, <1>10, <1>11, <1>12, <1>13, <1>14,
     <1>15, <1>16 DEF Next, Untimed, Timed, WorkerStep, DaemonStep
-----------------------------------------------------------------------------
(* Who owns a call. *)

(* The timer a pending call waits on is that of its phase. *)
OnTimer(r) == /\ r.opTimer <=> r.owner # None
              /\ r.reDeadline # 0 <=> r.owner = None

(* What any number of detaches and rebinds leave of a record. *)
Kept(r, d) ==
    /\ d \in Record /\ SameCall(r, d)
    /\ OnTimer(r) => OnTimer(d)
    /\ \A b \in Nat : Capped(r, b) => Capped(d, b)

LEMMA KeptSelf == ASSUME NEW r \in Record PROVE Kept(r, r)
BY DEF Kept, SameCall

LEMMA KeptOnward ==
    ASSUME NEW r, NEW d, NEW e, Kept(r, d), Kept(d, e)
    PROVE  Kept(r, e)
BY DEF Kept, SameCall

LEMMA DetachedKept == ASSUME NEW r \in Record PROVE Kept(r, Detached(r))
<1>1. /\ Detached(r) \in Record /\ SameCall(r, Detached(r))
      /\ Detached(r).owner = None /\ Detached(r).opTimer = FALSE
      /\ Detached(r).reDeadline # 0
      /\ \A b \in Nat : Capped(r, b) => Capped(Detached(r), b)
  BY DetachedFields
<1> QED BY <1>1 DEF Kept, OnTimer

LEMMA ReboundKept == ASSUME NEW r \in Record, NEW ch \in Channels PROVE Kept(r, Rebound(r, ch))
<1>1. /\ Rebound(r, ch) \in Record /\ SameCall(r, Rebound(r, ch))
      /\ Rebound(r, ch).owner = ch /\ Rebound(r, ch).opTimer = TRUE
      /\ r.owner = None \/ r.reDeadline = 0 => Rebound(r, ch).reDeadline = 0
      /\ \A b \in Nat : Capped(r, b) => Capped(Rebound(r, ch), b)
  BY ReboundFields
<1>2. ch # None
  BY Numbers
<1> QED BY <1>1, <1>2 DEF Kept, OnTimer

LEMMA DetachEffect ==
    ASSUME NEW R \in [Calls -> Record], NEW ch \in Channels, NEW c \in Calls
    PROVE  /\ Kept(R[c], DetachSocket(R, ch)[c])
           /\ DetachSocket(R, ch)[c].owner =
                 IF R[c].status = "pending" /\ R[c].owner = ch THEN None ELSE R[c].owner
           /\ R[c].status # "pending" => DetachSocket(R, ch)[c] = R[c]
<1>1. DetachSocket(R, ch)[c] = IF R[c].status = "pending" /\ R[c].owner = ch
                               THEN Detached(R[c]) ELSE R[c]
  BY DEF DetachSocket, OwnedBy, Pending
<1>2. R[c] \in Record
  OBVIOUS
<1>3. Detached(R[c]).owner = None
  BY <1>2, DetachedFields
<1> QED BY <1>1, <1>2, <1>3, DetachedKept, KeptSelf

LEMMA RebindEffect ==
    ASSUME NEW R \in [Calls -> Record], NEW ch \in Channels, NEW i, NEW c \in Calls
    PROVE  /\ Kept(R[c], RebindInstance(R, i, ch)[c])
           /\ RebindInstance(R, i, ch)[c].owner =
                 IF R[c].status = "pending" /\ R[c].instance = i THEN ch ELSE R[c].owner
           /\ R[c].status # "pending" => RebindInstance(R, i, ch)[c] = R[c]
<1>1. RebindInstance(R, i, ch)[c] =
         IF R[c].status = "pending" /\ R[c].instance = i /\ R[c].owner # ch
         THEN Rebound(R[c], ch) ELSE R[c]
  BY DEF RebindInstance, ReboundCalls, Pending
<1>2. R[c] \in Record
  OBVIOUS
<1>3. Rebound(R[c], ch).owner = ch
  BY <1>2, ReboundFields
<1> QED BY <1>1, <1>2, <1>3, ReboundKept, KeptSelf

(* A socket that is closed, promoted, or fails to be: calls move, to the     *)
(* ready socket of their instance if there is one. *)
LEMMA SocketStep ==
    ASSUME TypeOK, NetworkOK, OwnersOK, NEW s \in Sockets,
           WorkerCloses(s) \/ Promote(s) \/ \E x \in BOOLEAN : PromotionFails(s, x),
           NEW c \in Calls
    PROVE  /\ Kept(rec[c], rec'[c])
           /\ c \notin Pending(rec) => rec'[c] = rec[c]
           /\ c \in Pending(rec) => \A t \in Sockets :
                 rec'[c].owner = t <=> role'[t] = "daemon" /\ instanceOf[t] = rec[c].instance
<1> USE Numbers
<1>0. /\ rec \in [Calls -> Record] /\ instanceOf \in [Sockets -> Instances]
      /\ role \in [Sockets -> {"none", "probing", "replaced", "daemon", "expired"}]
  BY DEF TypeOK
<1>i. instanceOf[s] \in Instances
  BY <1>0
<1>1. c \in Pending(rec) <=> rec[c].status = "pending"
  BY DEF Pending
<1>o. c \in Pending(rec) => \A t \in Sockets :
                 rec[c].owner = t <=> role[t] = "daemon" /\ instanceOf[t] = rec[c].instance
  BY DEF OwnersOK
<1>r. rec[c] \in Record /\ rec[c].owner \in Sockets \cup {None}
  BY <1>0 DEF Record
<1>u. \A t, u \in Sockets : role[t] = "daemon" /\ role[u] = "daemon" => t = u
  BY DEF NetworkOK
<1>2. CASE WorkerCloses(s)
  <2>1. rec' = DetachSocket(rec, s) /\ \A t \in Sockets : role'[t] = IF t = s THEN "expired" ELSE role[t]
    BY <1>2, <1>0 DEF WorkerCloses
  <2>2. /\ Kept(rec[c], rec'[c])
        /\ rec'[c].owner = IF rec[c].status = "pending" /\ rec[c].owner = s THEN None ELSE rec[c].owner
        /\ rec[c].status # "pending" => rec'[c] = rec[c]
    BY <1>0, <2>1, DetachEffect
  <2> QED BY <1>1, <1>o, <2>1, <2>2
<1>3. CASE Promote(s)
  <2> DEFINE previous == {t \in Sockets \ {s} : role[t] = "daemon"}
             R == RebindInstance(rec, instanceOf[s], s)
  <2>1. /\ role[s] = "probing"
        /\ \A t \in Sockets : role'[t] = IF t = s THEN "daemon" ELSE IF t \in previous THEN "expired" ELSE role[t]
        /\ rec'[c] = IF \E t \in previous : c \in OwnedBy(R, t) THEN Detached(R[c]) ELSE R[c]
    BY <1>3, <1>0 DEF Promote
  <2>a. RebindInstance(rec, instanceOf[s], s) \in [Calls -> Record]
    BY <1>0, <1>i, RegistryTyped
  <2>2. R \in [Calls -> Record] /\ R[c] \in Record
    BY <2>a
  <2>3. /\ Kept(rec[c], R[c])
        /\ R[c].owner = IF rec[c].status = "pending" /\ rec[c].instance = instanceOf[s] THEN s ELSE rec[c].owner
        /\ rec[c].status # "pending" => R[c] = rec[c]
    BY <1>0, RebindEffect
  <2>4. R[c].status = rec[c].status /\ R[c].instance = rec[c].instance
    BY <2>3 DEF Kept, SameCall
  <2>5. (\E t \in previous : c \in OwnedBy(R, t)) <=> R[c].status = "pending" /\ R[c].owner \in previous
    BY DEF OwnedBy, Pending
  <2> HIDE DEF R
  <2>6. /\ Kept(R[c], Detached(R[c])) /\ Kept(R[c], R[c]) /\ Detached(R[c]).owner = None
    BY <2>2, DetachedKept, KeptSelf, DetachedFields
  <2>7. Kept(rec[c], rec'[c])
    BY <2>1, <2>3, <2>6, KeptOnward
  <2>8. rec[c].status # "pending" => rec'[c] = rec[c]
    BY <2>1, <2>3, <2>4, <2>5
  <2>9. ASSUME c \in Pending(rec)
        PROVE  rec'[c].owner = IF rec[c].instance = instanceOf[s] THEN s ELSE None
    <3>1. CASE rec[c].instance = instanceOf[s]
      BY <1>1, <2>1, <2>3, <2>5, <2>9, <3>1
    <3>2. CASE rec[c].instance # instanceOf[s] /\ rec[c].owner = None
      BY <1>1, <2>1, <2>3, <2>5, <2>9, <3>2
    <3>3. CASE rec[c].instance # instanceOf[s] /\ rec[c].owner # None
      <4>1. rec[c].owner \in previous
        BY <1>o, <1>r, <2>1, <2>9, <3>3
      <4> QED BY <1>1, <2>1, <2>3, <2>4, <2>5, <2>6, <2>9, <3>3, <4>1
    <3> QED BY <3>1, <3>2, <3>3
  <2>10. \A t \in Sockets : role'[t] = "daemon" <=> t = s
    BY <2>1
  <2> QED BY <1>1, <2>7, <2>8, <2>9, <2>10
<1>4. ASSUME NEW x \in BOOLEAN, PromotionFails(s, x)
      PROVE  /\ Kept(rec[c], rec'[c])
             /\ c \notin Pending(rec) => rec'[c] = rec[c]
             /\ c \in Pending(rec) => \A t \in Sockets :
                 rec'[c].owner = t <=> role'[t] = "daemon" /\ instanceOf[t] = rec[c].instance
  <2> DEFINE previous == {t \in Sockets \ {s} : role[t] = "daemon" /\ instanceOf[t] = instanceOf[s]}
             R == RebindInstance(rec, instanceOf[s], s)
             D == DetachSocket(R, s)
  <2>1. /\ role[s] \in {"probing", "replaced"}
        /\ \A t \in Sockets : role'[t] = IF t = s THEN "expired" ELSE role[t]
        /\ \/ previous = {} /\ rec' = D
           \/ \E t \in previous : rec' = RebindInstance(D, instanceOf[s], t)
    BY <1>4, <1>0 DEF PromotionFails
  <2>2. R \in [Calls -> Record] /\ D \in [Calls -> Record]
    BY <1>0, RegistryTyped
  <2>3. /\ Kept(rec[c], R[c])
        /\ R[c].owner = IF rec[c].status = "pending" /\ rec[c].instance = instanceOf[s] THEN s ELSE rec[c].owner
        /\ rec[c].status # "pending" => R[c] = rec[c]
    BY <1>0, RebindEffect
  <2>4. /\ Kept(R[c], D[c])
        /\ D[c].owner = IF R[c].status = "pending" /\ R[c].owner = s THEN None ELSE R[c].owner
        /\ R[c].status # "pending" => D[c] = R[c]
    BY <2>2, DetachEffect
  <2>5. /\ R[c].status = rec[c].status /\ R[c].instance = rec[c].instance
        /\ D[c].status = rec[c].status /\ D[c].instance = rec[c].instance
    BY <2>3, <2>4 DEF Kept, SameCall
  <2> HIDE DEF R, D
  <2>6. Kept(rec[c], D[c])
    BY <2>3, <2>4, KeptOnward
  <2>7. c \in Pending(rec) => D[c].owner = IF rec[c].instance = instanceOf[s] THEN None ELSE rec[c].owner
    BY <1>1, <1>o, <2>1, <2>3, <2>4, <2>5
  <2>8. CASE previous = {} /\ rec' = D
    <3>1. c \in Pending(rec) => \A t \in Sockets :
                 D[c].owner = t <=> role'[t] = "daemon" /\ instanceOf[t] = rec[c].instance
      BY <1>o, <2>1, <2>7, <2>8
    <3> QED BY <1>1, <2>3, <2>4, <2>5, <2>6, <2>8, <3>1
  <2>9. CASE \E t \in previous : rec' = RebindInstance(D, instanceOf[s], t)
    <3>1. PICK t \in previous : rec' = RebindInstance(D, instanceOf[s], t)
      BY <2>9
    <3>2. /\ Kept(D[c], rec'[c])
          /\ rec'[c].owner = IF D[c].status = "pending" /\ D[c].instance = instanceOf[s] THEN t ELSE D[c].owner
          /\ D[c].status # "pending" => rec'[c] = D[c]
      <4>1. D \in [Calls -> Record] /\ t \in Sockets
        BY <2>2, <3>1
      <4>2. LET Q == RebindInstance(D, instanceOf[s], t)
            IN  /\ Kept(D[c], Q[c])
                /\ Q[c].owner = IF D[c].status = "pending" /\ D[c].instance = instanceOf[s] THEN t ELSE D[c].owner
                /\ D[c].status # "pending" => Q[c] = D[c]
        BY <4>1, RebindEffect
      <4> QED BY <3>1, <4>2
    <3>3. Kept(rec[c], rec'[c])
      BY <2>6, <3>2, KeptOnward
    <3>4. c \in Pending(rec) => rec'[c].owner = IF rec[c].instance = instanceOf[s] THEN t ELSE rec[c].owner
      BY <1>1, <2>5, <2>7, <3>2
    <3>5. c \in Pending(rec) => \A u \in Sockets :
                 rec'[c].owner = u <=> role'[u] = "daemon" /\ instanceOf[u] = rec[c].instance
      BY <1>o, <1>u, <2>1, <3>1, <3>4
    <3> QED BY <1>1, <2>3, <2>4, <2>5, <3>2, <3>3, <3>5
  <2> QED BY <2>1, <2>8, <2>9
<1> QED BY <1>2, <1>3, <1>4

(* Who owns what, when neither the sockets nor the owners change. *)
LEMMA OwnersFrame ==
    ASSUME OwnersOK, instance \in Instances, instance' \in Instances, instance <= instance',
           UNCHANGED <<role, instanceOf>>,
           \A c \in Pending(rec)' : /\ c \in Pending(rec) /\ rec'[c].owner = rec[c].owner
                                    /\ rec'[c].instance = rec[c].instance
    PROVE  OwnersOK'
<1> SUFFICES ASSUME NEW c \in Pending(rec)'
             PROVE  /\ rec'[c].instance \in Instances /\ rec'[c].instance <= instance'
                    /\ rec'[c].owner # None => role'[rec'[c].owner] = "daemon"
                    /\ \A s \in Sockets : rec'[c].owner = s <=> role'[s] = "daemon" /\ instanceOf'[s] = rec'[c].instance
  BY DEF OwnersOK
<1>1. c \in Pending(rec) /\ rec'[c].owner = rec[c].owner /\ rec'[c].instance = rec[c].instance
  OBVIOUS
<1>2. /\ rec[c].instance \in Instances /\ rec[c].instance <= instance
      /\ rec[c].owner # None => role[rec[c].owner] = "daemon"
      /\ \A s \in Sockets : rec[c].owner = s <=> role[s] = "daemon" /\ instanceOf[s] = rec[c].instance
  BY <1>1 DEF OwnersOK
<1>3. rec[c].instance \in Nat /\ instance \in Nat /\ instance' \in Nat
  BY <1>2, Numbers
<1> QED BY <1>1, <1>2, <1>3

(* Settling a set of calls, answering one, and time passing. *)
LEMMA RegistryEffects ==
    ASSUME NEW R \in [Calls -> Record], NEW c \in Calls
    PROVE  /\ \A S \in SUBSET Calls, o \in Outcomes :
                 SettleAll(R, S, o)[c] = IF c \in S /\ R[c].status = "pending"
                                         THEN Settled(R[c], o, None) ELSE R[c]
           /\ \A d \in Calls, s \in Sockets :
                 Answer(R, d, s)[c] = IF c = d /\ R[c].status = "pending" /\ R[c].owner = s
                                      THEN Settled(R[c], "answered", s) ELSE R[c]
           /\ Aged(R)[c] = IF R[c].status = "pending" THEN [R[c] EXCEPT !.age = @ + 1] ELSE R[c]
<1>1. \A S \in SUBSET Calls, o \in Outcomes :
         SettleAll(R, S, o)[c] = IF c \in S /\ R[c].status = "pending"
                                 THEN Settled(R[c], o, None) ELSE R[c]
  BY DEF SettleAll, Pending
<1>2. \A d \in Calls, s \in Sockets :
         Answer(R, d, s)[c] = IF c = d /\ R[c].status = "pending" /\ R[c].owner = s
                              THEN Settled(R[c], "answered", s) ELSE R[c]
  BY DEF Answer, ResultOwnership, Pending
<1>3. Aged(R)[c] = IF R[c].status = "pending" THEN [R[c] EXCEPT !.age = @ + 1] ELSE R[c]
  BY DEF Aged, Pending
<1> QED BY <1>1, <1>2, <1>3

(* A call the Worker settles: an answer, a cancellation, a deadline. *)
LEMMA GiveUpEffect ==
    ASSUME TypeOK, NEW c \in Calls, NEW o \in Outcomes, GiveUp(c, o), NEW d \in Calls
    PROVE  rec'[d] = IF d = c /\ rec[d].status = "pending"
                     THEN Settled(rec[d], o, None) ELSE rec[d]
<1>1. rec \in [Calls -> Record] /\ {c} \in SUBSET Calls /\ rec' = SettleAll(rec, {c}, o)
  BY DEF TypeOK, GiveUp
<1>2. rec'[d] = IF d \in {c} /\ rec[d].status = "pending" THEN Settled(rec[d], o, None) ELSE rec[d]
  BY <1>1, RegistryEffects
<1> QED BY <1>2

LEMMA ResultEffect ==
    ASSUME TypeOK, NEW s \in Sockets, WorkerResult(s), NEW d \in Calls
    PROVE  /\ Head(up[s]).id \in Calls
           /\ rec'[d] = IF d = Head(up[s]).id /\ rec[d].status = "pending" /\ rec[d].owner = s
                        THEN Settled(rec[d], "answered", s) ELSE rec[d]
<1>1. rec \in [Calls -> Record] /\ up[s] \in Seq(Message) /\ up[s] # <<>> /\ Head(up[s]).type = "tool_result"
      /\ rec' = Answer(rec, Head(up[s]).id, s)
  BY DEF TypeOK, WorkerResult, WorkerHandles
<1>2. Head(up[s]) \in Message
  BY <1>1, ConsContents
<1>3. Head(up[s]).id \in Calls
  BY <1>1, <1>2, Kinds
<1> QED BY <1>1, <1>3, RegistryEffects

(* What a resume acknowledgement does to a call. *)
LEMMA ResumeAckEffect ==
    ASSUME TypeOK, NEW s \in Sockets, WorkerResumeAck(s), NEW d \in Calls
    PROVE  \/ rec'[d] = rec[d]
           \/ /\ rec'[d] = [rec[d] EXCEPT !.redelivered = s]
              /\ d \in Head(up[s]).ids /\ rec[d].status = "pending" /\ rec[d].owner = s
              /\ rec[d].redelivered = None
           \/ /\ rec'[d] = Settled(rec[d], "not_received", None)
              /\ d \in Head(up[s]).ids /\ rec[d].status = "pending" /\ rec[d].owner = s
<1> DEFINE valid == Head(up[s]).ids \subseteq expected[s] /\ s \notin acked
<1>1. CASE valid
  BY <1>1 DEF WorkerResumeAck, OwnedBy, Pending
<1>2. CASE ~valid
  BY <1>2 DEF WorkerResumeAck
<1> QED BY <1>1, <1>2

(* A dispatch that fails: the call is settled, the socket's others detached. *)
LEMMA DispatchFailsEffect ==
    ASSUME TypeOK, NEW c \in Calls, NEW s \in Sockets, DispatchFails(c, s), NEW d \in Calls
    PROVE  /\ d = c => rec'[d] = Settled(Registered(c, s, instanceOf[s]), "send_failed", None)
           /\ d # c => /\ Kept(rec[d], rec'[d])
                       /\ rec'[d].owner = IF rec[d].status = "pending" /\ rec[d].owner = s
                                          THEN None ELSE rec[d].owner
                       /\ rec[d].status # "pending" => rec'[d] = rec[d]
<1>1. rec \in [Calls -> Record] /\ instanceOf[s] \in Instances
  BY DEF TypeOK
<1> DEFINE n == Settled(Registered(c, s, instanceOf[s]), "send_failed", None)
           R == [rec EXCEPT ![c] = n]
<1>2. "send_failed" \in Outcomes
  BY DEF Outcomes, Failures
<1>3. Registered(c, s, instanceOf[s]) \in Record
  BY <1>1, RegisteredFields
<1>4. n \in Record /\ n.status = "settled"
  BY <1>2, <1>3, SettledFields
<1>5. rec' = DetachSocket(R, s)
  BY DEF DispatchFails
<1> HIDE DEF n
<1>6. R \in [Calls -> Record] /\ R[c] = n /\ (d # c => R[d] = rec[d])
  BY <1>1, <1>4
<1> HIDE DEF R
<1>7. /\ Kept(R[d], rec'[d])
      /\ rec'[d].owner = IF R[d].status = "pending" /\ R[d].owner = s THEN None ELSE R[d].owner
      /\ R[d].status # "pending" => rec'[d] = R[d]
  BY <1>5, <1>6, DetachEffect
<1>8. d = c => rec'[d] = n
  BY <1>4, <1>6, <1>7
<1> QED BY <1>6, <1>7, <1>8 DEF n

(* A dispatch. *)
LEMMA DispatchEffect ==
    ASSUME TypeOK, NEW c \in Calls, NEW s \in Sockets, Dispatch(c, s)
    PROVE  /\ rec'[c] \in Record
           /\ rec'[c].status = "pending" /\ rec'[c].owner = s /\ rec'[c].instance = instanceOf[s]
           /\ rec'[c].age = 0 /\ rec'[c].original = Timeout[c] /\ rec'[c].deadline = Timeout[c]
           /\ rec'[c].opTimer = TRUE /\ rec'[c].reDeadline = 0 /\ rec'[c].outcome = "none"
           /\ \A d \in Calls : d # c => rec'[d] = rec[d]
<1>1. rec \in [Calls -> Record] /\ instanceOf[s] \in Instances
  BY DEF TypeOK
<1> DEFINE i == instanceOf[s]
           r == Registered(c, s, i)
<1>2. rec' = [rec EXCEPT ![c] = r]
  BY DEF Dispatch
<1>i. i \in Instances
  BY <1>1
<1> HIDE DEF i
<1>3. /\ r \in Record /\ r.status = "pending" /\ r.owner = s /\ r.instance = i /\ r.age = 0
      /\ r.original = Timeout[c] /\ r.deadline = Timeout[c] /\ r.opTimer = TRUE /\ r.reDeadline = 0
      /\ r.outcome = "none"
  BY <1>i, RecordsAssumption DEF Record, Registered, NewRecord, Outcomes, Failures
<1> HIDE DEF r
<1>4. rec'[c] = r /\ \A d \in Calls : d # c => rec'[d] = rec[d]
  BY <1>1, <1>2
<1> QED BY <1>3, <1>4 DEF i

LEMMA OwnersStep ==
    ASSUME TypeOK, TypeOK', NetworkOK, OwnersOK, Next
    PROVE  OwnersOK'
<1>0. /\ rec \in [Calls -> Record] /\ rec' \in [Calls -> Record] /\ instanceOf \in [Sockets -> Instances]
      /\ role \in [Sockets -> {"none", "probing", "replaced", "daemon", "expired"}]
      /\ instance \in Instances /\ instance' \in Instances /\ cur \in Sockets \cup {None}
  BY DEF TypeOK
<1>t. ASSUME NEW c \in Calls
      PROVE  rec[c] \in Record /\ rec[c].owner \in Sockets \cup {None} /\ rec'[c].owner \in Sockets \cup {None}
  BY <1>0 DEF Record
<1>f. ASSUME UNCHANGED <<role, instanceOf, instance>>,
             \A c \in Pending(rec)' : /\ c \in Pending(rec) /\ rec'[c].owner = rec[c].owner
                                      /\ rec'[c].instance = rec[c].instance
      PROVE  OwnersOK'
  BY <1>0, <1>f, Numbers, OwnersFrame
<1>1. ASSUME NEW s \in Sockets,
             WorkerCloses(s) \/ Promote(s) \/ \E x \in BOOLEAN : PromotionFails(s, x)
      PROVE  OwnersOK'
  <2>1. UNCHANGED <<instanceOf, instance>>
    BY <1>1 DEF WorkerCloses, Promote, PromotionFails, daemonVars
  <2> SUFFICES ASSUME NEW c \in Pending(rec)'
               PROVE  /\ rec'[c].instance \in Instances /\ rec'[c].instance <= instance'
                      /\ rec'[c].owner # None => role'[rec'[c].owner] = "daemon"
                      /\ \A t \in Sockets : rec'[c].owner = t <=> role'[t] = "daemon" /\ instanceOf'[t] = rec'[c].instance
    BY DEF OwnersOK
  <2>2. c \in Calls /\ rec'[c].status = "pending"
    BY DEF Pending
  <2>3. /\ Kept(rec[c], rec'[c])
        /\ c \notin Pending(rec) => rec'[c] = rec[c]
        /\ c \in Pending(rec) => \A t \in Sockets :
                 rec'[c].owner = t <=> role'[t] = "daemon" /\ instanceOf[t] = rec[c].instance
    BY <1>1, <2>2, SocketStep
  <2>4. c \in Pending(rec) /\ rec'[c].instance = rec[c].instance
    BY <2>2, <2>3 DEF Kept, SameCall, Pending
  <2>5. rec[c].instance \in Instances /\ rec[c].instance <= instance
    BY <2>4 DEF OwnersOK
  <2> QED BY <1>t, <2>1, <2>2, <2>3, <2>4, <2>5
<1>2. ASSUME NEW s \in Sockets, WorkerResult(s) PROVE OwnersOK'
  <2>1. \A d \in Calls : rec'[d] = rec[d] \/ rec'[d] = Settled(rec[d], "answered", s)
    BY <1>2, ResultEffect
  <2>o. "answered" \in Outcomes
    BY DEF Outcomes
  <2>2. \A d \in Calls : Settled(rec[d], "answered", s).status = "settled"
    BY <1>0, <2>o, SettledFields
  <2>3. UNCHANGED <<role, instanceOf, instance>>
    BY <1>2 DEF WorkerResult, daemonVars
  <2> QED BY <1>f, <2>1, <2>2, <2>3 DEF Pending
<1>3. ASSUME NEW s \in Sockets, WorkerResumeAck(s) PROVE OwnersOK'
  <2>1. ASSUME NEW d \in Calls
        PROVE  \/ rec'[d] = rec[d]
               \/ /\ rec'[d] = [rec[d] EXCEPT !.redelivered = s]
                  /\ d \in Head(up[s]).ids /\ rec[d].status = "pending" /\ rec[d].owner = s
                  /\ rec[d].redelivered = None
               \/ /\ rec'[d] = Settled(rec[d], "not_received", None)
                  /\ d \in Head(up[s]).ids /\ rec[d].status = "pending" /\ rec[d].owner = s
    BY <1>3, ResumeAckEffect
  <2>2. \A d \in Calls : /\ Settled(rec[d], "not_received", None).status = "settled"
                         /\ [rec[d] EXCEPT !.redelivered = s].owner = rec[d].owner
                         /\ [rec[d] EXCEPT !.redelivered = s].instance = rec[d].instance
    BY <1>0, SettledFields DEF Outcomes, Failures, Record
  <2>3. UNCHANGED <<role, instanceOf, instance>>
    BY <1>3 DEF WorkerResumeAck, daemonVars
  <2> QED BY <1>f, <2>1, <2>2, <2>3 DEF Pending
<1>4. ASSUME NEW c \in Calls, NEW o \in Outcomes, GiveUp(c, o) PROVE OwnersOK'
  <2>1. \A d \in Calls : rec'[d] = rec[d] \/ rec'[d] = Settled(rec[d], o, None)
    BY <1>4, GiveUpEffect
  <2>2. \A d \in Calls : Settled(rec[d], o, None).status = "settled"
    BY <1>0, SettledFields
  <2>3. UNCHANGED <<role, instanceOf, instance>>
    BY <1>4 DEF GiveUp, daemonVars
  <2> QED BY <1>f, <2>1, <2>2, <2>3 DEF Pending
<1>5. ASSUME NEW c \in Calls, CancelRequest(c) \/ ExpireCall(c) PROVE OwnersOK'
  BY <1>4, <1>5 DEF CancelRequest, ExpireCall, ExpiryOutcome, Outcomes, Failures
<1>6. ASSUME NEW c \in Calls, NEW s \in Sockets, Dispatch(c, s) PROVE OwnersOK'
  <2>0. UNCHANGED <<role, instanceOf, instance>> /\ role[s] = "daemon"
        /\ rec' = [rec EXCEPT ![c] = Registered(c, s, instanceOf[s])] /\ rec[c].status = "new"
    BY <1>6 DEF Dispatch, daemonVars
  <2>i. instanceOf[s] \in Instances /\ instanceOf[s] <= instance
    BY <1>0 DEF NetworkOK
  <2>1. rec'[c].owner = s /\ rec'[c].instance = instanceOf[s]
    BY <1>6, DispatchEffect
  <2>2. \A d \in Calls : d # c => rec'[d] = rec[d]
    BY <1>0, <2>0
  <2>3. \A t \in Sockets : role[t] = "daemon" => t = s
    BY <2>0 DEF NetworkOK
  <2> SUFFICES ASSUME NEW d \in Pending(rec)'
               PROVE  /\ rec'[d].instance \in Instances /\ rec'[d].instance <= instance'
                      /\ rec'[d].owner # None => role'[rec'[d].owner] = "daemon"
                      /\ \A t \in Sockets : rec'[d].owner = t <=> role'[t] = "daemon" /\ instanceOf'[t] = rec'[d].instance
    BY DEF OwnersOK
  <2>4. CASE d = c
    BY <2>0, <2>i, <2>1, <2>3, <2>4
  <2>5. CASE d # c
    <3>1. d \in Pending(rec) /\ rec'[d] = rec[d]
      BY <2>2, <2>5 DEF Pending
    <3> QED BY <2>0, <3>1 DEF OwnersOK
  <2> QED BY <2>4, <2>5
<1>7. ASSUME NEW c \in Calls, NEW s \in Sockets, DispatchFails(c, s) PROVE OwnersOK'
  <2>0. /\ UNCHANGED <<instanceOf, instance>> /\ role[s] = "daemon"
        /\ \A t \in Sockets : role'[t] = IF t = s THEN "expired" ELSE role[t]
    BY <1>7, <1>0 DEF DispatchFails, daemonVars
  <2>3. \A t \in Sockets : role'[t] # "daemon"
    BY <2>0 DEF NetworkOK
  <2> SUFFICES ASSUME NEW d \in Pending(rec)'
               PROVE  /\ rec'[d].instance \in Instances /\ rec'[d].instance <= instance'
                      /\ rec'[d].owner # None => role'[rec'[d].owner] = "daemon"
                      /\ \A t \in Sockets : rec'[d].owner = t <=> role'[t] = "daemon" /\ instanceOf'[t] = rec'[d].instance
    BY DEF OwnersOK
  <2>d. d \in Calls /\ rec'[d].status = "pending"
    BY DEF Pending
  <2>i. instanceOf[s] \in Instances
    BY <1>0
  <2>c. Registered(c, s, instanceOf[s]) \in Record
    BY <2>i, RegisteredFields
  <2>e. Settled(Registered(c, s, instanceOf[s]), "send_failed", None).status = "settled"
    BY <2>c, SettledFields DEF Outcomes, Failures
  <2>4. d # c
    BY <1>7, <2>d, <2>e, DispatchFailsEffect
  <2>5. /\ Kept(rec[d], rec'[d])
        /\ rec'[d].owner = IF rec[d].status = "pending" /\ rec[d].owner = s THEN None ELSE rec[d].owner
        /\ rec[d].status # "pending" => rec'[d] = rec[d]
    BY <1>7, <2>d, <2>4, DispatchFailsEffect
  <2>6. d \in Pending(rec) /\ rec'[d].instance = rec[d].instance
    BY <2>d, <2>5 DEF Kept, SameCall, Pending
  <2>7. /\ rec[d].instance \in Instances /\ rec[d].instance <= instance
        /\ rec[d].owner # None => role[rec[d].owner] = "daemon"
    BY <2>6 DEF OwnersOK
  <2>8. rec'[d].owner = None
    BY <1>t, <2>0, <2>3, <2>5, <2>6, <2>7, <2>d DEF Pending
  <2> QED BY <2>0, <2>3, <2>6, <2>7, <2>8, Numbers
<1>8. ASSUME NEW s \in Sockets, Connect(s) PROVE OwnersOK'
  <2>1. /\ \A t \in Sockets : role'[t] = IF t = s THEN "probing" ELSE IF role[t] = "probing" THEN "replaced" ELSE role[t]
        /\ \A t \in Sockets : t # s => instanceOf'[t] = instanceOf[t]
        /\ UNCHANGED <<rec, instance>> /\ s > opened
    BY <1>8, <1>0 DEF Connect, TypeOK
  <2>2. role[s] = "none"
    BY <2>1 DEF NetworkOK
  <2>3. \A t \in Sockets : role'[t] = "daemon" <=> role[t] = "daemon"
    BY <2>1, <2>2
  <2>4. \A t \in Sockets : role'[t] = "daemon" => instanceOf'[t] = instanceOf[t]
    BY <2>1, <2>2
  <2> SUFFICES ASSUME NEW d \in Pending(rec)
               PROVE  /\ rec[d].instance \in Instances /\ rec[d].instance <= instance
                      /\ rec[d].owner # None => role'[rec[d].owner] = "daemon"
                      /\ \A t \in Sockets : rec[d].owner = t <=> role'[t] = "daemon" /\ instanceOf'[t] = rec[d].instance
    BY <2>1 DEF OwnersOK, Pending
  <2>5. /\ rec[d].instance \in Instances /\ rec[d].instance <= instance
        /\ rec[d].owner # None => role[rec[d].owner] = "daemon"
        /\ \A t \in Sockets : rec[d].owner = t <=> role[t] = "daemon" /\ instanceOf[t] = rec[d].instance
    BY DEF OwnersOK
  <2>6. rec[d].owner # None => rec[d].owner \in Sockets
    BY <1>t DEF Pending
  <2> QED BY <2>3, <2>4, <2>5, <2>6
<1>9. CASE Crash
  <2>1. UNCHANGED <<role, instanceOf, rec>> /\ instance <= instance'
    BY <1>9, <1>0 DEF Crash, workerVars
  <2> QED BY <1>0, <2>1, OwnersFrame DEF Pending
<1>10. CASE Tick
  <2>1. /\ rec' = Aged(rec) /\ UNCHANGED <<role, instanceOf, instance>>
    BY <1>10 DEF Tick, netVars
  <2>2. \A d \in Calls : /\ [rec[d] EXCEPT !.age = @ + 1].owner = rec[d].owner
                         /\ [rec[d] EXCEPT !.age = @ + 1].instance = rec[d].instance
                         /\ [rec[d] EXCEPT !.age = @ + 1].status = rec[d].status
    BY <1>0 DEF Record
  <2>3. \A d \in Calls : rec'[d] = rec[d] \/ rec'[d] = [rec[d] EXCEPT !.age = @ + 1]
    BY <1>0, <2>1, RegistryEffects
  <2> QED BY <1>f, <2>1, <2>2, <2>3 DEF Pending
<1>11. CASE \/ DaemonCloses \/ DaemonResume \/ DaemonReady \/ DaemonToolCall \/ DaemonCancel \/ DaemonAck
            \/ DaemonPong \/ GraceExpires \/ (\E c \in Calls : Finish(c)) \/ (\E s \in Sockets : Drop(s))
            \/ (\E s \in Sockets : WorkerPong(s))
  <2>1. UNCHANGED <<role, instanceOf, instance, rec>>
    BY <1>11 DEF DaemonCloses, DaemonResume, DaemonReady, DaemonToolCall, DaemonCancel, DaemonAck,
         DaemonPong, GraceExpires, Finish, Drop, WorkerPong, workerVars, netVars, daemonVars
  <2> QED BY <1>f, <2>1 DEF Pending
<1> QED
  BY <1>1, <1>2, <1>3, <1>5, <1>6, <1>7, <1>8, <1>9, <1>10, <1>11
     DEF Next, Untimed, Timed, WorkerStep, DaemonStep
-----------------------------------------------------------------------------
(* What a step can do to a call, wherever it is known. *)

(* In the Worker's registry. *)
Continues(c) ==
    /\ rec[c].status = "pending" /\ rec'[c].status = "pending"
    /\ rec'[c].instance = rec[c].instance /\ rec'[c].outcome = rec[c].outcome
Begins(c) ==
    rec[c].status = "new" /\ rec'[c].status = "pending" /\ \E s \in Sockets : Dispatch(c, s)
Fails(c) ==
    rec[c].status = "new" /\ rec'[c].status = "settled" /\ \E s \in Sockets : DispatchFails(c, s)
Ends(c) ==
    /\ rec[c].status = "pending" /\ rec'[c].status = "settled"
    /\ \/ rec'[c].outcome \notin {"answered", "not_received", "send_failed"}
       \/ /\ rec'[c].outcome = "answered"
          /\ \E s \in Sockets : Result(c) \in Contents(up[s]) /\ role[s] = "daemon"
       \/ \E s \in Sockets : /\ WorkerResumeAck(s) /\ c \in Head(up[s]).ids
                             /\ rec[c].owner = s
RecordMove(c) == rec'[c] = rec[c] \/ Continues(c) \/ Begins(c) \/ Fails(c) \/ Ends(c)

LEMMA RecordStep ==
    ASSUME TypeOK, NetworkOK, OwnersOK, Next, NEW c \in Calls
    PROVE  RecordMove(c)
<1>0. rec \in [Calls -> Record] /\ rec[c] \in Record /\ instanceOf \in [Sockets -> Instances]
  BY DEF TypeOK
<1>k. ASSUME Kept(rec[c], rec'[c]), rec[c].status # "pending" => rec'[c] = rec[c]
      PROVE  RecordMove(c)
  <2>1. SameCall(rec[c], rec'[c])
    BY <1>k DEF Kept
  <2>2. rec[c].status = "pending" => Continues(c)
    BY <2>1 DEF SameCall, Continues
  <2> QED BY <1>k, <2>2 DEF RecordMove
<1>1. ASSUME NEW s \in Sockets,
             WorkerCloses(s) \/ Promote(s) \/ \E x \in BOOLEAN : PromotionFails(s, x)
      PROVE  RecordMove(c)
  <2>1. Kept(rec[c], rec'[c]) /\ (c \notin Pending(rec) => rec'[c] = rec[c])
    BY <1>1, SocketStep
  <2> QED BY <1>k, <2>1 DEF Pending
<1>2. ASSUME NEW s \in Sockets, WorkerResult(s) PROVE RecordMove(c)
  <2>1. rec'[c] = IF c = Head(up[s]).id /\ rec[c].status = "pending" /\ rec[c].owner = s
                  THEN Settled(rec[c], "answered", s) ELSE rec[c]
    BY <1>2, ResultEffect
  <2>2. /\ Settled(rec[c], "answered", s).status = "settled"
        /\ Settled(rec[c], "answered", s).outcome = "answered"
    BY <1>0, SettledFields, ZenonT(60) DEF Outcomes
  <2>h. role[s] = "daemon" /\ (c = Head(up[s]).id => Result(c) \in Contents(up[s]))
    <3>1. /\ up[s] \in Seq(Message) /\ up[s] # <<>> /\ Head(up[s]).type = "tool_result"
          /\ role[s] = "daemon"
      BY <1>2 DEF TypeOK, WorkerResult, WorkerHandles
    <3>2. Head(up[s]) \in Message /\ Head(up[s]) \in Contents(up[s])
      BY <3>1, ConsContents
    <3> QED BY <3>1, <3>2, Kinds
  <2>3. rec'[c] = rec[c] \/ Ends(c)
    BY <2>1, <2>2, <2>h DEF Ends
  <2> QED BY <2>3 DEF RecordMove
<1>3. ASSUME NEW s \in Sockets, WorkerResumeAck(s) PROVE RecordMove(c)
  <2>1. /\ Settled(rec[c], "not_received", None).status = "settled"
        /\ [rec[c] EXCEPT !.redelivered = s].instance = rec[c].instance
        /\ [rec[c] EXCEPT !.redelivered = s].status = rec[c].status
        /\ [rec[c] EXCEPT !.redelivered = s].outcome = rec[c].outcome
    BY <1>0, SettledFields DEF Outcomes, Failures, Record
  <2>2. \/ rec'[c] = rec[c]
        \/ rec'[c] = [rec[c] EXCEPT !.redelivered = s] /\ rec[c].status = "pending"
        \/ /\ rec'[c] = Settled(rec[c], "not_received", None)
           /\ c \in Head(up[s]).ids /\ rec[c].status = "pending" /\ rec[c].owner = s
    BY <1>3, ResumeAckEffect
  <2>3. rec'[c] = rec[c] \/ Continues(c) \/ Ends(c)
    BY <1>3, <2>1, <2>2 DEF Continues, Ends
  <2> QED BY <2>3 DEF RecordMove
<1>4. ASSUME NEW d \in Calls, NEW o \in {"cancelled", "timed_out", "reconnect_expired"}, GiveUp(d, o)
      PROVE  RecordMove(c)
  <2>o. o \in Outcomes
    BY DEF Outcomes, Failures
  <2>1. rec'[c] = IF c = d /\ rec[c].status = "pending" THEN Settled(rec[c], o, None) ELSE rec[c]
    BY <1>4, <2>o, GiveUpEffect
  <2>2. /\ Settled(rec[c], o, None).status = "settled" /\ Settled(rec[c], o, None).outcome = o
    BY <1>0, <2>o, SettledFields
  <2>3. rec'[c] = rec[c] \/ Ends(c)
    BY <2>1, <2>2 DEF Ends
  <2> QED BY <2>3 DEF RecordMove
<1>5. ASSUME NEW d \in Calls, CancelRequest(d) \/ ExpireCall(d) PROVE RecordMove(c)
  BY <1>4, <1>5 DEF CancelRequest, ExpireCall, ExpiryOutcome
<1>6. ASSUME NEW d \in Calls, NEW s \in Sockets, Dispatch(d, s) PROVE RecordMove(c)
  <2>1. rec[d].status = "new"
    BY <1>6 DEF Dispatch
  <2>d. rec'[d].status = "pending" /\ \A e \in Calls : e # d => rec'[e] = rec[e]
    BY <1>6, DispatchEffect
  <2>2. c = d => Begins(c)
    BY <1>6, <2>1, <2>d DEF Begins
  <2> QED BY <2>d, <2>2 DEF RecordMove
<1>7. ASSUME NEW d \in Calls, NEW s \in Sockets, DispatchFails(d, s) PROVE RecordMove(c)
  <2>1. CASE d = c
    <3>i. instanceOf[s] \in Instances
      BY <1>0
    <3>1. Registered(c, s, instanceOf[s]) \in Record
      BY <3>i, RegisteredFields
    <3>2. Settled(Registered(c, s, instanceOf[s]), "send_failed", None).status = "settled"
      BY <3>1, SettledFields DEF Outcomes, Failures
    <3>3. rec'[c].status = "settled" /\ rec[c].status = "new"
      BY <1>7, <2>1, <3>2, DispatchFailsEffect DEF DispatchFails
    <3>4. Fails(c)
      BY <1>7, <2>1, <3>3 DEF Fails
    <3> QED BY <3>4 DEF RecordMove
  <2>2. CASE d # c
    BY <1>7, <1>k, <2>2, DispatchFailsEffect
  <2> QED BY <2>1, <2>2
<1>8. CASE Tick
  <2>1. rec' = Aged(rec)
    BY <1>8 DEF Tick
  <2>2. rec'[c] = IF rec[c].status = "pending" THEN [rec[c] EXCEPT !.age = @ + 1] ELSE rec[c]
    BY <1>0, <2>1, RegistryEffects
  <2>3. /\ [rec[c] EXCEPT !.age = @ + 1].instance = rec[c].instance
        /\ [rec[c] EXCEPT !.age = @ + 1].status = rec[c].status
        /\ [rec[c] EXCEPT !.age = @ + 1].outcome = rec[c].outcome
    BY <1>0 DEF Record
  <2>4. rec'[c] = rec[c] \/ Continues(c)
    BY <2>2, <2>3 DEF Continues
  <2> QED BY <2>4 DEF RecordMove
<1>9. CASE \/ DaemonCloses \/ DaemonResume \/ DaemonReady \/ DaemonToolCall \/ DaemonCancel \/ DaemonAck
           \/ DaemonPong \/ GraceExpires \/ Crash \/ (\E d \in Calls : Finish(d)) \/ (\E s \in Sockets : Drop(s))
           \/ (\E s \in Sockets : WorkerPong(s)) \/ (\E s \in Sockets : Connect(s))
  <2>1. UNCHANGED rec
    BY <1>9 DEF DaemonCloses, DaemonResume, DaemonReady, DaemonToolCall, DaemonCancel, DaemonAck,
         DaemonPong, GraceExpires, Crash, Finish, Drop, WorkerPong, Connect, workerVars
  <2> QED BY <2>1 DEF RecordMove
<1> QED
  BY <1>1, <1>2, <1>3, <1>5, <1>6, <1>7, <1>8, <1>9
     DEF Next, Untimed, Timed, WorkerStep, DaemonStep

(* Who a pending call belongs to from one step to the next. *)
OwnerMove(c) ==
    \/ rec'[c].owner \in {rec[c].owner, None}
    \/ \E s \in Sockets : Promote(s) /\ rec'[c].owner = s

LEMMA OwnerStep ==
    ASSUME TypeOK, NetworkOK, OwnersOK, Next, NEW c \in Pending(rec), c \in Pending(rec)'
    PROVE  OwnerMove(c)
<1> USE DEF OwnerMove
<1>0. /\ rec \in [Calls -> Record] /\ c \in Calls /\ rec[c] \in Record /\ rec[c].status = "pending"
      /\ rec'[c].status = "pending" /\ instanceOf \in [Sockets -> Instances]
      /\ role \in [Sockets -> {"none", "probing", "replaced", "daemon", "expired"}]
  BY DEF TypeOK, Pending
<1>o. \A t \in Sockets : rec[c].owner = t <=> role[t] = "daemon" /\ instanceOf[t] = rec[c].instance
  BY DEF OwnersOK
<1>1. ASSUME NEW s \in Sockets, WorkerCloses(s) PROVE OwnerMove(c)
  <2>1. rec' = DetachSocket(rec, s)
    BY <1>1 DEF WorkerCloses
  <2>2. DetachSocket(rec, s)[c].owner = IF rec[c].status = "pending" /\ rec[c].owner = s THEN None ELSE rec[c].owner
    BY <1>0, DetachEffect
  <2> QED BY <2>1, <2>2
<1>2. ASSUME NEW s \in Sockets, Promote(s) PROVE OwnerMove(c)
  <2>1. \A t \in Sockets : rec'[c].owner = t => role'[t] = "daemon"
    BY <1>0, <1>2, SocketStep
  <2>2. \A t \in Sockets : role'[t] = "daemon" => t = s
    BY <1>2, <1>0 DEF Promote
  <2>3. rec'[c].owner \in Sockets \cup {None}
    <3>1. Kept(rec[c], rec'[c])
      BY <1>0, <1>2, SocketStep
    <3> QED BY <3>1 DEF Kept, Record
  <2> QED BY <1>2, <2>1, <2>2, <2>3
<1>3. ASSUME NEW s \in Sockets, NEW x \in BOOLEAN, PromotionFails(s, x) PROVE OwnerMove(c)
  <2>1. \A t \in Sockets : rec'[c].owner = t => role'[t] = "daemon" /\ instanceOf[t] = rec[c].instance
    BY <1>0, <1>3, SocketStep
  <2>2. \A t \in Sockets : role'[t] = "daemon" => role[t] = "daemon"
    BY <1>3, <1>0 DEF PromotionFails
  <2>3. rec'[c].owner \in Sockets \cup {None}
    <3>1. Kept(rec[c], rec'[c])
      BY <1>0, <1>3, SocketStep
    <3> QED BY <3>1 DEF Kept, Record
  <2> QED BY <1>o, <2>1, <2>2, <2>3
<1>4. ASSUME NEW s \in Sockets, WorkerResult(s) PROVE OwnerMove(c)
  <2>1. rec'[c] = rec[c] \/ rec'[c] = Settled(rec[c], "answered", s)
    BY <1>0, <1>4, ResultEffect
  <2>o. "answered" \in Outcomes
    BY DEF Outcomes
  <2>2. Settled(rec[c], "answered", s).status = "settled"
    BY <1>0, <2>o, SettledFields
  <2> QED BY <1>0, <2>1, <2>2
<1>5. ASSUME NEW s \in Sockets, WorkerResumeAck(s) PROVE OwnerMove(c)
  <2>1. /\ Settled(rec[c], "not_received", None).status = "settled"
        /\ [rec[c] EXCEPT !.redelivered = s].owner = rec[c].owner
    BY <1>0, SettledFields DEF Outcomes, Failures, Record
  <2> QED BY <1>0, <1>5, <2>1, ResumeAckEffect
<1>6. ASSUME NEW d \in Calls, NEW o \in Outcomes, GiveUp(d, o) PROVE OwnerMove(c)
  <2>1. rec'[c] = rec[c] \/ rec'[c] = Settled(rec[c], o, None)
    BY <1>0, <1>6, GiveUpEffect
  <2>2. Settled(rec[c], o, None).status = "settled"
    BY <1>0, SettledFields
  <2> QED BY <1>0, <2>1, <2>2
<1>7. ASSUME NEW d \in Calls, CancelRequest(d) \/ ExpireCall(d) PROVE OwnerMove(c)
  BY <1>6, <1>7 DEF CancelRequest, ExpireCall, ExpiryOutcome, Outcomes, Failures
<1>8. ASSUME NEW d \in Calls, NEW s \in Sockets, Dispatch(d, s) PROVE OwnerMove(c)
  BY <1>0, <1>8 DEF Dispatch
<1>9. ASSUME NEW d \in Calls, NEW s \in Sockets, DispatchFails(d, s) PROVE OwnerMove(c)
  <2>1. d # c
    BY <1>0, <1>9 DEF DispatchFails
  <2> QED BY <1>0, <1>9, <2>1, DispatchFailsEffect
<1>10. CASE Tick
  <2>1. rec'[c] = [rec[c] EXCEPT !.age = @ + 1]
    BY <1>0, <1>10, RegistryEffects DEF Tick
  <2> QED BY <1>0, <2>1 DEF Record
<1>11. CASE \/ DaemonCloses \/ DaemonResume \/ DaemonReady \/ DaemonToolCall \/ DaemonCancel \/ DaemonAck
            \/ DaemonPong \/ GraceExpires \/ Crash \/ (\E d \in Calls : Finish(d)) \/ (\E s \in Sockets : Drop(s))
            \/ (\E s \in Sockets : WorkerPong(s)) \/ (\E s \in Sockets : Connect(s))
  <2>1. UNCHANGED rec
    BY <1>11 DEF DaemonCloses, DaemonResume, DaemonReady, DaemonToolCall, DaemonCancel, DaemonAck,
         DaemonPong, GraceExpires, Crash, Finish, Drop, WorkerPong, Connect, workerVars
  <2> QED BY <2>1
<1> HIDE DEF OwnerMove
<1> QED
  BY <1>1, <1>2, <1>3, <1>4, <1>5, <1>7, <1>8, <1>9, <1>10, <1>11
     DEF Next, Untimed, Timed, WorkerStep, DaemonStep

(* In the daemon: executions begin with a tool_call, and nothing else of a   *)
(* call that is known there is forgotten without a message that says so, the *)
(* grace timer or the death of the process. *)
Forgets(c) ==
    /\ local'[c] \in {"none", "suppressed"} /\ (local'[c] # "none" => local[c] # "none")
    /\ \/ cur \in Sockets /\ CancelCall(c) \in Incoming
       \/ cur \in Sockets /\ ResultAck(c) \in Incoming
       \/ \E S \in SUBSET Calls : Resume(S) \in Incoming /\ c \notin S
       \/ expiry > DaemonGrace
       \/ instance' = instance + 1
Keeps(c) ==
    /\ started'[c] = started[c]
    /\ \/ local'[c] = local[c]
       \/ local[c] = "active" /\ local'[c] = "retained"
       \/ local[c] = "suppressed" /\ local'[c] = "none"
       \/ Forgets(c)
Starts(c) ==
    /\ DaemonToolCall /\ cur \in Sockets /\ down[cur] # <<>> /\ Head(down[cur]) = ToolCall(c)
    /\ phase = "ready" /\ local' = [local EXCEPT ![c] = "active"]
    /\ started' = [started EXCEPT ![c] = @ + 1]
LocalMove(c) == Keeps(c) \/ Starts(c)

LEMMA LocalStep ==
    ASSUME TypeOK, Next, NEW c \in Calls
    PROVE  LocalMove(c)
<1> USE DEF LocalMove, Keeps, Starts, Forgets
<1>0. /\ local \in [Calls -> {"none", "active", "suppressed", "retained"}] /\ started \in [Calls -> Nat]
      /\ down \in [Sockets -> Seq(Message)] /\ cur \in Sockets \cup {None}
  BY DEF TypeOK
<1>h. ASSUME cur \in Sockets, down[cur] # <<>>
      PROVE  Head(down[cur]) \in Message /\ Head(down[cur]) \in Incoming
  <2>1. cur # None /\ Head(down[cur]) \in Message /\ Head(down[cur]) \in Contents(down[cur])
    BY <1>0, <1>h, Numbers, ConsContents
  <2> QED BY <2>1 DEF Incoming
<1>1. CASE DaemonResume
  <2>1. cur \in Sockets /\ down[cur] # <<>> /\ Head(down[cur]).type = "resume_calls"
    BY <1>0, <1>1 DEF DaemonResume, DaemonHandles
  <2>2. Head(down[cur]).ids \in SUBSET Calls /\ Resume(Head(down[cur]).ids) \in Incoming
    BY <1>h, <2>1, Kinds
  <2>3. /\ started' = started
        /\ \/ local' = local
           \/ local' = [d \in Calls |-> IF d \in Head(down[cur]).ids THEN local[d]
                                        ELSE IF d \in Active THEN "suppressed" ELSE "none"]
    BY <1>1 DEF DaemonResume
  <2> QED BY <2>2, <2>3 DEF Active
<1>2. CASE DaemonToolCall
  <2>1. cur \in Sockets /\ down[cur] # <<>> /\ Head(down[cur]).type = "tool_call"
    BY <1>0, <1>2 DEF DaemonToolCall, DaemonHandles
  <2>2. Head(down[cur]).id \in Calls /\ Head(down[cur]) = ToolCall(Head(down[cur]).id)
    BY <1>h, <2>1, Kinds
  <2>3. \/ started' = started /\ local' = local
        \/ /\ local' = [local EXCEPT ![Head(down[cur]).id] = "active"] /\ phase = "ready"
           /\ started' = [started EXCEPT ![Head(down[cur]).id] = @ + 1]
    BY <1>2 DEF DaemonToolCall
  <2>4. CASE c = Head(down[cur]).id
    BY <1>2, <2>1, <2>2, <2>3, <2>4
  <2>5. CASE c # Head(down[cur]).id
    BY <1>0, <2>2, <2>3, <2>5
  <2> QED BY <2>4, <2>5
<1>3. CASE DaemonCancel
  <2>1. cur \in Sockets /\ down[cur] # <<>> /\ Head(down[cur]).type = "cancel_call"
    BY <1>0, <1>3 DEF DaemonCancel, DaemonHandles
  <2>2. Head(down[cur]).id \in Calls /\ CancelCall(Head(down[cur]).id) \in Incoming
    BY <1>h, <2>1, Kinds
  <2>3. /\ started' = started
        /\ \/ local' = local
           \/ local' = [local EXCEPT ![Head(down[cur]).id] =
                           IF Head(down[cur]).id \in Active THEN "suppressed" ELSE "none"]
    BY <1>3 DEF DaemonCancel
  <2> QED BY <1>0, <2>1, <2>2, <2>3 DEF Active
<1>4. CASE DaemonAck
  <2>1. cur \in Sockets /\ down[cur] # <<>> /\ Head(down[cur]).type = "tool_result_ack"
    BY <1>0, <1>4 DEF DaemonAck, DaemonHandles
  <2>2. Head(down[cur]).id \in Calls /\ ResultAck(Head(down[cur]).id) \in Incoming
    BY <1>h, <2>1, Kinds
  <2>3. /\ started' = started
        /\ \/ local' = local
           \/ local' = [local EXCEPT ![Head(down[cur]).id] = IF @ = "retained" THEN "none" ELSE @]
    BY <1>4 DEF DaemonAck
  <2> QED BY <1>0, <2>1, <2>2, <2>3
<1>5. ASSUME NEW d \in Calls, Finish(d) PROVE LocalMove(c)
  <2>1. started' = started /\ local[d] \in {"active", "suppressed"}
        /\ local' = [local EXCEPT ![d] = IF local[d] = "suppressed" THEN "none" ELSE "retained"]
    BY <1>5 DEF Finish, Active, AfterDelivery, history
  <2> QED BY <1>0, <2>1
<1>6. CASE GraceExpires
  BY <1>0, <1>6 DEF GraceExpires, Active, history
<1>7. CASE Crash
  BY <1>0, <1>7 DEF Crash, history
<1>8. CASE Tick \/ WorkerStep \/ DaemonCloses \/ DaemonReady \/ DaemonPong \/ (\E s \in Sockets : Drop(s))
           \/ (\E s \in Sockets : Connect(s)) \/ (\E d \in Calls : ExpireCall(d))
  <2>1. UNCHANGED <<local, started>>
    BY <1>8 DEF Tick, WorkerStep, WorkerCloses, Promote, PromotionFails, WorkerResult, WorkerResumeAck,
       WorkerPong, Dispatch, DispatchFails, CancelRequest, ExpireCall, GiveUp,
       DaemonCloses, DaemonReady, DaemonPong, Drop, Connect, daemonVars, history
  <2> QED BY <2>1
<1> HIDE DEF LocalMove, Keeps, Starts, Forgets
<1> QED
  BY <1>1, <1>2, <1>3, <1>4, <1>5, <1>6, <1>7, <1>8 DEF Next, Untimed, Timed, DaemonStep

(* On its way to the daemon. *)
Recall(m, c) ==
    /\ m = ToolCall(c) /\ cur \in Sockets /\ WorkerResumeAck(cur)
    /\ c \in Head(up[cur]).ids \cap OwnedBy(rec, cur)
    /\ c \in Pending(rec)'
Confirmation(m, c, s) ==
    /\ m = ResultAck(c) /\ WorkerResult(s) /\ Head(up[s]) = Result(c)
    /\ rec[c].status = "pending" => rec[c].owner = s
Inquiry(m) ==
    /\ cur \in Sockets /\ m = Resume(ReboundCalls(rec, instanceOf[cur], cur))
    /\ Promote(cur) \/ \E x \in BOOLEAN : PromotionFails(cur, x)
    /\ Incoming = {} /\ Incoming' \subseteq {m, ReadyAck}
Arrival(m) ==
    \/ m \in {ReadyAck, Pong}
    \/ \E c \in Calls : m = ToolCall(c) /\ cur \in Sockets /\ Dispatch(c, cur)
    \/ \E c \in Calls : Recall(m, c)
    \/ \E c \in Pending(rec), o \in Outcomes : m = CancelCall(c) /\ GiveUp(c, o)
    \/ \E c \in Calls, s \in Sockets : Confirmation(m, c, s)
    \/ Inquiry(m)

LEMMA Arrivals ==
    ASSUME TypeOK, TypeOK', NetworkOK, OwnersOK, Next, NEW m, m \in Incoming', m \notin Incoming
    PROVE  Arrival(m)
<1> USE DEF Arrival, Recall, Confirmation, Inquiry
<1> USE Numbers
<1>0. /\ up \in [Sockets -> Seq(Message)] /\ down \in [Sockets -> Seq(Message)]
      /\ role \in [Sockets -> {"none", "probing", "replaced", "daemon", "expired"}]
      /\ cur \in Sockets \cup {None} /\ alive \subseteq Sockets /\ rec \in [Calls -> Record]
      /\ instanceOf \in [Sockets -> Instances]
  BY DEF TypeOK
<1>a. \A s \in alive : s = cur
  BY DEF NetworkOK
<1>i. ~UNCHANGED <<cur, down>>
  BY DEF Incoming
<1>e. \A q \in Seq(Message) : q # <<>> => Head(q) \in Message
  BY ConsContents
<1>o. ASSUME NEW s \in Sockets, NEW r \in Seq(Message), down' = Sent(down, s, r), cur' = cur
      PROVE  m \in Contents(r) /\ s = cur
  BY <1>a, <1>o, WorkerSends
<1>s. ASSUME NEW s \in Sockets, NEW n \in Message, down' = Sent(down, s, <<n>>), cur' = cur
      PROVE  m = n /\ s = cur
  <2>1. <<n>> \in Seq(Message) /\ Contents(<<n>>) = {n}
    BY SingleContents
  <2> QED BY <1>o, <1>s, <2>1
<1>q. ASSUME NEW s \in Sockets, role[s] \in Early PROVE down[s] = <<>>
  BY <1>q DEF NetworkOK
<1>1. ASSUME NEW s \in Sockets, Promote(s) PROVE Arrival(m)
  <2> DEFINE ids == ReboundCalls(rec, instanceOf[s], s)
  <2>0. role[s] = "probing" /\ down' = Sent(down, s, <<Resume(ids), ReadyAck>>) /\ cur' = cur
    BY <1>1 DEF Promote, PromotionMessages, daemonVars
  <2>1. ids \in SUBSET Calls
    BY DEF ReboundCalls, Pending
  <2>2. <<Resume(ids), ReadyAck>> \in Seq(Message)
    BY <2>1, Constructors
  <2>3. Contents(<<Resume(ids), ReadyAck>>) = {Resume(ids), ReadyAck}
    BY DEF Contents
  <2>4. m \in {Resume(ids), ReadyAck} /\ s = cur
    BY <1>o, <2>0, <2>2, <2>3
  <2>5. Incoming = {}
    BY <1>0, <1>q, <2>0, <2>4, EmptyContents DEF Early, Incoming
  <2>6. Incoming' \subseteq {Resume(ids), ReadyAck}
    BY <2>0, <2>2, <2>3, <2>5, WorkerSends
  <2> QED BY <1>1, <2>4, <2>5, <2>6
<1>2. ASSUME NEW s \in Sockets, NEW x \in BOOLEAN, PromotionFails(s, x) PROVE Arrival(m)
  <2> DEFINE ids == ReboundCalls(rec, instanceOf[s], s)
  <2>0. /\ role[s] \in {"probing", "replaced"} /\ cur' = cur
        /\ down' = down \/ down' = [down EXCEPT ![s] = @ \o <<Resume(ids)>>]
    BY <1>2 DEF PromotionFails, daemonVars
  <2>1. down' = [down EXCEPT ![s] = @ \o <<Resume(ids)>>]
    BY <1>i, <2>0
  <2>2. ids \in SUBSET Calls
    BY DEF ReboundCalls, Pending
  <2>3. <<Resume(ids)>> \in Seq(Message) /\ Contents(<<Resume(ids)>>) = {Resume(ids)}
    BY <2>2, Constructors, SingleContents
  <2>4. s = cur
    BY <1>0, <2>0, <2>1 DEF Incoming
  <2>5. down[s] = <<>>
    BY <1>q, <2>0 DEF Early
  <2>b. down[s] \in Seq(Message)
    BY <1>0
  <2>6. Contents(down[s] \o <<Resume(ids)>>) = Contents(down[s]) \cup {Resume(ids)}
    <3>1. Resume(ids) \in Message
      BY <2>2, Constructors
    <3> HIDE DEF ids
    <3> QED BY <2>b, <3>1, AppendContents
  <2>7. Incoming = {}
    BY <1>0, <2>4, <2>5, EmptyContents DEF Incoming
  <2>8. down'[s] = down[s] \o <<Resume(ids)>>
    BY <1>0, <2>1
  <2>9. Incoming' = {Resume(ids)}
    BY <2>0, <2>4, <2>5, <2>6, <2>8, EmptyContents DEF Incoming
  <2> QED BY <1>2, <2>4, <2>7, <2>9
<1>3. ASSUME NEW s \in Sockets, WorkerResult(s) PROVE Arrival(m)
  <2> DEFINE c == Head(up[s]).id
  <2>0. /\ down' = Sent(down, s, Acknowledgement(c, s)) /\ cur' = cur
        /\ Head(up[s]) \in Message /\ Head(up[s]).type = "tool_result"
    BY <1>3, <1>0, <1>e DEF WorkerResult, WorkerHandles, daemonVars
  <2>1. c \in Calls /\ Head(up[s]) = Result(c)
    BY <2>0, Kinds
  <2>2. CASE ResultOwnership(rec, c, s) = "stale"
    <3>1. down' = Sent(down, s, <<>>) /\ <<>> \in Seq(Message) /\ Contents(<<>>) = {}
      BY <2>0, <2>2, EmptyContents, EmptySeq DEF Acknowledgement
    <3> QED BY <1>o, <2>0, <3>1
  <2>3. CASE ResultOwnership(rec, c, s) # "stale"
    <3>1. m = ResultAck(c)
      BY <1>s, <2>0, <2>1, <2>3, Constructors DEF Acknowledgement
    <3>2. rec[c].status = "pending" => rec[c].owner = s
      BY <2>1, <2>3 DEF ResultOwnership, Pending
    <3> QED BY <1>3, <2>1, <3>1, <3>2
  <2> QED BY <2>2, <2>3
<1>4. ASSUME NEW s \in Sockets, WorkerResumeAck(s) PROVE Arrival(m)
  <2> DEFINE owned == Head(up[s]).ids \cap OwnedBy(rec, s)
             again == {c \in owned : rec[c].redelivered = None /\ RedeliveryAllowed(c)}
  <2>0. cur' = cur
    BY <1>4 DEF WorkerResumeAck, daemonVars
  <2>1. again \in SUBSET Calls
    BY DEF OwnedBy, Pending
  <2>2. Head(up[s]).ids \subseteq expected[s] /\ s \notin acked
    BY <1>4, <1>i, <2>0 DEF WorkerResumeAck
  <2>3. PICK q \in Orders(again) : down' = Sent(down, s, [i \in DOMAIN q |-> ToolCall(q[i])])
    BY <1>4, <2>2 DEF WorkerResumeAck
  <2>r. \A c \in again : rec'[c] = [rec[c] EXCEPT !.redelivered = s]
    BY <1>4, <2>1, <2>2 DEF WorkerResumeAck
  <2> DEFINE r == [i \in DOMAIN q |-> ToolCall(q[i])]
  <2>4. r \in Seq(Message) /\ Contents(r) \subseteq {ToolCall(c) : c \in again}
    BY <2>1, CallsInOrder
  <2> HIDE DEF r
  <2>5. m \in Contents(r) /\ s = cur
    BY <1>o, <2>0, <2>3, <2>4 DEF r
  <2>6. PICK c \in again : m = ToolCall(c)
    BY <2>4, <2>5
  <2>7. c \in Calls /\ rec[c].status = "pending" /\ c \in owned
    BY <2>6 DEF OwnedBy, Pending
  <2>8. rec'[c].status = "pending"
    BY <1>0, <2>r, <2>6, <2>7, ZenonT(60) DEF Record
  <2> QED BY <1>4, <2>5, <2>6, <2>7, <2>8 DEF Pending
<1>5. ASSUME NEW s \in Sockets, WorkerPong(s) PROVE Arrival(m)
  BY <1>5, <1>s, Constructors DEF WorkerPong, daemonVars
<1>6. ASSUME NEW c \in Calls, NEW s \in Sockets, Dispatch(c, s) PROVE Arrival(m)
  <2>1. m = ToolCall(c) /\ s = cur
    BY <1>6, <1>s, Constructors DEF Dispatch, daemonVars
  <2> QED BY <1>6, <2>1
<1>7. ASSUME NEW c \in Pending(rec), NEW o \in Outcomes, GiveUp(c, o) PROVE Arrival(m)
  <2>1. c \in Calls /\ rec[c].owner \in Sockets \cup {None}
    BY <1>0 DEF Pending, Record
  <2>2. m = CancelCall(c)
    <3>1. CASE rec[c].owner = None
      BY <1>7, <1>i, <3>1 DEF GiveUp, daemonVars
    <3>2. CASE rec[c].owner # None
      BY <1>7, <1>s, <2>1, <3>2, Constructors DEF GiveUp, daemonVars
    <3> QED BY <3>1, <3>2
  <2> QED BY <1>7, <2>2
<1>8. ASSUME NEW c \in Calls, CancelRequest(c) \/ ExpireCall(c) PROVE Arrival(m)
  BY <1>7, <1>8 DEF CancelRequest, ExpireCall, ExpiryOutcome, Outcomes, Failures
<1>9. ASSUME NEW s \in Sockets, Connect(s) PROVE Arrival(m)
  <2>1. s > opened /\ cur' = s /\ down' = down
    BY <1>9 DEF Connect, TypeOK
  <2>2. down'[s] = <<>>
    BY <2>1 DEF NetworkOK, Early
  <2> QED BY <2>1, <2>2, EmptyContents DEF Incoming
<1>10. CASE DaemonCloses \/ Crash
  BY <1>10 DEF DaemonCloses, Crash, Incoming
<1>11. CASE DaemonResume \/ DaemonReady \/ DaemonToolCall \/ DaemonCancel \/ DaemonAck \/ DaemonPong
  <2>1. down' = Popped(down, cur) /\ cur \in Sockets /\ down[cur] # <<>> /\ cur' = cur
    BY <1>11, <1>0 DEF DaemonResume, DaemonReady, DaemonToolCall, DaemonCancel, DaemonAck,
       DaemonPong, DaemonHandles, daemonVars
  <2> QED BY <2>1, DaemonPops
<1>12. CASE \/ (\E s \in Sockets : WorkerCloses(s)) \/ (\E c \in Calls, s \in Sockets : DispatchFails(c, s))
            \/ (\E c \in Calls : Finish(c)) \/ GraceExpires \/ Tick \/ (\E s \in Sockets : Drop(s))
  <2>1. UNCHANGED <<cur, down>>
    BY <1>12 DEF WorkerCloses, DispatchFails, Finish, GraceExpires, Tick, Drop, daemonVars, netVars
  <2> QED BY <1>i, <2>1
<1> HIDE DEF Arrival, Recall, Confirmation, Inquiry
<1> QED
  BY <1>1, <1>2, <1>3, <1>4, <1>5, <1>6, <1>8, <1>9, <1>10, <1>11, <1>12
     DEF Next, Untimed, Timed, WorkerStep, DaemonStep

LEMMA ArrivalKinds ==
    ASSUME NEW m, Arrival(m), NEW c \in Calls
    PROVE  /\ m = ToolCall(c) => (cur \in Sockets /\ Dispatch(c, cur)) \/ Recall(m, c)
           /\ m = CancelCall(c) => c \in Pending(rec) /\ \E o \in Outcomes : GiveUp(c, o)
           /\ m = ResultAck(c) => \E s \in Sockets : Confirmation(m, c, s)
           /\ \A S \in SUBSET Calls : m = Resume(S) =>
                 Inquiry(m) /\ S = ReboundCalls(rec, instanceOf[cur], cur)
<1>m. \A d \in Calls : /\ ToolCall(c) = ToolCall(d) => c = d
                       /\ CancelCall(c) = CancelCall(d) => c = d
                       /\ ResultAck(c) = ResultAck(d) => c = d
  BY DEF ToolCall, CancelCall, ResultAck
<1>n. \A S, T : Resume(S) = Resume(T) => S = T
  BY DEF Resume
<1>p. Pending(rec) \subseteq Calls
  BY DEF Pending
<1>1. CASE m \in {ReadyAck, Pong}
  BY <1>1 DEF ReadyAck, Pong, ToolCall, CancelCall, ResultAck, Resume
<1>2. ASSUME NEW d \in Calls, m = ToolCall(d), (cur \in Sockets /\ Dispatch(d, cur)) \/ Recall(m, d)
      PROVE  /\ m = ToolCall(c) => (cur \in Sockets /\ Dispatch(c, cur)) \/ Recall(m, c)
             /\ m # CancelCall(c) /\ m # ResultAck(c) /\ \A S \in SUBSET Calls : m # Resume(S)
  <2>1. m # CancelCall(c) /\ m # ResultAck(c) /\ \A S \in SUBSET Calls : m # Resume(S)
    BY <1>2 DEF ToolCall, CancelCall, ResultAck, Resume
  <2>2. m = ToolCall(c) => c = d
    BY <1>2, <1>m
  <2> QED BY <1>2, <2>1, <2>2
<1>3. ASSUME NEW d \in Pending(rec), NEW o \in Outcomes, m = CancelCall(d), GiveUp(d, o)
      PROVE  /\ m = CancelCall(c) => c \in Pending(rec) /\ \E x \in Outcomes : GiveUp(c, x)
             /\ m # ToolCall(c) /\ m # ResultAck(c) /\ \A S \in SUBSET Calls : m # Resume(S)
  <2>1. m # ToolCall(c) /\ m # ResultAck(c) /\ \A S \in SUBSET Calls : m # Resume(S)
    BY <1>3 DEF ToolCall, CancelCall, ResultAck, Resume
  <2>2. m = CancelCall(c) => c = d
    BY <1>3, <1>m, <1>p
  <2> QED BY <1>3, <2>1, <2>2
<1>4. ASSUME NEW d \in Calls, NEW s \in Sockets, m = ResultAck(d), Confirmation(m, d, s)
      PROVE  /\ m = ResultAck(c) => \E t \in Sockets : Confirmation(m, c, t)
             /\ m # ToolCall(c) /\ m # CancelCall(c) /\ \A S \in SUBSET Calls : m # Resume(S)
  <2>1. m # ToolCall(c) /\ m # CancelCall(c) /\ \A S \in SUBSET Calls : m # Resume(S)
    BY <1>4 DEF ToolCall, CancelCall, ResultAck, Resume
  <2>2. m = ResultAck(c) => c = d
    BY <1>4, <1>m
  <2> QED BY <1>4, <2>1, <2>2
<1>5. ASSUME Inquiry(m)
      PROVE  /\ m # ToolCall(c) /\ m # CancelCall(c) /\ m # ResultAck(c)
             /\ \A S \in SUBSET Calls : m = Resume(S) => S = ReboundCalls(rec, instanceOf[cur], cur)
  <2>1. m = Resume(ReboundCalls(rec, instanceOf[cur], cur))
    BY <1>5 DEF Inquiry
  <2>2. m # ToolCall(c) /\ m # CancelCall(c) /\ m # ResultAck(c)
    BY <2>1 DEF ToolCall, CancelCall, ResultAck, Resume
  <2> QED BY <1>n, <2>1, <2>2
<1>6. \/ m \in {ReadyAck, Pong}
      \/ \E d \in Calls : m = ToolCall(d) /\ ((cur \in Sockets /\ Dispatch(d, cur)) \/ Recall(m, d))
      \/ \E d \in Pending(rec), o \in Outcomes : m = CancelCall(d) /\ GiveUp(d, o)
      \/ \E d \in Calls, s \in Sockets : m = ResultAck(d) /\ Confirmation(m, d, s)
      \/ Inquiry(m)
  BY DEF Arrival, Recall, Confirmation
<1> QED BY <1>1, <1>2, <1>3, <1>4, <1>5, <1>6

(* A tool call the daemon answers at once, for want of capacity. *)
Refuses(c) ==
    /\ DaemonToolCall /\ cur \in Sockets /\ down[cur] # <<>> /\ Head(down[cur]) = ToolCall(c)

(* On its way to the Worker. *)
Departure(s, m) ==
    \/ m = Probed
    \/ \E c \in Calls : /\ m = Result(c)
                        /\ local[c] # "none" \/ (Refuses(c) /\ ToolCall(c) \in Incoming)
    \/ s = cur /\ m = ResumeAck(resume.missing)

LEMMA Departures ==
    ASSUME TypeOK, NetworkOK, HandshakeOK, Next, NEW s \in Sockets, NEW m,
           m \in Contents(up'[s]), m \notin Contents(up[s])
    PROVE  Departure(s, m)
<1> USE DEF Departure
<1> USE Numbers
<1>0. /\ up \in [Sockets -> Seq(Message)] /\ down \in [Sockets -> Seq(Message)]
      /\ cur \in Sockets \cup {None} /\ resume.missing \in SUBSET Calls
  BY DEF TypeOK
<1>i. up'[s] # up[s] /\ up'[s] # <<>>
  BY EmptyContents
<1>r. ASSUME NEW r \in Seq(Message), up' = Sent(up, cur, r) PROVE m \in Contents(r) /\ s = cur
  BY <1>r, DaemonSends
<1>s. ASSUME NEW n \in Message, up' = Sent(up, cur, <<n>>) PROVE m = n /\ s = cur
  <2>1. <<n>> \in Seq(Message) /\ Contents(<<n>>) = {n}
    BY SingleContents
  <2> QED BY <1>r, <1>s, <2>1
<1>1. ASSUME NEW t \in Sockets, WorkerResult(t) \/ WorkerResumeAck(t) PROVE Departure(s, m)
  <2>1. up[t] # <<>> /\ up' = Popped(up, t)
    BY <1>1 DEF WorkerResult, WorkerResumeAck, WorkerHandles
  <2> QED BY <2>1, WorkerPops
<1>2. ASSUME NEW t \in Sockets, Promote(t) PROVE Departure(s, m)
  <2>1. up[t] # <<>> /\ up'[s] \in {Tail(up[t]), <<>>, up[s]} /\ (up'[s] = Tail(up[t]) => s = t \/ up'[s] = up[s] \/ up'[s] = <<>>)
    BY <1>2 DEF Promote, WorkerHandles
  <2>2. s = t
    BY <1>i, <2>1
  <2>3. Contents(up[t]) = {Head(up[t])} \cup Contents(Tail(up[t]))
    BY <1>0, <2>1, ConsContents
  <2> QED BY <1>i, <2>1, <2>2, <2>3
<1>3. ASSUME NEW t \in Sockets, Connect(t) PROVE Departure(s, m)
  <2>1. up'[s] = <<Probed>>
    BY <1>3, <1>0, <1>i DEF Connect
  <2>2. Contents(<<Probed>>) = {Probed}
    BY DEF Contents
  <2> QED BY <2>1, <2>2
<1>4. CASE DaemonReady
  <2>1. PICK q \in Orders(Retained) :
           up' = Sent(up, cur, [i \in DOMAIN q |-> Result(q[i])] \o <<ResumeAck(resume.missing)>>)
    BY <1>4, <1>i DEF DaemonReady
  <2> DEFINE a == [i \in DOMAIN q |-> Result(q[i])]
             b == <<ResumeAck(resume.missing)>>
  <2>2. Retained \in SUBSET Calls
    BY DEF Retained
  <2>3. a \in Seq(Message) /\ Contents(a) \subseteq {Result(c) : c \in Retained}
    BY <2>2, ResultsInOrder
  <2>4. b \in Seq(Message) /\ Contents(b) = {ResumeAck(resume.missing)}
    BY <1>0, Constructors, SingleContents
  <2> HIDE DEF a, b
  <2>5. a \o b \in Seq(Message) /\ Contents(a \o b) = Contents(a) \cup Contents(b)
    BY <2>3, <2>4, ConcatContents
  <2>6. up' = Sent(up, cur, a \o b)
    BY <2>1 DEF a, b
  <2>7. m \in Contents(a) \cup Contents(b) /\ s = cur
    BY <1>r, <2>5, <2>6
  <2> QED BY <2>3, <2>4, <2>7 DEF Retained
<1>5. CASE DaemonPong
  <2>1. PICK q \in Orders(Retained) : up' = Sent(up, cur, [i \in DOMAIN q |-> Result(q[i])])
    BY <1>5 DEF DaemonPong
  <2>2. Retained \in SUBSET Calls
    BY DEF Retained
  <2> DEFINE a == [i \in DOMAIN q |-> Result(q[i])]
  <2>3. a \in Seq(Message) /\ Contents(a) \subseteq {Result(c) : c \in Retained}
    BY <2>2, ResultsInOrder
  <2> HIDE DEF a
  <2>6. up' = Sent(up, cur, a)
    BY <2>1 DEF a
  <2>7. m \in Contents(a)
    BY <1>r, <2>3, <2>6
  <2> QED BY <2>3, <2>7 DEF Retained
<1>6. CASE DaemonToolCall
  <2>1. cur \in Sockets /\ down[cur] # <<>> /\ Head(down[cur]).type = "tool_call"
    BY <1>0, <1>6 DEF DaemonToolCall, DaemonHandles
  <2>2. up' = Sent(up, cur, <<Result(Head(down[cur]).id)>>)
    BY <1>6, <1>i DEF DaemonToolCall
  <2>3. /\ Head(down[cur]).id \in Calls /\ Head(down[cur]) = ToolCall(Head(down[cur]).id)
        /\ ToolCall(Head(down[cur]).id) \in Incoming
    <3>1. cur # None /\ Head(down[cur]) \in Message /\ Head(down[cur]) \in Contents(down[cur])
      BY <1>0, <2>1, ConsContents
    <3> QED BY <2>1, <3>1, Kinds DEF Incoming
  <2>4. Refuses(Head(down[cur]).id)
    BY <1>6, <2>1, <2>3 DEF Refuses
  <2> QED BY <1>s, <2>2, <2>3, <2>4, Constructors
<1>7. ASSUME NEW c \in Calls, Finish(c) PROVE Departure(s, m)
  <2>1. up' = Sent(up, cur, <<Result(c)>>) /\ local[c] # "none"
    BY <1>7, <1>i DEF Finish, Active
  <2> QED BY <1>s, <2>1, Constructors
<1>8. ASSUME NEW t \in Sockets,
             \/ WorkerCloses(t) \/ (\E x \in BOOLEAN : PromotionFails(t, x)) \/ WorkerPong(t)
             \/ (\E c \in Calls : Dispatch(c, t)) \/ (\E c \in Calls : DispatchFails(c, t)) \/ Drop(t)
      PROVE  Departure(s, m)
  <2>1. up' = up \/ up' = [up EXCEPT ![t] = <<>>]
    BY <1>8 DEF WorkerCloses, PromotionFails, WorkerPong, Dispatch, DispatchFails, Drop
  <2> QED BY <1>0, <1>i, <2>1
<1>9. CASE \/ (\E c \in Calls : CancelRequest(c) \/ ExpireCall(c)) \/ DaemonCloses \/ DaemonResume \/ DaemonCancel
           \/ DaemonAck \/ GraceExpires \/ Crash \/ Tick
  <2>1. up' = up
    BY <1>9 DEF CancelRequest, ExpireCall, GiveUp, DaemonCloses, DaemonResume, DaemonCancel, DaemonAck,
       GraceExpires, Crash, Tick, netVars
  <2> QED BY <1>i, <2>1
<1> HIDE DEF Departure
<1> QED
  BY <1>1, <1>2, <1>3, <1>4, <1>5, <1>6, <1>7, <1>8, <1>9
     DEF Next, Untimed, Timed, WorkerStep, DaemonStep

(* Which of them a result or an acknowledgement is. *)
LEMMA DepartureKinds ==
    ASSUME NEW s, NEW m, Departure(s, m)
    PROVE  /\ \A S \in SUBSET Calls : m = ResumeAck(S) =>
                 s = cur /\ ResumeAck(S) = ResumeAck(resume.missing)
           /\ \A c \in Calls : m = Result(c) =>
                 local[c] # "none" \/ (Refuses(c) /\ ToolCall(c) \in Incoming)
<1>1. ASSUME NEW S \in SUBSET Calls, m = ResumeAck(S)
      PROVE  s = cur /\ ResumeAck(S) = ResumeAck(resume.missing)
  <2>1. m # Probed /\ \A d \in Calls : m # Result(d)
    BY <1>1 DEF ResumeAck, Result, Probed
  <2> QED BY <1>1, <2>1 DEF Departure
<1>2. ASSUME NEW c \in Calls, m = Result(c)
      PROVE  local[c] # "none" \/ (Refuses(c) /\ ToolCall(c) \in Incoming)
  <2>1. m # Probed /\ m # ResumeAck(resume.missing) /\ \A d \in Calls : m = Result(d) => c = d
    BY <1>2 DEF ResumeAck, Result, Probed
  <2> QED BY <2>1 DEF Departure
<1> QED BY <1>1, <1>2

(* What the daemon found missing, and what it remembers as unsafe. *)
LEMMA ResumeStep ==
    ASSUME TypeOK, Next
    PROVE  /\ \/ resume'.missing = {}
              \/ resume' = resume /\ cur' = cur
              \/ /\ DaemonResume /\ cur \in Sockets /\ cur' = cur
                 /\ \E S \in SUBSET Calls : /\ Resume(S) \in Incoming
                                            /\ resume'.missing = S \ (Owned \cup unsafe)
           /\ \A c \in unsafe' : c \in unsafe \/ local[c] # "none"
<1>0. cur \in Sockets \cup {None} /\ down \in [Sockets -> Seq(Message)]
  BY DEF TypeOK
<1>1. CASE DaemonResume
  <2>1. cur \in Sockets /\ down[cur] # <<>> /\ Head(down[cur]).type = "resume_calls" /\ cur' = cur
    BY <1>0, <1>1 DEF DaemonResume, DaemonHandles
  <2>2. cur # None /\ Head(down[cur]) \in Message /\ Head(down[cur]) \in Contents(down[cur])
    BY <1>0, <2>1, Numbers, ConsContents
  <2>3. Head(down[cur]).ids \in SUBSET Calls /\ Resume(Head(down[cur]).ids) \in Incoming
    BY <2>1, <2>2, Kinds DEF Incoming
  <2>4. \/ resume' = resume
        \/ resume' = [known |-> TRUE, missing |-> ProvenMissing(Head(down[cur]).ids)]
    BY <1>1 DEF DaemonResume
  <2>5. \/ resume' = resume
        \/ resume'.missing = Head(down[cur]).ids \ (Owned \cup unsafe)
    BY <2>4 DEF ProvenMissing
  <2>6. unsafe' \subseteq unsafe
    BY <1>1 DEF DaemonResume
  <2> QED BY <1>1, <2>1, <2>3, <2>5, <2>6
<1>2. CASE GraceExpires
  BY <1>2 DEF GraceExpires, Retained
<1>3. CASE DaemonReady \/ DaemonCloses \/ Crash \/ \E s \in Sockets : Connect(s)
  <2>1. /\ resume' = NoResume \/ (resume' = resume /\ cur' = cur)
        /\ unsafe' \subseteq unsafe
    <3>1. CASE DaemonReady
      BY <3>1 DEF DaemonReady
    <3>2. CASE DaemonCloses
      BY <3>2 DEF DaemonCloses
    <3>3. CASE Crash
      BY <3>3 DEF Crash
    <3>4. CASE \E s \in Sockets : Connect(s)
      BY <3>4 DEF Connect
    <3> QED BY <1>3, <3>1, <3>2, <3>3, <3>4
  <2>2. CASE resume' = NoResume
    <3>1. resume'.missing = {}
      BY <2>2 DEF NoResume
    <3> QED BY <2>1, <3>1
  <2>3. CASE resume' = resume /\ cur' = cur
    BY <2>1, <2>3
  <2> QED BY <2>1, <2>2, <2>3
<1>4. CASE \/ WorkerStep \/ DaemonToolCall \/ DaemonCancel \/ DaemonAck \/ DaemonPong \/ Tick
           \/ (\E c \in Calls : Finish(c)) \/ (\E s \in Sockets : Drop(s)) \/ (\E c \in Calls : ExpireCall(c))
  <2>1. UNCHANGED <<resume, cur, unsafe>>
    BY <1>4 DEF WorkerStep, WorkerCloses, Promote, PromotionFails, WorkerResult, WorkerResumeAck,
       WorkerPong, Dispatch, DispatchFails, CancelRequest, ExpireCall, GiveUp, DaemonToolCall,
       DaemonCancel, DaemonAck, DaemonPong, Finish, Drop, Tick, daemonVars
  <2> QED BY <2>1
<1> QED BY <1>1, <1>2, <1>3, <1>4 DEF Next, Untimed, Timed, DaemonStep
-----------------------------------------------------------------------------
(* Nothing names a call before it is dispatched, and what tells the daemon   *)
(* to forget a call comes after it is settled. *)
LEMMA NamesStep ==
    ASSUME TypeOK, TypeOK', NetworkOK, HandshakeOK, AcksOK, OwnersOK, NamesOK, RunsOK, Next
    PROVE  NamesOK'
<1> USE Numbers
<1>0. /\ rec \in [Calls -> Record] /\ started \in [Calls -> Nat] /\ instanceOf \in [Sockets -> Instances]
      /\ cur \in Sockets \cup {None}
  BY DEF TypeOK
<1>m. /\ \A c, d \in Calls : /\ ToolCall(c) = ToolCall(d) => c = d
                             /\ CancelCall(c) = CancelCall(d) => c = d
                             /\ ResultAck(c) = ResultAck(d) => c = d
                             /\ Result(c) = Result(d) => c = d
                             /\ ToolCall(c) # CancelCall(d) /\ ToolCall(c) # ResultAck(d)
                             /\ CancelCall(c) # ResultAck(d)
      /\ \A S, T \in SUBSET Calls : /\ Resume(S) = Resume(T) => S = T
                                    /\ ResumeAck(S) = ResumeAck(T) => S = T
  BY DEF ToolCall, CancelCall, ResultAck, Result, Resume, ResumeAck
<1>n. /\ \A c \in Calls : /\ ToolCall(c) \notin {ReadyAck, Pong}
                          /\ CancelCall(c) \notin {ReadyAck, Pong}
                          /\ ResultAck(c) \notin {ReadyAck, Pong} /\ Result(c) # Probed
      /\ \A S \in SUBSET Calls : Resume(S) \notin {ReadyAck, Pong} /\ ResumeAck(S) # Probed
      /\ \A c \in Calls, S \in SUBSET Calls :
            /\ Resume(S) # ToolCall(c) /\ Resume(S) # CancelCall(c) /\ Resume(S) # ResultAck(c)
            /\ ResumeAck(S) # Result(c)
  BY DEF ToolCall, CancelCall, ResultAck, Result, Resume, ResumeAck, ReadyAck, Pong, Probed
<1> SUFFICES ASSUME NEW c \in Calls
             PROVE  /\ rec'[c].status = "new" => Fresh(c)'
                    /\ rec'[c].status = "pending" => rec'[c].outcome = "none"
                    /\ CancelCall(c) \in Incoming' \/ ResultAck(c) \in Incoming' => rec'[c].status = "settled"
  BY DEF NamesOK
<1>1. rec'[c].status = "pending" => rec'[c].outcome = "none"
  <2>1. \/ rec'[c] = rec[c]
        \/ rec[c].status = "pending" /\ rec'[c].outcome = rec[c].outcome
        \/ \E s \in Sockets : Dispatch(c, s)
        \/ rec'[c].status = "settled"
    BY RecordStep DEF RecordMove, Continues, Begins, Fails, Ends
  <2>2. ASSUME NEW s \in Sockets, Dispatch(c, s) PROVE rec'[c].outcome = "none"
    BY <2>2, DispatchEffect
  <2> QED BY <2>1, <2>2 DEF NamesOK
<1>2. ASSUME rec'[c].status = "new" PROVE Fresh(c)'
  <2>1. rec'[c] = rec[c] /\ rec[c].status = "new"
    <3>1. \/ rec'[c] = rec[c]
          \/ rec'[c].status \in {"pending", "settled"}
      BY RecordStep DEF RecordMove, Continues, Begins, Fails, Ends
    <3> QED BY <1>2, <3>1
  <2>2. /\ rec[c] = NewRecord /\ started[c] = 0 /\ ToolCall(c) \notin Incoming
        /\ c \notin resume.missing
        /\ \A S \in SUBSET Calls : Resume(S) \in Incoming => c \notin S
        /\ \A s \in Sockets : /\ Result(c) \notin Contents(up[s])
                              /\ \A S \in SUBSET Calls : ResumeAck(S) \in Contents(up[s]) => c \notin S
    BY <2>1 DEF NamesOK, Fresh
  <2>3. local[c] = "none"
    BY <2>2 DEF RunsOK
  <2>4. started'[c] = 0
    <3>1. \/ started'[c] = started[c]
          \/ cur \in Sockets /\ down[cur] # <<>> /\ Head(down[cur]) = ToolCall(c)
      BY LocalStep DEF LocalMove, Keeps, Starts, Forgets
    <3>2. ~(cur \in Sockets /\ down[cur] # <<>> /\ Head(down[cur]) = ToolCall(c))
      BY <2>2, ConsContents DEF Incoming, TypeOK
    <3> QED BY <2>2, <3>1, <3>2
  <2>5. ToolCall(c) \notin Incoming'
    <3>1. SUFFICES ASSUME ToolCall(c) \in Incoming' PROVE FALSE
      OBVIOUS
    <3>2. Arrival(ToolCall(c))
      BY <2>2, <3>1, Arrivals
    <3>3. (cur \in Sockets /\ Dispatch(c, cur)) \/ Recall(ToolCall(c), c)
      BY <3>2, ArrivalKinds
    <3>4. ~(cur \in Sockets /\ Dispatch(c, cur))
      BY <1>2, DispatchEffect
    <3> QED BY <2>1, <3>3, <3>4 DEF Recall, OwnedBy, Pending
  <2>6. \A S \in SUBSET Calls : Resume(S) \in Incoming' => c \notin S
    <3> SUFFICES ASSUME NEW S \in SUBSET Calls, Resume(S) \in Incoming', Resume(S) \notin Incoming
                 PROVE  c \notin S
      BY <2>2
    <3>1. Arrival(Resume(S))
      BY Arrivals
    <3>2. S = ReboundCalls(rec, instanceOf[cur], cur)
      BY <3>1, ArrivalKinds
    <3> QED BY <2>1, <3>2 DEF ReboundCalls, Pending
  <2>7. c \notin resume'.missing
    BY <2>2, ResumeStep
  <2>8. ASSUME NEW s \in Sockets PROVE Result(c) \notin Contents(up'[s])
    <3>1. SUFFICES ASSUME Result(c) \in Contents(up'[s]) PROVE FALSE
      OBVIOUS
    <3>2. Departure(s, Result(c))
      BY <2>2, <3>1, Departures
    <3> QED BY <2>2, <2>3, <3>2, DepartureKinds
  <2>9. ASSUME NEW s \in Sockets, NEW S \in SUBSET Calls, ResumeAck(S) \in Contents(up'[s])
        PROVE  c \notin S
    <3>1. resume.missing \in SUBSET Calls
      BY DEF TypeOK
    <3>2. ResumeAck(S) \in Contents(up[s]) \/ ResumeAck(S) = ResumeAck(resume.missing)
      <4>1. ResumeAck(S) \in Contents(up[s]) \/ Departure(s, ResumeAck(S))
        BY <2>9, Departures
      <4> QED BY <4>1, DepartureKinds
    <3> QED BY <1>m, <2>2, <3>1, <3>2
  <2> QED BY <2>1, <2>2, <2>4, <2>5, <2>6, <2>7, <2>8, <2>9 DEF Fresh
<1>3. rec[c].status = "settled" => rec'[c].status = "settled"
  BY RecordStep DEF RecordMove, Continues, Begins, Fails, Ends
<1>4. ASSUME CancelCall(c) \in Incoming' PROVE rec'[c].status = "settled"
  <2>1. CASE CancelCall(c) \in Incoming
    BY <1>3, <2>1 DEF NamesOK
  <2>2. CASE CancelCall(c) \notin Incoming
    <3>1. Arrival(CancelCall(c))
      BY <1>4, <2>2, Arrivals
    <3>2. PICK o \in Outcomes : c \in Pending(rec) /\ GiveUp(c, o)
      BY <3>1, ArrivalKinds
    <3>3. rec[c].status = "pending" /\ rec[c] \in Record
      BY <1>0, <3>2 DEF Pending
    <3>4. rec'[c] = Settled(rec[c], o, None)
      BY <3>2, <3>3, GiveUpEffect
    <3> QED BY <3>3, <3>4, SettledFields
  <2> QED BY <2>1, <2>2
<1>5. ASSUME ResultAck(c) \in Incoming' PROVE rec'[c].status = "settled"
  <2>1. CASE ResultAck(c) \in Incoming
    BY <1>3, <2>1 DEF NamesOK
  <2>2. CASE ResultAck(c) \notin Incoming
    <3>1. Arrival(ResultAck(c))
      BY <1>5, <2>2, Arrivals
    <3>2. PICK s \in Sockets : Confirmation(ResultAck(c), c, s)
      BY <3>1, ArrivalKinds
    <3>c. /\ WorkerResult(s) /\ Head(up[s]) = Result(c)
          /\ rec[c].status = "pending" => rec[c].owner = s
      BY <3>2 DEF Confirmation
    <3>3. rec[c].status # "new"
      <4>1. up[s] \in Seq(Message) /\ up[s] # <<>>
        BY <3>c DEF TypeOK, WorkerResult, WorkerHandles
      <4>2. Result(c) \in Contents(up[s])
        BY <3>c, <4>1, ConsContents
      <4> QED BY <4>2 DEF NamesOK, Fresh
    <3>4. rec[c].status \in {"pending", "settled"} /\ rec[c] \in Record
      BY <1>0, <3>3 DEF Record
    <3>5. CASE rec[c].status = "pending"
      <4>1. Head(up[s]).id = c
        BY <3>c DEF Result
      <4>2. rec'[c] = Settled(rec[c], "answered", s)
        BY <3>c, <3>5, <4>1, ResultEffect
      <4>4. Settled(rec[c], "answered", s).status = "settled"
        BY DEF Settled, NewRecord
      <4> QED BY <4>2, <4>4
    <3> QED BY <1>3, <3>4, <3>5
  <2> QED BY <2>1, <2>2
<1> QED BY <1>1, <1>2, <1>4, <1>5
-----------------------------------------------------------------------------
(* The calls that can be waiting for the daemon are known to its grace       *)
(* timer: it does not fire before the Worker has given them up. *)
LEMMA GraceOutlives ==
    ASSUME TypeOK, TimingOK, NEW c \in Calls, Awaited(c)
    PROVE  expiry <= DaemonGrace
<1> USE Numbers
<1> DEFINE n == Cardinality(Channels)
           m == 1 + MaxLateness
           g == Grants(c)
<1>1. /\ rec[c] \in Record /\ rec[c].age \in Nat /\ expiry \in Nat
  BY DEF TypeOK, Record
<1>2. /\ rec[c].age <= Allowance(c) + MaxLateness /\ expiry <= rec[c].age + 1
  BY DEF TimingOK, Awaited
<1>3. Cardinality(Tried) \in Nat /\ Cardinality(Tried) <= n
  <2>1. IsFiniteSet(Channels) /\ Tried \subseteq Channels
    BY RelayAssumption DEF Tried
  <2> QED BY <2>1, FS_Subset, FS_CardinalityType
<1>4. g \in Int /\ g <= 2 * n - 1 /\ n \in Nat /\ m \in Nat
  BY <1>3 DEF Grants
<1>5. Allowance(c) = Timeout[c] + DeliveryGrace + g * m
  BY DEF Allowance
<1>6. Timeout[c] + DeliveryGrace + MaxLateness + (2 * n - 1) * m < DaemonGrace
  BY GraceOutlivesCalls
<1> HIDE DEF n, m, g
<1>7. g * m <= (2 * n - 1) * m
  BY <1>4
<1>8. g * m \in Int /\ (2 * n - 1) * m \in Int
  BY <1>4
<1> QED BY <1>1, <1>2, <1>5, <1>6, <1>7, <1>8

(* A call reported missing was never started, and is not on its way. *)
LEMMA ClaimsStep ==
    ASSUME TypeOK, TypeOK', NetworkOK, HandshakeOK, AcksOK, AcksOK', OwnersOK, NamesOK, RunsOK, Next,
           NEW c \in Calls, Claimed(c)'
    PROVE  c \in Pending(rec)
           /\ (Claimed(c) \/ (Untouched(c) /\ DaemonResume /\ rec[c].owner = cur))
           /\ ~(cur \in Sockets /\ WorkerResumeAck(cur) /\ c \in OwnedBy(rec, cur))
<1> USE Numbers
<1>0. /\ rec \in [Calls -> Record] /\ rec' \in [Calls -> Record]
      /\ cur \in Sockets \cup {None} /\ role \in [Sockets -> {"none", "probing", "replaced", "daemon", "expired"}]
      /\ resume.missing \in SUBSET Calls /\ instanceOf \in [Sockets -> Instances]
      /\ up \in [Sockets -> Seq(Message)]
  BY DEF TypeOK
<1>m. \A S, T \in SUBSET Calls : ResumeAck(S) = ResumeAck(T) => S = T
  BY DEF ResumeAck
<1>n. /\ \A S \in SUBSET Calls : ResumeAck(S) # Probed
      /\ \A d \in Calls, S \in SUBSET Calls : ResumeAck(S) # Result(d)
  BY DEF Result, ResumeAck, Probed
<1> DEFINE s == rec'[c].owner
<1>1. /\ c \in Pending(rec)' /\ s # None
      /\ \/ s = cur' /\ c \in resume'.missing
         \/ \E S \in SUBSET Calls : c \in S /\ ResumeAck(S) \in Contents(up'[s])
  BY DEF Claimed
<1>2. s \in Sockets
  BY <1>0, <1>1 DEF Record
<1> HIDE DEF s
<1>3. rec'[c].status = "pending"
  BY <1>1 DEF Pending
<1>4. rec[c].status # "new"
  <2> SUFFICES ASSUME rec[c].status = "new" PROVE FALSE
    OBVIOUS
  <2>1. Fresh(c)
    BY DEF NamesOK
  <2>2. c \notin resume'.missing
    BY <2>1, ResumeStep DEF Fresh
  <2>3. PICK S \in SUBSET Calls : c \in S /\ ResumeAck(S) \in Contents(up'[s])
    BY <1>1, <2>2
  <2>4. ResumeAck(S) \in Contents(up[s]) \/ ResumeAck(S) = ResumeAck(resume.missing)
    <3>1. ResumeAck(S) \in Contents(up[s]) \/ Departure(s, ResumeAck(S))
      BY <1>2, <2>3, Departures
    <3> QED BY <3>1, DepartureKinds
  <2> QED BY <1>0, <1>2, <1>m, <2>1, <2>3, <2>4 DEF Fresh
<1>5. c \in Pending(rec) /\ rec'[c].instance = rec[c].instance /\ rec[c].status = "pending"
  <2>1. rec[c].status = "pending" /\ rec'[c].instance = rec[c].instance
    BY <1>3, <1>4, RecordStep DEF RecordMove, Continues, Begins, Fails, Ends
  <2> QED BY <2>1 DEF Pending
<1>6. \A t \in Sockets : ~Promote(t) \/ s # t
  <2> SUFFICES ASSUME Promote(s) PROVE FALSE
    BY <1>2
  <2>1. /\ role[s] = "probing" /\ up'[s] = Tail(up[s]) /\ UNCHANGED <<cur, resume>>
    BY <1>2, <1>0 DEF Promote, daemonVars
  <2>2. up[s] = <<Probed>>
    BY <1>2, <2>1 DEF NetworkOK
  <2>3. Contents(up'[s]) = {}
    BY <2>1, <2>2, EmptyContents
  <2>4. s = cur' => resume'.missing = {}
    BY <1>2, <2>1 DEF NetworkOK, Early, NoResume
  <2> QED BY <1>1, <2>3, <2>4
<1>7. rec[c].owner = s
  BY <1>1, <1>5, <1>6, OwnerStep DEF s, OwnerMove
<1>8. role[s] = "daemon" /\ instanceOf[s] = rec[c].instance
  BY <1>2, <1>5, <1>7 DEF OwnersOK
<1>9. Claimed(c) \/ (Untouched(c) /\ DaemonResume /\ rec[c].owner = cur)
  <2>1. CASE s = cur' /\ c \in resume'.missing
    <3>1. CASE resume' = resume /\ cur' = cur
      BY <1>1, <1>5, <1>7, <2>1, <3>1 DEF Claimed
    <3>2. CASE DaemonResume /\ cur' = cur /\ \E S \in SUBSET Calls : /\ Resume(S) \in Incoming
                                            /\ resume'.missing = S \ (Owned \cup unsafe)
      <4>1. PICK S \in SUBSET Calls : Resume(S) \in Incoming /\ c \in S /\ c \notin Owned
        BY <2>1, <3>2
      <4>2. ToolCall(c) \notin Incoming
        BY <4>1 DEF RunsOK
      <4>3. rec[c].instance = instance
        BY <1>1, <1>2, <1>8, <2>1, <3>2 DEF NetworkOK
      <4>4. ~Awaited(c)
        BY <4>1 DEF RunsOK, Owned, Active, Retained
      <4>5. started[c] = 0
        BY <1>5, <4>3, <4>4 DEF Awaited, TypeOK
      <4> QED BY <1>7, <2>1, <3>2, <4>2, <4>5 DEF Untouched
    <3> QED BY <2>1, <3>1, <3>2, ResumeStep
  <2>2. CASE \E S \in SUBSET Calls : c \in S /\ ResumeAck(S) \in Contents(up'[s])
    <3>1. PICK S \in SUBSET Calls : c \in S /\ ResumeAck(S) \in Contents(up'[s])
      BY <2>2
    <3>2. CASE ResumeAck(S) \in Contents(up[s])
      BY <1>1, <1>5, <1>7, <3>1, <3>2 DEF Claimed
    <3>3. CASE ResumeAck(S) \notin Contents(up[s])
      <4>1. s = cur /\ ResumeAck(S) = ResumeAck(resume.missing)
        <5>1. Departure(s, ResumeAck(S))
          BY <1>2, <3>1, <3>3, Departures
        <5> QED BY <5>1, DepartureKinds
      <4>2. c \in resume.missing
        BY <1>0, <1>m, <3>1, <4>1
      <4> QED BY <1>1, <1>5, <1>7, <4>1, <4>2 DEF Claimed
    <3> QED BY <3>2, <3>3
  <2> QED BY <1>1, <2>1, <2>2
<1>10. ~(cur \in Sockets /\ WorkerResumeAck(cur) /\ c \in OwnedBy(rec, cur))
  <2> SUFFICES ASSUME cur \in Sockets, WorkerResumeAck(cur), s = cur PROVE FALSE
    BY <1>7 DEF OwnedBy
  <2>1. /\ acked' = acked \cup {cur} /\ up[cur] # <<>> /\ Head(up[cur]).type = "resume_calls_ack"
        /\ UNCHANGED <<cur, phase, resume>>
    BY DEF WorkerResumeAck, WorkerHandles, daemonVars
  <2>a. up[cur] \in Seq(Message)
    BY <1>0
  <2>b. Head(up[cur]) \in Message /\ Head(up[cur]) \in Contents(up[cur])
    BY <2>1, <2>a, ConsContents
  <2>2. Head(up[cur]) \in Acks /\ Head(up[cur]) \in Contents(up[cur])
    BY <2>1, <2>b, MessageTypes
  <2>3. phase = "ready" /\ resume.missing = {}
    BY <1>0, <2>2 DEF AcksOK, NetworkOK, NoResume
  <2>4. Contents(up'[cur]) \cap Acks = {}
    BY <2>1 DEF AcksOK
  <2> QED BY <1>1, <2>1, <2>3, <2>4 DEF Acks
<1> QED BY <1>5, <1>9, <1>10

(* At most one tool_call of a call is on its way. *)
LEMMA OneToolCall ==
    ASSUME TypeOK, TypeOK', NetworkOK, OwnersOK, NamesOK, RunsOK, Next, NEW c \in Calls, cur' # None
    PROVE  AtMostOne(down'[cur'], {ToolCall(c)})
<1> USE Numbers
<1> DEFINE T == {ToolCall(c)}
<1>0. /\ down \in [Sockets -> Seq(Message)] /\ cur \in Sockets \cup {None} /\ alive \subseteq Sockets
      /\ role \in [Sockets -> {"none", "probing", "replaced", "daemon", "expired"}]
      /\ rec \in [Calls -> Record] /\ up \in [Sockets -> Seq(Message)] /\ alive \subseteq {cur}
  BY DEF TypeOK, NetworkOK
<1>a. cur # None => AtMostOne(down[cur], T)
  BY DEF RunsOK
<1>m. /\ \A d \in Calls : /\ ToolCall(c) = ToolCall(d) => c = d
                          /\ ToolCall(c) # CancelCall(d) /\ ToolCall(c) # ResultAck(d)
      /\ \A S \in SUBSET Calls : ToolCall(c) # Resume(S)
      /\ ToolCall(c) # ReadyAck /\ ToolCall(c) # Pong
  BY DEF ToolCall, CancelCall, ResultAck, Resume, ReadyAck, Pong
<1>f. ASSUME cur' = cur, down'[cur] = down[cur] PROVE AtMostOne(down'[cur'], T)
  BY <1>a, <1>f
<1>r. ASSUME NEW s \in Sockets, NEW r \in Seq(Message), down' = Sent(down, s, r), cur' = cur,
             AtMostOne(r, T), Contents(r) \cap T = {} \/ ToolCall(c) \notin Incoming
      PROVE  AtMostOne(down'[cur'], T)
  <2>1. CASE s \in alive
    <3>1. s = cur /\ down'[s] = down[s] \o r
      BY <1>r, <2>1, WorkerSends
    <3>2. Contents(down[s]) \cap T = {} \/ Contents(r) \cap T = {}
      BY <1>0, <1>r, <3>1 DEF Incoming
    <3>3. down[s] \in Seq(Message) /\ AtMostOne(down[s], T)
      BY <1>0, <1>a, <3>1
    <3>4. AtMostOne(down[s] \o r, T)
      BY <1>r, <3>2, <3>3, AtMostOneConcat
    <3> QED BY <1>r, <3>1, <3>4
  <2>2. CASE s \notin alive
    <3>1. \A t \in Sockets : down'[t] = down[t]
      BY <1>r, <2>2, WorkerSends
    <3> QED BY <1>0, <1>f, <1>r, <3>1
  <2> QED BY <2>1, <2>2
<1>s. ASSUME NEW s \in Sockets, NEW n \in Message, down' = Sent(down, s, <<n>>), cur' = cur,
             n # ToolCall(c) \/ ToolCall(c) \notin Incoming
      PROVE  AtMostOne(down'[cur'], T)
  <2>1. <<n>> \in Seq(Message) /\ Contents(<<n>>) = {n} /\ AtMostOne(<<n>>, T)
    BY SingleContents
  <2> QED BY <1>r, <1>s, <2>1
<1>1. ASSUME NEW s \in Sockets, Promote(s) PROVE AtMostOne(down'[cur'], T)
  <2> DEFINE ids == ReboundCalls(rec, instanceOf[s], s)
  <2>0. down' = Sent(down, s, <<Resume(ids), ReadyAck>>) /\ cur' = cur
    BY <1>1 DEF Promote, PromotionMessages, daemonVars
  <2>1. ids \in SUBSET Calls
    BY DEF ReboundCalls, Pending
  <2>2. <<Resume(ids), ReadyAck>> \in Seq(Message)
    BY <2>1, Constructors
  <2>3. Contents(<<Resume(ids), ReadyAck>>) = {Resume(ids), ReadyAck}
    BY DEF Contents
  <2>4. Contents(<<Resume(ids), ReadyAck>>) \cap T = {}
    BY <1>m, <2>1, <2>3
  <2>5. AtMostOne(<<Resume(ids), ReadyAck>>, T)
    BY <2>4, AtMostOneAbsent
  <2> QED BY <1>r, <2>0, <2>2, <2>4, <2>5
<1>2. ASSUME NEW s \in Sockets, NEW x \in BOOLEAN, PromotionFails(s, x) PROVE AtMostOne(down'[cur'], T)
  <2> DEFINE ids == ReboundCalls(rec, instanceOf[s], s)
  <2>0. /\ cur' = cur /\ down' \in {down, [down EXCEPT ![s] = @ \o <<Resume(ids)>>]}
    BY <1>2 DEF PromotionFails, daemonVars
  <2>1. ids \in SUBSET Calls
    BY DEF ReboundCalls, Pending
  <2>2. <<Resume(ids)>> \in Seq(Message) /\ Contents(<<Resume(ids)>>) = {Resume(ids)}
    BY <2>1, Constructors, SingleContents
  <2>3. Contents(<<Resume(ids)>>) \cap T = {} /\ AtMostOne(<<Resume(ids)>>, T)
    BY <1>m, <2>1, <2>2, AtMostOneAbsent
  <2>4. CASE s = cur
    <3>1. AtMostOne(down[s] \o <<Resume(ids)>>, T)
      BY <1>0, <1>a, <2>2, <2>3, <2>4, AtMostOneConcat
    <3>2. down'[cur] \in {down[cur], down[s] \o <<Resume(ids)>>}
      BY <1>0, <2>0, <2>4
    <3> QED BY <1>a, <2>0, <3>1, <3>2
  <2>5. CASE s # cur
    BY <1>0, <1>f, <2>0, <2>5
  <2> QED BY <2>4, <2>5
<1>3. ASSUME NEW s \in Sockets, WorkerResult(s) PROVE AtMostOne(down'[cur'], T)
  <2>0. down' = Sent(down, s, Acknowledgement(Head(up[s]).id, s)) /\ cur' = cur
    BY <1>3 DEF WorkerResult, daemonVars
  <2>1. Head(up[s]).id \in Calls
    BY <1>3, ResultEffect
  <2>2. CASE Acknowledgement(Head(up[s]).id, s) = <<>>
    BY <1>r, <2>0, <2>2, EmptyContents, EmptySeq, AtMostOneAbsent
  <2>3. CASE Acknowledgement(Head(up[s]).id, s) = <<ResultAck(Head(up[s]).id)>>
    BY <1>m, <1>s, <2>0, <2>1, <2>3, Constructors
  <2> QED BY <2>2, <2>3 DEF Acknowledgement
<1>4. ASSUME NEW s \in Sockets, WorkerResumeAck(s) PROVE AtMostOne(down'[cur'], T)
  <2> DEFINE owned == Head(up[s]).ids \cap OwnedBy(rec, s)
             again == {d \in owned : rec[d].redelivered = None /\ RedeliveryAllowed(d)}
  <2>0. cur' = cur /\ up[s] # <<>> /\ Head(up[s]).type = "resume_calls_ack"
    BY <1>4 DEF WorkerResumeAck, WorkerHandles, daemonVars
  <2>1. again \in SUBSET Calls
    BY DEF OwnedBy, Pending
  <2>2. CASE down' = down
    BY <1>f, <2>0, <2>2
  <2>3. CASE \E q \in Orders(again) : down' = Sent(down, s, [i \in DOMAIN q |-> ToolCall(q[i])])
    <3>1. PICK q \in Orders(again) : down' = Sent(down, s, [i \in DOMAIN q |-> ToolCall(q[i])])
      BY <2>3
    <3> DEFINE r == [i \in DOMAIN q |-> ToolCall(q[i])]
    <3>2. r \in Seq(Message) /\ Contents(r) \subseteq {ToolCall(d) : d \in again} /\ AtMostOne(r, T)
      BY <2>1, CallsInOrder
    <3> HIDE DEF r
    <3>3. down' = Sent(down, s, r)
      BY <3>1 DEF r
    <3>4. CASE c \in again
      <4>1. c \in Head(up[s]).ids /\ c \in Pending(rec) /\ rec[c].owner = s
        BY <3>4 DEF OwnedBy
      <4>2. Head(up[s]) \in Message /\ Head(up[s]) \in Contents(up[s])
        BY <1>0, <2>0, ConsContents
      <4>3. Head(up[s]).ids \in SUBSET Calls /\ ResumeAck(Head(up[s]).ids) \in Contents(up[s])
        BY <2>0, <4>2, Kinds
      <4>4. Claimed(c)
        BY <4>1, <4>3 DEF Claimed
      <4>5. ToolCall(c) \notin Incoming
        BY <4>4 DEF RunsOK, Untouched
      <4> QED BY <1>r, <2>0, <3>2, <3>3, <4>5
    <3>5. CASE c \notin again
      <4>1. Contents(r) \cap T = {}
        BY <1>m, <2>1, <3>2, <3>5
      <4> QED BY <1>r, <2>0, <3>2, <3>3, <4>1
    <3> QED BY <3>4, <3>5
  <2> QED BY <1>4, <2>2, <2>3 DEF WorkerResumeAck
<1>5. ASSUME NEW s \in Sockets, WorkerPong(s) PROVE AtMostOne(down'[cur'], T)
  BY <1>5, <1>m, <1>s, Constructors DEF WorkerPong, daemonVars
<1>6. ASSUME NEW d \in Calls, NEW s \in Sockets, Dispatch(d, s) PROVE AtMostOne(down'[cur'], T)
  <2>1. ToolCall(d) \notin Incoming
    BY <1>6 DEF Dispatch, NamesOK, Fresh
  <2> QED BY <1>6, <1>s, <2>1, Constructors DEF Dispatch, daemonVars
<1>7. ASSUME NEW d \in Calls, CancelRequest(d) \/ ExpireCall(d) PROVE AtMostOne(down'[cur'], T)
  <2>0. rec[d].owner \in Sockets \cup {None} /\ cur' = cur
        /\ IF rec[d].owner = None THEN down' = down ELSE down' = Sent(down, rec[d].owner, <<CancelCall(d)>>)
    BY <1>0, <1>7 DEF Record, CancelRequest, ExpireCall, GiveUp, daemonVars
  <2>1. CASE rec[d].owner = None
    BY <1>f, <2>0, <2>1
  <2>2. CASE rec[d].owner # None
    BY <1>m, <1>s, <2>0, <2>2, Constructors
  <2> QED BY <2>1, <2>2
<1>8. ASSUME NEW s \in Sockets, Connect(s) PROVE AtMostOne(down'[cur'], T)
  <2>1. s > opened /\ cur' = s /\ down' = down
    BY <1>8 DEF Connect, TypeOK
  <2>2. down'[s] = <<>>
    BY <2>1 DEF NetworkOK, Early
  <2> QED BY <2>1, <2>2, EmptyContents, AtMostOneAbsent
<1>9. CASE DaemonCloses \/ Crash
  BY <1>9 DEF DaemonCloses, Crash
<1>10. CASE DaemonResume \/ DaemonReady \/ DaemonToolCall \/ DaemonCancel \/ DaemonAck \/ DaemonPong
  <2>1. down' = Popped(down, cur) /\ cur \in Sockets /\ down[cur] # <<>> /\ cur' = cur
    BY <1>10, <1>0 DEF DaemonResume, DaemonReady, DaemonToolCall, DaemonCancel, DaemonAck,
       DaemonPong, DaemonHandles, daemonVars
  <2>2. down'[cur] = Tail(down[cur])
    BY <2>1, DaemonPops
  <2>3. AtMostOne(Tail(down[cur]), T)
    BY <1>0, <1>a, <2>1, AtMostOneTail
  <2> QED BY <2>1, <2>2, <2>3
<1>11. CASE \/ (\E s \in Sockets : WorkerCloses(s)) \/ (\E d \in Calls, s \in Sockets : DispatchFails(d, s))
            \/ (\E d \in Calls : Finish(d)) \/ GraceExpires \/ Tick \/ (\E s \in Sockets : Drop(s))
  <2>1. UNCHANGED <<cur, down>>
    BY <1>11 DEF WorkerCloses, DispatchFails, Finish, GraceExpires, Tick, Drop, daemonVars, netVars
  <2> QED BY <1>f, <2>1
<1>12. CASE WorkerStep
  <2>1. CASE \E s \in Sockets : WorkerCloses(s)
    BY <1>11, <2>1
  <2>2. CASE \E d \in Calls, s \in Sockets : DispatchFails(d, s)
    BY <1>11, <2>2
  <2> QED BY <1>12, <1>1, <1>2, <1>3, <1>4, <1>5, <1>6, <1>7, <2>1, <2>2 DEF WorkerStep
<1>13. CASE DaemonStep
  BY <1>13, <1>8, <1>9, <1>10, <1>11 DEF DaemonStep
<1>14. CASE Timed
  BY <1>14, <1>7, <1>11 DEF Timed
<1>15. CASE \E s \in Sockets : Drop(s)
  BY <1>11, <1>15
<1> QED BY <1>12, <1>13, <1>14, <1>15 DEF Next, Untimed

(* A call that is not to run stays so, unless it is dispatched again. *)
LEMMA UntouchedStep ==
    ASSUME TypeOK, TypeOK', NetworkOK, OwnersOK, Next, NEW c \in Calls, Untouched(c),
           ~(cur \in Sockets /\ Dispatch(c, cur)),
           ~(cur \in Sockets /\ WorkerResumeAck(cur) /\ c \in OwnedBy(rec, cur) /\ c \in Pending(rec)')
    PROVE  Untouched(c)'
<1>1. started[c] = 0 /\ ToolCall(c) \notin Incoming
  BY DEF Untouched
<1>2. ToolCall(c) \notin Incoming'
  <2>1. SUFFICES ASSUME ToolCall(c) \in Incoming' PROVE FALSE
    OBVIOUS
  <2>2. Arrival(ToolCall(c))
    BY <1>1, <2>1, Arrivals
  <2>3. (cur \in Sockets /\ Dispatch(c, cur)) \/ Recall(ToolCall(c), c)
    BY <2>2, ArrivalKinds
  <2> QED BY <2>3 DEF Recall
<1>3. started'[c] = 0
  <2>1. ~(cur \in Sockets /\ down[cur] # <<>> /\ Head(down[cur]) = ToolCall(c))
    BY <1>1, Numbers, ConsContents DEF Incoming, TypeOK
  <2>2. started'[c] = started[c]
    BY <2>1, LocalStep DEF LocalMove, Keeps, Starts, Forgets
  <2> QED BY <1>1, <2>2
<1> QED BY <1>2, <1>3 DEF Untouched

LEMMA RunsStep ==
    ASSUME TypeOK, TypeOK', NetworkOK, HandshakeOK, AcksOK, AcksOK', OwnersOK, NamesOK, NamesOK', RunsOK,
           TimingOK, Next
    PROVE  RunsOK'
<1> USE Numbers
<1>0. /\ rec \in [Calls -> Record] /\ started \in [Calls -> Nat] /\ instanceOf \in [Sockets -> Instances]
      /\ local \in [Calls -> {"none", "active", "suppressed", "retained"}]
      /\ cur \in Sockets \cup {None} /\ down \in [Sockets -> Seq(Message)] /\ up \in [Sockets -> Seq(Message)]
      /\ role \in [Sockets -> {"none", "probing", "replaced", "daemon", "expired"}]
      /\ started' \in [Calls -> Nat]
  BY DEF TypeOK
<1>q. cur' # None => \A c \in Calls : AtMostOne(down'[cur'], {ToolCall(c)})
  <2>1. cur' # None => \A c \in Calls : AtMostOne(down'[cur'], {ToolCall(c)})
    BY OneToolCall
  <2> QED BY <2>1
<1> SUFFICES ASSUME NEW c \in Calls
             PROVE  /\ started'[c] <= 1
                    /\ local'[c] # "none" \/ c \in unsafe' => started'[c] > 0
                    /\ ToolCall(c) \in Incoming' => started'[c] = 0
                    /\ Claimed(c)' => Untouched(c)'
                    /\ rec'[c].outcome \in {"not_received", "send_failed"} => Untouched(c)'
                    /\ \A S \in SUBSET Calls : Resume(S) \in Incoming' =>
                         /\ c \in S => ToolCall(c) \notin Incoming'
                         /\ Awaited(c)' => c \in S
                    /\ Awaited(c)' => local'[c] \in {"active", "retained"}
  <2>1. cur' # None => \A c \in Calls : AtMostOne(down'[cur'], {ToolCall(c)})
    BY OneToolCall
  <2> QED BY <2>1 DEF RunsOK
<1>m. /\ \A d \in Calls : /\ ToolCall(c) = ToolCall(d) => c = d
                          /\ ToolCall(c) # CancelCall(d) /\ ToolCall(c) # ResultAck(d)
      /\ \A S \in SUBSET Calls : ToolCall(c) # Resume(S)
      /\ ToolCall(c) # ReadyAck /\ ToolCall(c) # Pong
      /\ \A S, T \in SUBSET Calls : Resume(S) = Resume(T) => S = T
      /\ \A S \in SUBSET Calls, d \in Calls :
            /\ Resume(S) # ReadyAck /\ Resume(S) # Pong /\ Resume(S) # ToolCall(d)
            /\ Resume(S) # CancelCall(d) /\ Resume(S) # ResultAck(d)
  BY DEF ToolCall, CancelCall, ResultAck, Resume, ReadyAck, Pong
<1>p. Pending(rec) \subseteq Calls /\ \A i, s : ReboundCalls(rec, i, s) \in SUBSET Calls
  BY DEF Pending, ReboundCalls
<1>r. /\ started[c] <= 1
      /\ local[c] # "none" \/ c \in unsafe => started[c] > 0
      /\ ToolCall(c) \in Incoming => started[c] = 0
      /\ Claimed(c) => Untouched(c)
      /\ rec[c].outcome \in {"not_received", "send_failed"} => Untouched(c)
      /\ \A S \in SUBSET Calls : Resume(S) \in Incoming =>
           /\ c \in S => ToolCall(c) \notin Incoming
           /\ Awaited(c) => c \in S
      /\ Awaited(c) => local[c] \in {"active", "retained"}
  BY DEF RunsOK
(* Steps that begin the execution of the call. *)
<1>b. \/ started'[c] = started[c]
      \/ /\ cur \in Sockets /\ down[cur] # <<>> /\ Head(down[cur]) = ToolCall(c) /\ phase = "ready"
         /\ DaemonToolCall /\ local'[c] = "active" /\ started'[c] = started[c] + 1
  BY <1>0, LocalStep DEF LocalMove, Keeps, Starts, Forgets
<1>h. ASSUME cur \in Sockets, down[cur] # <<>>, Head(down[cur]) = ToolCall(c), DaemonToolCall
      PROVE  ToolCall(c) \in Incoming /\ ToolCall(c) \notin Incoming'
  <2>1. cur # None /\ down[cur] \in Seq(Message)
    BY <1>0, <1>h
  <2>2. ToolCall(c) \in Incoming
    BY <1>h, <2>1, ConsContents DEF Incoming
  <2>3. cur' = cur /\ down' = Popped(down, cur)
    BY <1>h DEF DaemonToolCall
  <2>4. down'[cur] = Tail(down[cur])
    BY <1>h, <2>3, DaemonPops
  <2>5. AtMostOne(down[cur], {ToolCall(c)})
    BY <2>1 DEF RunsOK
  <2>6. Contents(Tail(down[cur])) \cap {ToolCall(c)} = {}
    BY <1>h, <2>1, <2>5, AtMostOneTail
  <2> QED BY <2>2, <2>3, <2>4, <2>6 DEF Incoming
<1>1. started'[c] <= 1
  BY <1>b, <1>h, <1>r
<1>2. local'[c] # "none" \/ c \in unsafe' => started'[c] > 0
  <2>1. c \in unsafe' => c \in unsafe \/ local[c] # "none"
    BY ResumeStep
  <2>2. CASE started'[c] = started[c]
    <3>1. local'[c] # "none" => local[c] # "none" \/ started'[c] > 0
      <4>1. CASE local' = [local EXCEPT ![c] = "active"] /\ started' = [started EXCEPT ![c] = @ + 1]
        BY <1>0, <4>1
      <4> QED BY <4>1, LocalStep DEF LocalMove, Keeps, Starts, Forgets
    <3> QED BY <1>r, <2>1, <2>2, <3>1
  <2>3. CASE started'[c] = started[c] + 1
    BY <1>0, <2>3
  <2> QED BY <1>b, <2>2, <2>3
(* Steps that send its tool_call. *)
<1>t. ASSUME ToolCall(c) \in Incoming', ToolCall(c) \notin Incoming
      PROVE  \/ cur \in Sockets /\ Dispatch(c, cur) /\ Fresh(c)
             \/ /\ cur \in Sockets /\ WorkerResumeAck(cur) /\ c \in OwnedBy(rec, cur)
                /\ Claimed(c) /\ phase = "ready" /\ c \in Pending(rec)'
  <2>a. Arrival(ToolCall(c))
    BY <1>t, Arrivals
  <2>1. (cur \in Sockets /\ Dispatch(c, cur)) \/ Recall(ToolCall(c), c)
    BY <2>a, ArrivalKinds
  <2>2. CASE cur \in Sockets /\ Dispatch(c, cur)
    BY <2>2 DEF Dispatch, NamesOK
  <2>3. CASE /\ cur \in Sockets /\ WorkerResumeAck(cur)
             /\ c \in Head(up[cur]).ids \cap OwnedBy(rec, cur)
             /\ c \in Pending(rec)'
    <3>1. up[cur] # <<>> /\ Head(up[cur]).type = "resume_calls_ack"
      BY <2>3 DEF WorkerResumeAck, WorkerHandles
    <3>2. Head(up[cur]) \in Message /\ Head(up[cur]) \in Contents(up[cur])
      BY <1>0, <2>3, <3>1, ConsContents
    <3>3. /\ Head(up[cur]).ids \in SUBSET Calls /\ ResumeAck(Head(up[cur]).ids) \in Contents(up[cur])
          /\ Head(up[cur]) \in Acks
      BY <3>1, <3>2, Kinds, MessageTypes
    <3>4. Claimed(c)
      BY <2>3, <3>3 DEF Claimed, OwnedBy
    <3>5. phase = "ready"
      BY <2>3, <3>2, <3>3 DEF AcksOK
    <3> QED BY <2>3, <3>4, <3>5
  <2> QED BY <2>1, <2>2, <2>3 DEF Recall
<1>3. ToolCall(c) \in Incoming' => started'[c] = 0
  <2> SUFFICES ASSUME ToolCall(c) \in Incoming' PROVE started'[c] = 0
    OBVIOUS
  <2>1. started[c] = 0
    BY <1>r, <1>t DEF Fresh, Untouched
  <2> QED BY <1>b, <1>h, <2>1
<1>u. ASSUME Untouched(c), ~(cur \in Sockets /\ Dispatch(c, cur)),
             ~(cur \in Sockets /\ WorkerResumeAck(cur) /\ c \in OwnedBy(rec, cur) /\ c \in Pending(rec)')
      PROVE  Untouched(c)'
  BY <1>u, UntouchedStep
<1>4. Claimed(c)' => Untouched(c)'
  <2> SUFFICES ASSUME Claimed(c)' PROVE Untouched(c)'
    OBVIOUS
  <2>1. c \in Pending(rec) /\ (Claimed(c) \/ Untouched(c))
        /\ ~(cur \in Sockets /\ WorkerResumeAck(cur) /\ c \in OwnedBy(rec, cur))
    BY ClaimsStep
  <2>2. ~(cur \in Sockets /\ Dispatch(c, cur))
    BY <2>1 DEF Dispatch, Pending
  <2> QED BY <1>r, <1>u, <2>1, <2>2
<1>5. rec'[c].outcome \in {"not_received", "send_failed"} => Untouched(c)'
  <2> SUFFICES ASSUME rec'[c].outcome \in {"not_received", "send_failed"} PROVE Untouched(c)'
    OBVIOUS
  <2>1. rec'[c].status = "settled"
    <3>1. rec'[c].status \in {"new", "pending", "settled"}
      BY DEF TypeOK, Record
    <3>2. rec'[c].status = "pending" => rec'[c].outcome = "none"
      BY DEF NamesOK
    <3>3. rec'[c].status = "new" => rec'[c].outcome = "none"
      BY DEF NamesOK, Fresh, NewRecord
    <3> QED BY <3>1, <3>2, <3>3
  <2>2. c \notin Pending(rec)'
    BY <2>1 DEF Pending
  <2>3. ~(cur \in Sockets /\ Dispatch(c, cur))
    <3> SUFFICES ASSUME cur \in Sockets, Dispatch(c, cur) PROVE FALSE
      OBVIOUS
    <3>1. rec'[c].status = "pending"
      BY DispatchEffect
    <3> QED BY <2>1, <3>1
  <2>4. Untouched(c)
    <3>1. CASE rec'[c] = rec[c]
      BY <1>r, <3>1
    <3>2. CASE rec[c].status = "new"
      BY <3>2 DEF NamesOK, Fresh, Untouched
    <3>3. CASE \E s \in Sockets : /\ WorkerResumeAck(s) /\ c \in Head(up[s]).ids
                                  /\ rec[c].owner = s /\ rec[c].status = "pending"
      <4>1. PICK s \in Sockets : /\ WorkerResumeAck(s) /\ c \in Head(up[s]).ids
                                 /\ rec[c].owner = s /\ rec[c].status = "pending"
        BY <3>3
      <4>2. up[s] # <<>> /\ Head(up[s]).type = "resume_calls_ack"
        BY <4>1 DEF WorkerResumeAck, WorkerHandles
      <4>3. Head(up[s]) \in Message /\ Head(up[s]) \in Contents(up[s])
        BY <1>0, <4>2, ConsContents
      <4>4. Head(up[s]).ids \in SUBSET Calls /\ ResumeAck(Head(up[s]).ids) \in Contents(up[s])
        BY <4>2, <4>3, Kinds
      <4>5. Claimed(c)
        BY <4>1, <4>4 DEF Claimed, Pending
      <4> QED BY <1>r, <4>5
    <3> QED BY <2>1, <3>1, <3>2, <3>3, RecordStep DEF RecordMove, Continues, Begins, Fails, Ends
  <2> QED BY <1>u, <2>2, <2>3, <2>4
(* A call awaited after the step was so before, or begins now. *)
<1>a. ASSUME Awaited(c)', started'[c] = started[c] PROVE Awaited(c)
  <2>1. rec'[c].status = "pending" /\ rec'[c].instance = instance' /\ started[c] > 0
    BY <1>a DEF Awaited, Pending
  <2>2. rec[c].status # "new"
    BY <2>1 DEF NamesOK, Fresh
  <2>3. rec[c].status = "pending" /\ rec'[c].instance = rec[c].instance
    BY <2>1, <2>2, RecordStep DEF RecordMove, Continues, Begins, Fails, Ends
  <2>4. c \in Pending(rec)
    BY <2>3 DEF Pending
  <2>5. rec[c].instance <= instance /\ instance \in Nat /\ rec[c].instance \in Nat
    BY <2>4 DEF OwnersOK, TypeOK
  <2>6. instance' = instance \/ instance' = instance + 1
    BY DEF Next, Untimed, Timed, WorkerStep, DaemonStep, WorkerCloses, Promote, PromotionFails, WorkerResult,
       WorkerResumeAck, WorkerPong, Dispatch, DispatchFails, CancelRequest, ExpireCall, GiveUp, Connect,
       DaemonCloses, DaemonResume, DaemonReady, DaemonToolCall, DaemonCancel, DaemonAck, DaemonPong,
       Finish, Crash, GraceExpires, Tick, Drop, daemonVars
  <2>7. rec[c].instance = instance
    BY <2>1, <2>3, <2>5, <2>6
  <2> QED BY <2>1, <2>4, <2>7 DEF Awaited
<1>6. ASSUME NEW S \in SUBSET Calls, Resume(S) \in Incoming'
      PROVE  /\ c \in S => ToolCall(c) \notin Incoming'
             /\ Awaited(c)' => c \in S
  <2>1. CASE Resume(S) \in Incoming
    <3>1. phase # "ready"
      <4>1. ~(Incoming \subseteq Traffic)
        BY <1>m, <2>1 DEF Traffic
      <4> QED BY <2>1, <4>1 DEF HandshakeOK, Incoming
    <3>2. started'[c] = started[c]
      BY <1>b, <3>1
    <3>3. c \in S => ToolCall(c) \notin Incoming'
      BY <1>r, <1>t, <2>1, <3>1 DEF Fresh
    <3> QED BY <1>a, <1>r, <2>1, <3>2, <3>3
  <2>2. CASE Resume(S) \notin Incoming
    <3>a. Arrival(Resume(S))
      BY <1>6, <2>2, Arrivals
    <3>b. Inquiry(Resume(S)) /\ S = ReboundCalls(rec, instanceOf[cur], cur)
      BY <3>a, ArrivalKinds
    <3>1. /\ cur \in Sockets
          /\ Promote(cur) \/ \E x \in BOOLEAN : PromotionFails(cur, x)
          /\ Incoming = {} /\ Incoming' \subseteq {Resume(S), ReadyAck}
      BY <3>b DEF Inquiry
    <3>2. S = ReboundCalls(rec, instanceOf[cur], cur) /\ ToolCall(c) \notin Incoming'
      BY <1>m, <3>1, <3>b
    <3>3. ASSUME Awaited(c)' PROVE c \in S
      <4>1. role[cur] \in {"probing", "replaced"}
        BY <3>1 DEF Promote, PromotionFails
      <4>2. started'[c] = started[c]
        BY <3>1 DEF Promote, PromotionFails, history
      <4>3. c \in Pending(rec) /\ rec[c].instance = instance
        BY <1>a, <3>3, <4>2 DEF Awaited
      <4>4. instanceOf[cur] = instance
        BY <1>0, <3>1 DEF NetworkOK
      <4>5. rec[c].owner # cur
        BY <3>1, <4>1, <4>3 DEF OwnersOK
      <4> QED BY <3>2, <4>3, <4>4, <4>5 DEF ReboundCalls
    <3> QED BY <3>2, <3>3
  <2> QED BY <2>1, <2>2
<1>7. ASSUME Awaited(c)' PROVE local'[c] \in {"active", "retained"}
  <2>1. CASE started'[c] = started[c]
    <3>1. Awaited(c) /\ local[c] \in {"active", "retained"}
      BY <1>a, <1>7, <1>r, <2>1
    <3>2. rec[c].status = "pending" /\ rec[c].instance = instance
      BY <3>1 DEF Awaited, Pending
    <3>3. CancelCall(c) \notin Incoming /\ ResultAck(c) \notin Incoming
      BY <3>2 DEF NamesOK
    <3>4. \A S \in SUBSET Calls : Resume(S) \in Incoming => c \in S
      BY <1>r, <3>1
    <3>5. ~(expiry > DaemonGrace)
      <4>1. expiry <= DaemonGrace
        BY <3>1, GraceOutlives
      <4> QED BY <4>1 DEF TypeOK
    <3>6. instance' # instance + 1
      <4>1. rec'[c].instance = instance' /\ rec'[c].status = "pending"
        BY <1>7 DEF Awaited, Pending
      <4>2. rec'[c].instance = rec[c].instance
        BY <3>2, <4>1, RecordStep DEF RecordMove, Continues, Begins, Fails, Ends
      <4>3. instance \in Nat
        BY DEF TypeOK
      <4> QED BY <3>2, <4>1, <4>2, <4>3
    <3>7. ~(local' = [local EXCEPT ![c] = "active"] /\ started' = [started EXCEPT ![c] = @ + 1])
      BY <1>0, <2>1
    <3> QED BY <3>1, <3>3, <3>4, <3>5, <3>6, <3>7, LocalStep DEF LocalMove, Keeps, Starts, Forgets
  <2>2. CASE started'[c] # started[c]
    BY <1>b, <2>2
  <2> QED BY <2>1, <2>2
<1> QED BY <1>1, <1>2, <1>3, <1>4, <1>5, <1>6, <1>7
-----------------------------------------------------------------------------
(* Time.  A deadline is only put off when a socket is lost or a new one      *)
(* takes over, and each of these uses up one of a bounded number of grants.  *)

LEMMA SocketCount ==
    ASSUME NEW S \in SUBSET Channels
    PROVE  /\ Cardinality(S) \in Nat
           /\ S # {} => Cardinality(S) >= 1
           /\ \A s \in Channels \ S : Cardinality(S \cup {s}) = Cardinality(S) + 1
<1>1. IsFiniteSet(S)
  BY RelayAssumption, FS_Subset
<1>2. Cardinality(S) \in Nat /\ (Cardinality(S) = 0 <=> S = {})
  BY <1>1, FS_CardinalityType, FS_EmptySet
<1>3. \A s \in Channels \ S : Cardinality(S \cup {s}) = Cardinality(S) + 1
  BY <1>1, FS_AddElement
<1> QED BY <1>2, <1>3

(* What a step does to the timer of a call that stays pending. *)
SameTimers(c) ==
    /\ rec'[c].age = rec[c].age /\ rec'[c].original = rec[c].original
    /\ rec'[c].deadline = rec[c].deadline /\ rec'[c].reDeadline = rec[c].reDeadline
    /\ rec'[c].opTimer = rec[c].opTimer /\ rec'[c].owner = rec[c].owner
TimerMove(c) ==
    \/ Tick
    \/ SameTimers(c) /\ Tried' = Tried
    \/ Kept(rec[c], rec'[c]) /\ Grants(c)' >= 0 /\ Grants(c)' > Grants(c)

LEMMA TimerStep ==
    ASSUME TypeOK, TypeOK', NetworkOK, OwnersOK, Next, NEW c \in Pending(rec), c \in Pending(rec)'
    PROVE  TimerMove(c)
<1> USE Numbers
<1>0. /\ rec \in [Calls -> Record] /\ rec' \in [Calls -> Record] /\ c \in Calls
      /\ rec[c].status = "pending" /\ rec'[c].status = "pending" /\ rec[c] \in Record /\ rec'[c] \in Record
      /\ role \in [Sockets -> {"none", "probing", "replaced", "daemon", "expired"}]
      /\ instanceOf \in [Sockets -> Instances]
  BY DEF TypeOK, Pending
<1>n. /\ Tried \in SUBSET Channels /\ Tried' \in SUBSET Channels
      /\ Cardinality(Tried) \in Nat /\ Cardinality(Tried') \in Nat
  <2>1. Tried \in SUBSET Channels /\ Tried' \in SUBSET Channels
    BY DEF Tried
  <2> QED BY <2>1, SocketCount
<1>g. /\ Grants(c) = 2 * Cardinality(Tried) - 1 - (IF rec[c].owner = None THEN 0 ELSE 1)
      /\ Grants(c)' = 2 * Cardinality(Tried') - 1 - (IF rec'[c].owner = None THEN 0 ELSE 1)
  BY DEF Grants
<1>a. ASSUME NEW s \in Sockets, s \notin Tried, Tried' = Tried \cup {s}
      PROVE  Grants(c)' >= 0 /\ Grants(c)' > Grants(c)
  <2>1. Cardinality(Tried') = Cardinality(Tried) + 1
    BY <1>a, <1>n, SocketCount
  <2> QED BY <1>n, <1>g, <2>1
<1>b. ASSUME Tried' = Tried, rec[c].owner # None, rec'[c].owner = None, Tried # {}
      PROVE  Grants(c)' >= 0 /\ Grants(c)' > Grants(c)
  <2>1. Cardinality(Tried') = Cardinality(Tried) /\ Cardinality(Tried) >= 1
    BY <1>b, <1>n, SocketCount
  <2> QED BY <1>b, <1>n, <1>g, <2>1
<1>1. ASSUME NEW s \in Sockets, WorkerCloses(s) PROVE TimerMove(c)
  <2>1. /\ rec' = DetachSocket(rec, s) /\ \A t \in Sockets : role'[t] = IF t = s THEN "expired" ELSE role[t]
        /\ role[s] \in {"probing", "replaced", "daemon"}
    BY <1>1, <1>0 DEF WorkerCloses
  <2>2. Kept(rec[c], rec'[c])
    BY <1>0, <1>1, SocketStep
  <2>3. CASE role[s] # "daemon"
    <3>1. s \notin Tried /\ Tried' = Tried \cup {s}
      BY <2>1, <2>3 DEF Tried
    <3> QED BY <1>a, <2>2, <3>1 DEF TimerMove
  <2>4. CASE role[s] = "daemon"
    <3>1. s \in Tried /\ Tried' = Tried
      BY <2>1, <2>4 DEF Tried
    <3>2. CASE rec[c].owner = s
      <4>1. rec'[c].owner = None
        BY <1>0, <2>1, <3>2, DetachEffect
      <4> QED BY <1>b, <2>2, <3>1, <3>2, <4>1 DEF TimerMove
    <3>3. CASE rec[c].owner # s
      <4>1. rec'[c] = rec[c]
        BY <1>0, <2>1, <3>3 DEF DetachSocket, OwnedBy
      <4> QED BY <3>1, <4>1 DEF TimerMove, SameTimers
    <3> QED BY <3>2, <3>3
  <2> QED BY <2>3, <2>4
<1>2. ASSUME NEW s \in Sockets, Promote(s) PROVE TimerMove(c)
  <2>1. Kept(rec[c], rec'[c])
    BY <1>0, <1>2, SocketStep
  <2>2. s \notin Tried /\ Tried' = Tried \cup {s}
    BY <1>2, <1>0 DEF Promote, Tried
  <2> QED BY <1>a, <2>1, <2>2 DEF TimerMove
<1>3. ASSUME NEW s \in Sockets, NEW x \in BOOLEAN, PromotionFails(s, x) PROVE TimerMove(c)
  <2>1. Kept(rec[c], rec'[c])
    BY <1>0, <1>3, SocketStep
  <2>2. s \notin Tried /\ Tried' = Tried \cup {s}
    BY <1>3, <1>0 DEF PromotionFails, Tried
  <2> QED BY <1>a, <2>1, <2>2 DEF TimerMove
<1>4. ASSUME NEW d \in Calls, NEW s \in Sockets, DispatchFails(d, s) PROVE TimerMove(c)
  <2> DEFINE R == [rec EXCEPT ![d] = Settled(Registered(d, s, instanceOf[s]), "send_failed", None)]
  <2>1. /\ rec[d].status = "new" /\ role[s] = "daemon" /\ rec' = DetachSocket(R, s)
        /\ \A t \in Sockets : role'[t] = IF t = s THEN "expired" ELSE role[t]
    BY <1>4, <1>0 DEF DispatchFails
  <2>2. c # d
    BY <1>0, <2>1
  <2>3. R[c] = rec[c]
    BY <1>0, <2>2
  <2>4. s \in Tried /\ Tried' = Tried
    BY <2>1 DEF Tried
  <2>5. /\ Kept(rec[c], rec'[c])
        /\ rec'[c].owner = IF rec[c].status = "pending" /\ rec[c].owner = s THEN None ELSE rec[c].owner
    BY <1>0, <1>4, <2>2, DispatchFailsEffect
  <2>6. CASE rec[c].owner = s
    <3>1. rec'[c].owner = None
      BY <1>0, <2>5, <2>6
    <3> QED BY <1>b, <2>4, <2>5, <2>6, <3>1 DEF TimerMove
  <2>7. CASE rec[c].owner # s
    <3>1. rec'[c] = rec[c]
      BY <1>0, <2>1, <2>3, <2>7 DEF DetachSocket, OwnedBy
    <3> QED BY <2>4, <3>1 DEF TimerMove, SameTimers
  <2> QED BY <2>6, <2>7
<1>5. ASSUME NEW s \in Sockets, WorkerResumeAck(s) PROVE TimerMove(c)
  <2>1. \/ rec'[c] = rec[c]
        \/ /\ rec'[c] = [rec[c] EXCEPT !.redelivered = s]
           /\ c \in Head(up[s]).ids /\ rec[c].status = "pending" /\ rec[c].owner = s
           /\ rec[c].redelivered = None
        \/ /\ rec'[c] = Settled(rec[c], "not_received", None)
           /\ c \in Head(up[s]).ids /\ rec[c].status = "pending" /\ rec[c].owner = s
    BY <1>0, <1>5, ResumeAckEffect
  <2>2. Settled(rec[c], "not_received", None).status = "settled"
    BY DEF Settled, NewRecord
  <2>3. SameTimers(c)
    BY <1>0, <2>1, <2>2 DEF SameTimers, Record
  <2>4. Tried' = Tried
    BY <1>5 DEF WorkerResumeAck, Tried
  <2> QED BY <2>3, <2>4 DEF TimerMove
<1>6. ASSUME rec'[c] = rec[c], UNCHANGED role \/ \E s \in Sockets : Connect(s) PROVE TimerMove(c)
  <2>1. Tried' = Tried
    <3>1. CASE UNCHANGED role
      BY <3>1 DEF Tried
    <3>2. ASSUME NEW s \in Sockets, Connect(s) PROVE Tried' = Tried
      <4>1. role[s] = "none"
        BY <3>2 DEF Connect, NetworkOK, TypeOK
      <4> QED BY <1>0, <3>2, <4>1 DEF Connect, Tried
    <3> QED BY <1>6, <3>1, <3>2
  <2> QED BY <1>6, <2>1 DEF TimerMove, SameTimers
<1>7. ASSUME NEW s \in Sockets, WorkerResult(s) PROVE TimerMove(c)
  <2>1. rec'[c] = IF c = Head(up[s]).id /\ rec[c].status = "pending" /\ rec[c].owner = s
                  THEN Settled(rec[c], "answered", s) ELSE rec[c]
    BY <1>0, <1>7, ResultEffect
  <2>2. Settled(rec[c], "answered", s).status = "settled"
    BY DEF Settled, NewRecord
  <2>3. rec'[c] = rec[c]
    BY <1>0, <2>1, <2>2
  <2> QED BY <1>6, <1>7, <2>3 DEF WorkerResult
<1>8. ASSUME NEW d \in Calls, CancelRequest(d) \/ ExpireCall(d) PROVE TimerMove(c)
  <2>1. PICK o \in Outcomes : GiveUp(d, o)
    BY <1>8 DEF CancelRequest, ExpireCall, ExpiryOutcome, Outcomes, Failures
  <2>2. rec'[c] = IF c = d /\ rec[c].status = "pending" THEN Settled(rec[c], o, None) ELSE rec[c]
    BY <1>0, <2>1, GiveUpEffect
  <2>3. Settled(rec[c], o, None).status = "settled"
    BY DEF Settled, NewRecord
  <2>4. rec'[c] = rec[c]
    BY <1>0, <2>2, <2>3
  <2> QED BY <1>6, <2>1, <2>4 DEF GiveUp
<1>9. ASSUME NEW d \in Calls, NEW s \in Sockets, Dispatch(d, s) PROVE TimerMove(c)
  <2>1. rec[d].status = "new" /\ UNCHANGED role
    BY <1>9 DEF Dispatch
  <2>2. rec'[c] = rec[c]
    <3>1. \A e \in Calls : e # d => rec'[e] = rec[e]
      BY <1>9, DispatchEffect
    <3> QED BY <1>0, <2>1, <3>1
  <2> QED BY <1>6, <2>1, <2>2
<1>10. ASSUME NEW s \in Sockets, Connect(s) PROVE TimerMove(c)
  <2>1. rec' = rec
    BY <1>10 DEF Connect
  <2> QED BY <1>6, <1>10, <2>1
<1>11. CASE \/ DaemonCloses \/ DaemonResume \/ DaemonReady \/ DaemonToolCall \/ DaemonCancel \/ DaemonAck
            \/ DaemonPong \/ GraceExpires \/ Crash \/ (\E d \in Calls : Finish(d))
            \/ (\E s \in Sockets : Drop(s)) \/ (\E s \in Sockets : WorkerPong(s))
  <2>1. UNCHANGED <<rec, role>>
    BY <1>11 DEF DaemonCloses, DaemonResume, DaemonReady, DaemonToolCall, DaemonCancel, DaemonAck,
         DaemonPong, GraceExpires, Crash, Finish, Drop, WorkerPong, workerVars
  <2> QED BY <1>6, <2>1
<1>12. CASE Tick
  BY <1>12 DEF TimerMove
<1> QED
  BY <1>1, <1>2, <1>3, <1>4, <1>5, <1>7, <1>8, <1>9, <1>10, <1>11, <1>12
     DEF Next, Untimed, Timed, WorkerStep, DaemonStep

(* The reconnect grace timer of the daemon. *)
LEMMA ExpiryStep ==
    ASSUME TypeOK, NetworkOK, HandshakeOK, Next, phase = "ready" => expiry = 0
    PROVE  /\ phase' = "ready" => expiry' = 0
           /\ Tick \/ expiry' \in {0, 1, expiry}
           /\ DaemonToolCall \/ instance' # instance => expiry' = 0
<1>0. expiry \in Nat /\ cur \in Sockets \cup {None} /\ (cur \in Sockets => cur # None)
  BY Numbers DEF TypeOK
<1>1. DaemonToolCall => expiry' = 0
  <2> SUFFICES ASSUME DaemonToolCall PROVE expiry' = 0
    OBVIOUS
  <2>1. cur \in Sockets /\ down[cur] # <<>> /\ Head(down[cur]).type = "tool_call" /\ expiry' = expiry
    BY <1>0 DEF DaemonToolCall, DaemonHandles
  <2>2. phase = "ready"
    BY <2>1, Shapes
  <2> QED BY <2>1, <2>2
<1>2. CASE WorkerStep \/ (\E s \in Sockets : Drop(s)) \/ (\E c \in Calls : ExpireCall(c))
  <2>1. UNCHANGED <<phase, expiry, instance>>
    BY <1>2
    DEF WorkerStep, WorkerCloses, Promote, PromotionFails, WorkerResult, WorkerResumeAck, WorkerPong, Dispatch,
       DispatchFails, CancelRequest, ExpireCall, GiveUp, Drop, daemonVars
  <2> QED BY <1>1, <2>1
<1>3. CASE DaemonResume \/ DaemonToolCall \/ DaemonCancel \/ DaemonAck \/ DaemonPong
  <2>1. UNCHANGED <<phase, expiry, instance>>
    BY <1>3 DEF DaemonResume, DaemonToolCall, DaemonCancel, DaemonAck, DaemonPong, daemonVars
  <2> QED BY <1>1, <2>1
<1>4. CASE DaemonReady
  <2>1. \/ UNCHANGED <<phase, expiry, instance>>
        \/ phase' = "ready" /\ expiry' = 0 /\ UNCHANGED instance
    BY <1>4 DEF DaemonReady
  <2> QED BY <1>1, <2>1
<1>5. ASSUME NEW s \in Sockets, Connect(s)
      PROVE  phase' = "authenticated" /\ UNCHANGED <<expiry, instance>>
  BY <1>5 DEF Connect
<1>6. CASE DaemonCloses
  <2>1. phase' = "closed" /\ expiry' \in {0, 1, expiry} /\ UNCHANGED instance
    BY <1>6 DEF DaemonCloses, Scheduled
  <2> QED BY <1>1, <2>1
<1>7. ASSUME NEW c \in Calls, Finish(c)
      PROVE  /\ UNCHANGED <<phase, instance>> /\ expiry' \in {0, 1, expiry}
             /\ phase = "ready" => expiry' = expiry
  BY <1>7 DEF Finish, Scheduled
<1>8. CASE GraceExpires \/ Crash
  BY <1>8 DEF GraceExpires, Crash
<1>9. CASE Tick
  <2>1. UNCHANGED <<phase, instance>> /\ expiry' = IF expiry = 0 THEN 0 ELSE expiry + 1
    BY <1>9 DEF Tick
  <2> QED BY <1>1, <1>9, <2>1
<1>10. CASE \E s \in Sockets : Connect(s)
  BY <1>1, <1>5, <1>10
<1>11. CASE \E c \in Calls : Finish(c)
  BY <1>1, <1>7, <1>11
<1> QED
  BY <1>2, <1>3, <1>4, <1>6, <1>8, <1>9, <1>10, <1>11 DEF Next, Untimed, Timed, DaemonStep

(* A call comes to be awaited only when it starts, or in a new process. *)
LEMMA AwaitedStep ==
    ASSUME TypeOK, NetworkOK, OwnersOK, NamesOK, Next, NEW c \in Calls, Awaited(c)'
    PROVE  Awaited(c) \/ DaemonToolCall \/ instance' # instance
<1>1. RecordMove(c)
  BY RecordStep
<1>2. rec'[c].status = "pending" /\ rec'[c].instance = instance' /\ started'[c] > 0
  BY DEF Awaited, Pending
<1>3. started' = started \/ DaemonToolCall
  BY DEF Next, Untimed, Timed, WorkerStep, DaemonStep, WorkerCloses, Promote, PromotionFails, WorkerResult,
     WorkerResumeAck, WorkerPong, Dispatch, DispatchFails, CancelRequest, ExpireCall, GiveUp, Drop, Connect,
     DaemonCloses, DaemonResume, DaemonReady, DaemonCancel, DaemonAck, DaemonPong, Finish,
     GraceExpires, Crash, Tick, history
<1>4. rec[c].status = "new" => started[c] = 0
  BY DEF NamesOK, Fresh
<1>5. CASE rec'[c] = rec[c] \/ Continues(c)
  <2>1. rec[c].status = "pending" /\ rec[c].instance = rec'[c].instance
    BY <1>2, <1>5 DEF Continues
  <2> QED BY <1>2, <1>3, <2>1 DEF Awaited, Pending
<1>6. CASE Begins(c)
  BY <1>2, <1>3, <1>4, <1>6 DEF Begins
<1>7. CASE Fails(c) \/ Ends(c)
  BY <1>2, <1>7 DEF Fails, Ends
<1> QED BY <1>1, <1>5, <1>6, <1>7 DEF RecordMove

LEMMA Product ==
    ASSUME NEW i \in Int, NEW j \in Int, NEW n \in Nat
    PROVE  /\ i * n \in Int /\ j * n \in Int
           /\ i >= 0 => i * n >= 0
           /\ j > i => j * n >= i * n + n
<1>1. i >= 0 => i * n >= 0
  OBVIOUS
<1>2. ASSUME j > i PROVE j * n >= i * n + n
  <2>1. j - i >= 1 /\ j - i - 1 \in Int
    BY <1>2
  <2>2. (j - i - 1) * n >= 0
    BY <2>1
  <2> QED BY <2>2
<1> QED BY <1>1, <1>2

(* What the timer of a pending call and its deadlines keep to. *)
CallTimed(c) ==
    LET r == rec[c]
    IN  /\ r.opTimer <=> r.owner # None
        /\ r.reDeadline # 0 <=> r.owner = None
        /\ r.original = Timeout[c]
        /\ r.deadline <= Allowance(c) /\ r.reDeadline <= Allowance(c)
        /\ r.age <= Allowance(c) + MaxLateness

LEMMA DeadlineStep ==
    ASSUME TypeOK, TypeOK', NetworkOK, OwnersOK, Next,
           NEW c \in Pending(rec), c \in Pending(rec)', CallTimed(c)
    PROVE  CallTimed(c)' /\ (Tick \/ rec'[c].age = rec[c].age)
<1> USE Numbers
<1>0. /\ c \in Calls /\ rec[c] \in Record /\ rec'[c] \in Record /\ Tried \in SUBSET Channels
      /\ rec[c].status = "pending"
      /\ rec[c].age \in Nat /\ rec[c].original \in Nat /\ rec[c].deadline \in Nat /\ rec[c].reDeadline \in Nat
  BY DEF TypeOK, Record, Tried, Pending
<1>1. Cardinality(Tried) \in Nat /\ Cardinality(Tried') \in Nat
  <2>1. Tried' \in SUBSET Channels
    BY DEF Tried
  <2> QED BY <1>0, <2>1, SocketCount
<1>2. Grants(c) \in Int /\ Grants(c)' \in Int
  BY <1>1 DEF Grants
<1>3. /\ Allowance(c) = Timeout[c] + DeliveryGrace + Grants(c) * (1 + MaxLateness)
      /\ Allowance(c)' = Timeout[c] + DeliveryGrace + Grants(c)' * (1 + MaxLateness)
  BY DEF Allowance
<1> DEFINE i == Grants(c)
           j == Grants(c)'
           a == Allowance(c)
           b == Allowance(c)'
<1>4. /\ i * (1 + MaxLateness) \in Int /\ j * (1 + MaxLateness) \in Int
      /\ j >= 0 => j * (1 + MaxLateness) >= 0
      /\ j > i => j * (1 + MaxLateness) >= i * (1 + MaxLateness) + (1 + MaxLateness)
  <2> HIDE DEF i, j
  <2>1. i \in Int /\ j \in Int /\ 1 + MaxLateness \in Nat
    BY <1>2 DEF i, j
  <2> QED BY <2>1, Product
<1>5. a \in Int /\ b \in Int
  BY <1>0, <1>3, <1>4
<1>6. TimerMove(c)
  BY TimerStep
<1>7. CASE SameTimers(c) /\ Tried' = Tried
  <2>1. Allowance(c)' = Allowance(c)
    BY <1>7 DEF SameTimers, Allowance, Grants
  <2> QED BY <1>7, <2>1 DEF CallTimed, SameTimers
<1>8. CASE Kept(rec[c], rec'[c]) /\ Grants(c)' >= 0 /\ Grants(c)' > Grants(c)
  <2>1. b >= Timeout[c] + DeliveryGrace /\ b >= a + 1 + MaxLateness
    BY <1>0, <1>3, <1>4, <1>5, <1>8
  <2>2. b \in Nat
    BY <1>0, <1>5, <2>1
  <2> HIDE DEF a, b
  <2>3. rec[c].deadline <= a /\ rec[c].reDeadline <= a /\ rec[c].age <= a + MaxLateness
        /\ rec[c].original = Timeout[c] /\ OnTimer(rec[c])
    BY DEF CallTimed, OnTimer, a
  <2>4. Capped(rec[c], b)
    BY <1>0, <1>5, <2>1, <2>2, <2>3 DEF Capped
  <2>5. Capped(rec'[c], b) /\ OnTimer(rec'[c]) /\ SameCall(rec[c], rec'[c]) /\ rec'[c] \in Record
    BY <1>8, <2>2, <2>3, <2>4 DEF Kept
  <2>6. /\ rec'[c].deadline <= b /\ rec'[c].reDeadline <= b /\ rec'[c].age <= b + MaxLateness
        /\ rec'[c].original = Timeout[c] /\ rec'[c].age = rec[c].age
    BY <1>0, <2>2, <2>3, <2>5 DEF Capped, SameCall, Record
  <2> QED BY <2>5, <2>6 DEF CallTimed, OnTimer, b
<1>9. CASE Tick
  <2>1. rec'[c] = [rec[c] EXCEPT !.age = @ + 1] /\ Tried' = Tried
    BY <1>9, <1>0 DEF Tick, Aged, Tried
  <2>2. /\ rec'[c].age = rec[c].age + 1 /\ rec'[c].owner = rec[c].owner /\ rec'[c].opTimer = rec[c].opTimer
        /\ rec'[c].deadline = rec[c].deadline /\ rec'[c].reDeadline = rec[c].reDeadline
        /\ rec'[c].original = rec[c].original
    BY <1>0, <2>1 DEF Record
  <2>3. b = a
    BY <2>1, <2>2 DEF Allowance, Grants
  <2>4. /\ rec[c].opTimer => rec[c].age < rec[c].deadline + MaxLateness
        /\ rec[c].reDeadline # 0 => rec[c].age < rec[c].reDeadline + MaxLateness
    BY <1>9 DEF Tick, TimersWithin
  <2>5. rec[c].opTimer \/ rec[c].reDeadline # 0
    BY DEF CallTimed
  <2> HIDE DEF a, b
  <2>6. rec[c].deadline <= a /\ rec[c].reDeadline <= a
    BY DEF CallTimed, a
  <2>7. rec'[c].age <= b + MaxLateness
    BY <1>0, <1>5, <2>2, <2>3, <2>4, <2>5, <2>6
  <2> QED BY <1>9, <2>2, <2>3, <2>7 DEF CallTimed, a, b
<1> QED BY <1>6, <1>7, <1>8, <1>9 DEF TimerMove

(* A call just dispatched has its whole time before it. *)
LEMMA DispatchTimed ==
    ASSUME TypeOK, NEW c \in Calls, NEW s \in Sockets, Dispatch(c, s)
    PROVE  CallTimed(c)'
<1> USE Numbers
<1>1. /\ rec'[c].status = "pending" /\ rec'[c].owner = s
      /\ rec'[c].age = 0 /\ rec'[c].original = Timeout[c] /\ rec'[c].deadline = Timeout[c]
      /\ rec'[c].opTimer = TRUE /\ rec'[c].reDeadline = 0
  BY DispatchEffect, ZenonT(60)
<1>2. s # None /\ s \in Tried' /\ Tried' \in SUBSET Channels
  BY DEF Dispatch, Tried
<1>3. Cardinality(Tried') \in Nat /\ Cardinality(Tried') >= 1
  BY <1>2, SocketCount
<1>4. Grants(c)' \in Int /\ Grants(c)' >= 0
  BY <1>1, <1>2, <1>3 DEF Grants
<1> DEFINE j == Grants(c)'
<1>5. j * (1 + MaxLateness) \in Int /\ j * (1 + MaxLateness) >= 0
  <2> HIDE DEF j
  <2>1. j \in Int /\ j >= 0 /\ 1 + MaxLateness \in Nat
    BY <1>4 DEF j
  <2> QED BY <2>1, Product
<1>6. Allowance(c)' = Timeout[c] + DeliveryGrace + j * (1 + MaxLateness)
  BY DEF Allowance
<1>7. Allowance(c)' \in Int /\ Allowance(c)' >= Timeout[c]
  BY <1>5, <1>6
<1> QED BY <1>1, <1>2, <1>7 DEF CallTimed

LEMMA TimingStep ==
    ASSUME TypeOK, TypeOK', NetworkOK, HandshakeOK, OwnersOK, NamesOK, TimingOK, Next
    PROVE  TimingOK'
<1> USE Numbers
<1>1. phase' = "ready" => expiry' = 0
  BY ExpiryStep DEF TimingOK
<1>2. /\ Tick \/ expiry' \in {0, 1, expiry}
      /\ DaemonToolCall \/ instance' # instance => expiry' = 0
  BY ExpiryStep DEF TimingOK
<1>3. ASSUME NEW c \in Pending(rec)'
      PROVE  CallTimed(c)' /\ (Awaited(c)' => expiry' <= rec'[c].age + 1)
  <2>a. c \in Calls /\ rec'[c].status = "pending" /\ expiry \in Nat
    BY <1>3 DEF TypeOK, Pending
  <2>b. rec[c] \in Record /\ rec'[c] \in Record
    BY <2>a DEF TypeOK
  <2>0. /\ c \in Calls /\ rec'[c].status = "pending" /\ rec'[c].age \in Nat /\ expiry \in Nat
        /\ rec[c].age \in Nat
    BY <2>a, <2>b DEF Record
  <2>1. CASE c \in Pending(rec)
    <3>1. CallTimed(c)
      BY <2>1 DEF TimingOK, CallTimed
    <3>2. CallTimed(c)' /\ (Tick \/ rec'[c].age = rec[c].age)
      BY <1>3, <2>1, <3>1, DeadlineStep
    <3>3. ASSUME Awaited(c)' PROVE expiry' <= rec'[c].age + 1
      <4>1. Awaited(c) \/ DaemonToolCall \/ instance' # instance
        BY <2>0, <3>3, AwaitedStep
      <4>2. CASE DaemonToolCall \/ instance' # instance
        BY <1>2, <2>0, <4>2
      <4>3. CASE Awaited(c)
        <5>1. expiry <= rec[c].age + 1
          BY <2>1, <4>3 DEF TimingOK
        <5>2. CASE Tick
          <6>1. rec'[c] = [rec[c] EXCEPT !.age = @ + 1] /\ rec[c] \in Record
            BY <2>0, <2>1, <5>2 DEF Tick, Aged, TypeOK
          <6>2. rec'[c].age = rec[c].age + 1
            BY <6>1 DEF Record
          <6>3. expiry' \in {0, expiry + 1}
            BY <5>2 DEF Tick
          <6> QED BY <2>0, <5>1, <6>2, <6>3
        <5>3. CASE rec'[c].age = rec[c].age /\ expiry' \in {0, 1, expiry}
          BY <2>0, <5>1, <5>3
        <5> QED BY <1>2, <3>2, <5>2, <5>3
      <4> QED BY <4>1, <4>2, <4>3
    <3> QED BY <3>2, <3>3
  <2>2. CASE c \notin Pending(rec)
    <3>1. RecordMove(c)
      BY <2>0, RecordStep
    <3>2. rec[c].status # "pending"
      BY <2>0, <2>2 DEF Pending
    <3>3. Begins(c)
      BY <2>0, <3>1, <3>2 DEF RecordMove, Continues, Fails, Ends
    <3>4. PICK s \in Sockets : Dispatch(c, s)
      BY <3>3 DEF Begins
    <3>5. ~Awaited(c)'
      <4>1. started[c] = 0
        BY <2>0, <3>3 DEF NamesOK, Fresh, Begins
      <4>2. started' = started
        BY <3>4 DEF Dispatch, history
      <4> QED BY <4>1, <4>2 DEF Awaited
    <3> QED BY <2>0, <3>4, <3>5, DispatchTimed
  <2> QED BY <2>1, <2>2
<1> QED BY <1>1, <1>3 DEF TimingOK, CallTimed
-----------------------------------------------------------------------------
(* Capacity, and what the two ends must never send each other.               *)

LEMMA CapacityStep ==
    ASSUME TypeOK, TypeOK', CapacityOK, Next
    PROVE  CapacityOK'
<1>d. DaemonMaximum \in Nat \ {0} /\ DaemonReserved \in Nat
  BY RelayAssumption
<1>1. ASSUME NEW c \in Calls, ~AtCapacity, local' = [local EXCEPT ![c] = "active"] PROVE CapacityOK'
  <2>a. \A d \in Calls : local'[d] = IF d = c THEN "active" ELSE local[d]
    BY <1>1 DEF TypeOK
  <2>b. \A d : d \in Owned <=> d \in Calls /\ local[d] \in {"active", "suppressed", "retained"}
    BY DEF Owned, Active, Retained
  <2>c. \A d : d \in Owned' <=> d \in Calls /\ local'[d] \in {"active", "suppressed", "retained"}
    BY DEF Owned, Active, Retained
  <2>1. Owned' = Owned \cup {c}
    BY <2>a, <2>b, <2>c
  <2>2. /\ IsFiniteSet(Owned) /\ Cardinality(Owned) \in Nat
        /\ IsFiniteSet(Owned \cup {c})
        /\ Cardinality(Owned \cup {c}) = IF c \in Owned THEN Cardinality(Owned) ELSE Cardinality(Owned) + 1
    BY FS_CardinalityType, FS_AddElement DEF CapacityOK
  <2>3. Cardinality(Owned) < DaemonMaximum
    BY <1>1, <1>d, <2>2 DEF AtCapacity, Admission
  <2>4. CapacityOK
    OBVIOUS
  <2>5. Cardinality(Owned \cup {c}) <= DaemonMaximum
    BY <1>d, <2>2, <2>3
  <2> QED BY <2>1, <2>2, <2>5 DEF CapacityOK
<1>2. ASSUME Owned' \subseteq Owned PROVE CapacityOK'
  <2>1. /\ IsFiniteSet(Owned) /\ IsFiniteSet(Owned')
        /\ Cardinality(Owned') <= Cardinality(Owned) /\ Cardinality(Owned) <= DaemonMaximum
        /\ Cardinality(Owned') \in Nat /\ Cardinality(Owned) \in Nat
    BY <1>2, FS_Subset, FS_CardinalityType DEF CapacityOK
  <2> QED BY <1>d, <2>1 DEF CapacityOK
<1>3. CASE DaemonToolCall
  <2>1. \/ local' = local
        \/ ~AtCapacity /\ local' = [local EXCEPT ![Head(down[cur]).id] = "active"]
    BY <1>3 DEF DaemonToolCall
  <2>2. CASE local' = local
    BY <1>2, <2>2 DEF Owned, Active, Retained
  <2>3. CASE ~AtCapacity /\ local' = [local EXCEPT ![Head(down[cur]).id] = "active"]
    <3>1. cur \in Sockets /\ down[cur] \in Seq(Message) /\ down[cur] # <<>> /\ Head(down[cur]).type = "tool_call"
      BY <1>3, Numbers DEF DaemonToolCall, DaemonHandles, TypeOK
    <3>2. Head(down[cur]) \in Message
      BY <3>1, ConsContents
    <3>3. Head(down[cur]).id \in Calls
      BY <3>1, <3>2, Kinds
    <3> QED BY <1>1, <2>3, <3>3
  <2> QED BY <2>1, <2>2, <2>3
<1>4. CASE \/ WorkerStep \/ (\E s \in Sockets : Connect(s)) \/ DaemonCloses \/ DaemonReady \/ DaemonPong
           \/ (\E s \in Sockets : Drop(s)) \/ (\E c \in Calls : ExpireCall(c)) \/ Tick
  <2>1. local' = local
    BY <1>4
    DEF WorkerStep, WorkerCloses, Promote, PromotionFails, WorkerResult, WorkerResumeAck, WorkerPong, Dispatch,
       DispatchFails, CancelRequest, ExpireCall, GiveUp, Drop, Connect, DaemonCloses, DaemonReady, DaemonPong,
       Tick, daemonVars
  <2> QED BY <1>2, <2>1 DEF Owned, Active, Retained
<1>5. CASE DaemonResume
  <2>1. Owned' \subseteq Owned
    BY <1>5 DEF DaemonResume, TypeOK, Owned, Active, Retained
  <2> QED BY <1>2, <2>1
<1>6. CASE DaemonCancel
  <2>1. Owned' \subseteq Owned
    BY <1>6 DEF DaemonCancel, TypeOK, Owned, Active, Retained
  <2> QED BY <1>2, <2>1
<1>7. CASE DaemonAck
  <2>1. Owned' \subseteq Owned
    BY <1>7 DEF DaemonAck, TypeOK, Owned, Active, Retained
  <2> QED BY <1>2, <2>1
<1>8. ASSUME NEW c \in Calls, Finish(c) PROVE CapacityOK'
  <2>1. Owned' \subseteq Owned
    BY <1>8 DEF Finish, AfterDelivery, TypeOK, Owned, Active, Retained
  <2> QED BY <1>2, <2>1
<1>9. CASE GraceExpires \/ Crash
  <2>1. Owned' \subseteq Owned
    BY <1>9 DEF GraceExpires, Crash, TypeOK, Owned, Active, Retained
  <2> QED BY <1>2, <2>1
<1> QED
  BY <1>3, <1>4, <1>5, <1>6, <1>7, <1>8, <1>9 DEF Next, Untimed, Timed, DaemonStep

(* No message breaks the protocol. *)
LEMMA ViolationStep ==
    ASSUME TypeOK, NetworkOK, HandshakeOK, AcksOK, RunsOK, Next
    PROVE  violation' = violation
<1>0. /\ cur \in Sockets \cup {None} /\ (cur \in Sockets => cur # None)
      /\ up \in [Sockets -> Seq(Message)] /\ down \in [Sockets -> Seq(Message)]
  BY Numbers DEF TypeOK
<1>s. ASSUME cur \in Sockets, down[cur] # <<>>
      PROVE  /\ Head(down[cur]).type = "resume_calls" => phase = "authenticated" /\ ~resume.known
             /\ Head(down[cur]).type = "ready_ack" => phase = "authenticated" /\ resume.known
             /\ Head(down[cur]).type \in {"tool_call", "cancel_call", "tool_result_ack", "pong"} => phase = "ready"
  BY <1>s, Shapes
<1>1. ASSUME NEW s \in Sockets, WorkerResumeAck(s) PROVE violation' = violation
  <2>1. /\ up[s] \in Seq(Message) /\ up[s] # <<>> /\ Head(up[s]).type = "resume_calls_ack"
        /\ role[s] = "daemon"
    BY <1>0, <1>1 DEF WorkerResumeAck, WorkerHandles
  <2>2. Head(up[s]) \in Message /\ Head(up[s]) \in Contents(up[s])
    BY <2>1, ConsContents
  <2>3. Head(up[s]).ids \in SUBSET Calls /\ Head(up[s]) = ResumeAck(Head(up[s]).ids)
    BY <2>1, <2>2, Kinds
  <2>4. Head(up[s]).ids \subseteq expected[s]
    BY <2>1, <2>2, <2>3 DEF AcksOK
  <2>5. s \notin acked
    BY <2>2, <2>3 DEF AcksOK, Acks
  <2> QED BY <1>1, <2>4, <2>5 DEF WorkerResumeAck
<1>2. CASE DaemonToolCall
  <2>1. cur \in Sockets /\ down[cur] # <<>> /\ Head(down[cur]).type = "tool_call"
    BY <1>0, <1>2 DEF DaemonToolCall, DaemonHandles
  <2>2. phase = "ready"
    BY <1>s, <2>1
  <2>3. Head(down[cur]) \in Message /\ Head(down[cur]) \in Contents(down[cur])
    BY <1>0, <2>1, ConsContents
  <2>4. Head(down[cur]).id \in Calls /\ Head(down[cur]) = ToolCall(Head(down[cur]).id)
    BY <2>1, <2>3, Kinds
  <2>5. started[Head(down[cur]).id] = 0
    BY <1>0, <2>1, <2>3, <2>4 DEF RunsOK, Incoming
  <2>6. Head(down[cur]).id \notin Active
    BY <2>4, <2>5 DEF RunsOK, Active
  <2> QED BY <1>2, <2>2, <2>6 DEF DaemonToolCall
<1>3. CASE DaemonResume
  <2>1. cur \in Sockets /\ down[cur] # <<>> /\ Head(down[cur]).type = "resume_calls"
    BY <1>0, <1>3 DEF DaemonResume, DaemonHandles
  <2> QED BY <1>3, <1>s, <2>1 DEF DaemonResume
<1>4. CASE DaemonReady
  <2>1. cur \in Sockets /\ down[cur] # <<>> /\ Head(down[cur]).type = "ready_ack"
    BY <1>0, <1>4 DEF DaemonReady, DaemonHandles
  <2> QED BY <1>4, <1>s, <2>1 DEF DaemonReady
<1>5. CASE DaemonCancel
  <2>1. cur \in Sockets /\ down[cur] # <<>> /\ Head(down[cur]).type = "cancel_call"
    BY <1>0, <1>5 DEF DaemonCancel, DaemonHandles
  <2> QED BY <1>5, <1>s, <2>1 DEF DaemonCancel
<1>6. CASE DaemonAck
  <2>1. cur \in Sockets /\ down[cur] # <<>> /\ Head(down[cur]).type = "tool_result_ack"
    BY <1>0, <1>6 DEF DaemonAck, DaemonHandles
  <2> QED BY <1>6, <1>s, <2>1 DEF DaemonAck
<1>7. CASE \/ (\E s \in Sockets : WorkerCloses(s)) \/ (\E s \in Sockets : Promote(s))
           \/ (\E s \in Sockets, x \in BOOLEAN : PromotionFails(s, x)) \/ (\E s \in Sockets : WorkerResult(s))
           \/ (\E s \in Sockets : WorkerPong(s)) \/ (\E c \in Calls, s \in Sockets : Dispatch(c, s))
           \/ (\E c \in Calls, s \in Sockets : DispatchFails(c, s)) \/ (\E c \in Calls : CancelRequest(c))
           \/ (\E c \in Calls : ExpireCall(c)) \/ (\E s \in Sockets : Connect(s)) \/ DaemonCloses \/ DaemonPong
           \/ (\E c \in Calls : Finish(c)) \/ Crash \/ GraceExpires \/ Tick \/ (\E s \in Sockets : Drop(s))
  BY <1>7 DEF WorkerCloses, Promote, PromotionFails, WorkerResult, WorkerPong, Dispatch, DispatchFails,
     CancelRequest, ExpireCall, GiveUp, Connect, DaemonCloses, DaemonPong, Finish, Crash, GraceExpires, Tick,
     Drop, history
<1> QED
  BY <1>1, <1>2, <1>3, <1>4, <1>5, <1>6, <1>7 DEF Next, Untimed, Timed, WorkerStep, DaemonStep
-----------------------------------------------------------------------------
(* The theorems. *)

(* The invariant holds at the start, and every step keeps it. *)
LEMMA InvStart == Init => IInv
<1> SUFFICES ASSUME Init PROVE IInv
  OBVIOUS
<1> USE Numbers
<1>c. \A s \in Sockets : Contents(up[s]) = {} /\ Contents(down[s]) = {}
  BY EmptyContents DEF Init
<1>i. Incoming = {}
  BY DEF Init, Incoming
<1>p. Pending(rec) = {}
  BY DEF Init, Pending, NewRecord
<1>r. \A c \in Calls : rec[c] = NewRecord /\ rec[c].status = "new" /\ rec[c].outcome = "none"
  BY DEF Init, NewRecord
<1>a. \A c \in Calls : ~Awaited(c) /\ ~Claimed(c)
  BY <1>p DEF Awaited, Claimed
<1>1. TypeOK
  <2>1. <<>> \in Seq(Message) /\ <<Probed>> \in Seq(Message)
    BY EmptySeq, Constructors
  <2>2. expiry \in 0 .. DaemonGrace + MaxLateness
    BY DEF Init
  <2> QED BY <2>1, <2>2 DEF Init, TypeOK, NoResume
<1>2. NetworkOK
  BY DEF Init, NetworkOK, Early
<1>3. HandshakeOK
  BY DEF Init, HandshakeOK
<1>4. AcksOK
  BY <1>c, <1>i DEF Init, AcksOK, AtMostOne
<1>5. NamesOK
  BY <1>c, <1>i, <1>r DEF Init, NamesOK, Fresh, NoResume
<1>6. OwnersOK
  BY <1>p DEF OwnersOK
<1>7. RunsOK
  BY <1>a, <1>i, <1>r DEF Init, RunsOK
<1>8. TimingOK
  BY <1>p DEF Init, TimingOK
<1>9. CapacityOK
  <2>1. Owned = {}
    BY DEF Init, Owned, Active, Retained
  <2> QED BY <2>1, FS_EmptySet, RelayAssumption DEF CapacityOK
<1> QED BY <1>1, <1>2, <1>3, <1>4, <1>5, <1>6, <1>7, <1>8, <1>9 DEF IInv

LEMMA InvStep == IInv /\ [Next]_vars => IInv'
<1> SUFFICES ASSUME IInv, [Next]_vars PROVE IInv'
  OBVIOUS
<1>1. CASE Next
  <2>0. TypeOK /\ NetworkOK /\ HandshakeOK /\ AcksOK /\ NamesOK /\ OwnersOK /\ RunsOK /\ TimingOK /\ CapacityOK
    BY DEF IInv
  <2>1. TypeOK'
    BY <1>1, <2>0, TypeStep
  <2>2. NetworkOK'
    BY <1>1, <2>0, <2>1, NetworkStep
  <2>3. HandshakeOK'
    BY <1>1, <2>0, <2>1, <2>2, HandshakeStep
  <2>4. AcksOK'
    BY <1>1, <2>0, <2>1, <2>2, <2>3, AcksStep
  <2>5. OwnersOK'
    BY <1>1, <2>0, <2>1, <2>2, OwnersStep
  <2>6. NamesOK'
    BY <1>1, <2>0, <2>1, <2>2, <2>3, <2>4, <2>5, NamesStep
  <2>7. RunsOK'
    BY <1>1, <2>0, <2>1, <2>2, <2>3, <2>4, <2>5, <2>6, RunsStep
  <2>8. TimingOK'
    BY <1>1, <2>0, <2>1, TimingStep
  <2>9. CapacityOK'
    BY <1>1, <2>0, <2>1, CapacityStep
  <2> QED BY <2>1, <2>2, <2>3, <2>4, <2>5, <2>6, <2>7, <2>8, <2>9 DEF IInv
<1>2. CASE UNCHANGED vars
  <2>1. UNCHANGED <<rec, role, expected, acked, alive, up, down, instanceOf, cur, phase, resume, local,
                    unsafe, expiry, instance, opened, started, violation>>
    BY <1>2 DEF vars, workerVars, netVars, daemonVars, history
  <2>i. Incoming' = Incoming /\ Pending(rec)' = Pending(rec) /\ Tried' = Tried /\ Owned' = Owned
    BY <2>1 DEF Incoming, Pending, Tried, Owned, Active, Retained
  <2>2. TypeOK'
    BY <2>1 DEF IInv, TypeOK
  <2>3. NetworkOK' /\ HandshakeOK'
    BY <2>1 DEF IInv, NetworkOK, HandshakeOK
  <2>4. AcksOK'
    BY <2>1, <2>i DEF IInv, AcksOK
  <2>5. NamesOK'
    BY <2>1, <2>i DEF IInv, NamesOK, Fresh
  <2>6. OwnersOK'
    BY <2>1, <2>i DEF IInv, OwnersOK
  <2>a. \A c \in Calls : /\ Claimed(c)' <=> Claimed(c)
                         /\ Awaited(c)' <=> Awaited(c)
                         /\ Untouched(c)' <=> Untouched(c)
                         /\ Allowance(c)' = Allowance(c)
    BY <2>1, <2>i DEF Claimed, Awaited, Untouched, Allowance, Grants
  <2>7. RunsOK'
    BY <2>1, <2>i, <2>a DEF IInv, RunsOK
  <2>8. TimingOK'
    BY <2>1, <2>i, <2>a DEF IInv, TimingOK, Pending
  <2>9. CapacityOK'
    BY <2>i DEF IInv, CapacityOK
  <2> QED BY <2>2, <2>3, <2>4, <2>5, <2>6, <2>7, <2>8, <2>9 DEF IInv
<1> QED BY <1>1, <1>2

LEMMA InvHolds == Spec => []IInv
<1>1. Init => IInv
  BY InvStart
<1>2. IInv /\ [Untimed \/ Timed]_vars => IInv'
  BY InvStep DEF Next
<1> QED BY <1>1, <1>2, PTL DEF Spec

(* Every variable keeps its type, and every message sent is one of the       *)
(* protocol's.                                                               *)
THEOREM TypeCorrect == Spec => []TypeOK
<1>1. IInv => TypeOK
  BY DEF IInv
<1> QED BY <1>1, InvHolds, PTL

(* No tool call runs twice (AtMostOnceExecution), none runs that the caller  *)
(* was told it may repeat (NotReceivedMeansNotExecuted), and no result that  *)
(* is awaited is dropped (NoLostResult): reconcile, redeliver and retain     *)
(* work together under any loss of sockets and processes.                    *)
THEOREM Survives == Spec => []CallsSurvive
<1>1. IInv => CallsSurvive
  <2> SUFFICES ASSUME IInv PROVE CallsSurvive
    OBVIOUS
  <2>1. AtMostOnceExecution
    BY DEF IInv, RunsOK, AtMostOnceExecution
  <2>2. NotReceivedMeansNotExecuted
    BY DEF IInv, RunsOK, Untouched, NotReceivedMeansNotExecuted
  <2>3. NoLostResult
    BY DEF IInv, RunsOK, Awaited, Pending, NoLostResult
  <2> QED BY <2>1, <2>2, <2>3 DEF CallsSurvive
<1> QED BY <1>1, InvHolds, PTL

(* Neither end ever sends what the other treats as a protocol violation and  *)
(* closes for: the ready handshake, resume_calls and its acknowledgement     *)
(* come in an order and with ids the other end accepts.                      *)
THEOREM WellBehaved == Spec => []NoProtocolViolation
<1>1. Init => NoProtocolViolation
  BY DEF Init, NoProtocolViolation
<1>2. IInv /\ NoProtocolViolation /\ [Untimed \/ Timed]_vars => NoProtocolViolation'
  <2> SUFFICES ASSUME IInv, NoProtocolViolation, [Next]_vars PROVE NoProtocolViolation'
    BY DEF Next
  <2>1. CASE Next
    BY <2>1, ViolationStep DEF IInv, NoProtocolViolation
  <2>2. CASE UNCHANGED vars
    BY <2>2 DEF vars, history, NoProtocolViolation
  <2> QED BY <2>1, <2>2
<1> QED BY <1>1, <1>2, InvHolds, PTL DEF Spec

(* relayRecoveryCapacityRejection: running calls and retained results        *)
(* together stay within the capacity.                                        *)
THEOREM WithinCapacity == Spec => []RetentionWithinCapacity
<1>1. IInv => RetentionWithinCapacity
  BY DEF IInv, CapacityOK, RetentionWithinCapacity
<1> QED BY <1>1, InvHolds, PTL
-----------------------------------------------------------------------------
(* Every step is one that CallDelivery allows to each call.  Besides what    *)
(* the invariant says, a call that was answered without having run, which a  *)
(* daemon refused at its capacity, is not on its way to a daemon again, and  *)
(* will not be redelivered: its socket sent nothing before the session was   *)
(* ready, so the refusal and the report of missing calls name different      *)
(* calls.                                                                    *)
RefusalsOK ==
    /\ phase = "authenticated" => Contents(up[cur]) \subseteq {Probed}
    /\ \A c \in Calls : started[c] = 0 =>
         /\ Told(rec[c]) = "answered" => ToolCall(c) \notin Incoming
         /\ \A s \in Sockets : role[s] = "daemon" /\ Result(c) \in Contents(up[s]) =>
              ToolCall(c) \notin Incoming /\ ~Claimed(c)

(* What the caller of a call is told, by the state of its record. *)
LEMMA ToldStatus ==
    ASSUME NEW r \in Record
    PROVE  /\ r.status = "new" <=> Told(r) = "unsent"
           /\ r.status = "pending" <=> Told(r) = "waiting"
           /\ Told(r) = "answered" => r.outcome = "answered"
           /\ Told(r) = "not_received" => r.outcome \in {"not_received", "send_failed"}
           /\ Told(r) \in {"unsent", "waiting", "answered", "not_received", "unknown"}
<1>0. r.status \in {"new", "pending", "settled"}
  BY DEF Record
<1>1. CASE r.status = "new"
  BY <1>1 DEF Told
<1>2. CASE r.status = "pending"
  BY <1>2 DEF Told
<1>3. CASE r.status = "settled"
  <2>1. CASE r.outcome = "answered"
    BY <1>3, <2>1 DEF Told
  <2>2. CASE r.outcome \in {"not_received", "send_failed"}
    BY <1>3, <2>2 DEF Told
  <2>3. CASE r.outcome \notin {"answered", "not_received", "send_failed"}
    BY <1>3, <2>3 DEF Told
  <2> QED BY <2>1, <2>2, <2>3
<1> QED BY <1>0, <1>1, <1>2, <1>3

(* What a step tells the caller of a call. *)
LEMMA ToldStep ==
    ASSUME TypeOK, TypeOK', NetworkOK, OwnersOK, [Next]_vars, NEW c \in Calls
    PROVE  \/ Told(rec'[c]) = Told(rec[c])
           \/ Told(rec[c]) = "unsent" /\ Told(rec'[c]) = "waiting"
           \/ Told(rec[c]) = "unsent" /\ Told(rec'[c]) = "not_received"
           \/ Told(rec[c]) = "waiting" /\ Told(rec'[c]) \in {"not_received", "unknown"}
           \/ /\ Told(rec[c]) = "waiting" /\ Told(rec'[c]) = "answered"
              /\ \E s \in Sockets : Result(c) \in Contents(up[s]) /\ role[s] = "daemon"
<1>0. rec[c] \in Record /\ rec'[c] \in Record /\ instanceOf \in [Sockets -> Instances]
  BY DEF TypeOK
<1>1. CASE UNCHANGED vars
  BY <1>1 DEF vars, workerVars
<1>2. CASE Next
  <2>1. RecordMove(c)
    BY <1>2, RecordStep
  <2>2. CASE rec'[c] = rec[c]
    BY <2>2
  <2>3. CASE Continues(c)
    BY <1>0, <2>3, ToldStatus DEF Continues
  <2>4. CASE Begins(c)
    BY <1>0, <2>4, ToldStatus DEF Begins
  <2>5. CASE Fails(c)
    <3>1. PICK s \in Sockets : DispatchFails(c, s)
      BY <2>5 DEF Fails
    <3>2. rec'[c] = Settled(Registered(c, s, instanceOf[s]), "send_failed", None)
      BY <3>1, DispatchFailsEffect
    <3>3. Settled(Registered(c, s, instanceOf[s]), "send_failed", None).outcome = "send_failed"
      BY DEF Settled, NewRecord
    <3>4. Told(rec'[c]) = "not_received"
      BY <2>5, <3>2, <3>3 DEF Fails, Told
    <3> QED BY <1>0, <2>5, <3>4, ToldStatus DEF Fails
  <2>6. CASE Ends(c)
    <3>1. Told(rec[c]) = "waiting" /\ Told(rec'[c]) \in {"answered", "not_received", "unknown"}
      BY <1>0, <2>6, ToldStatus DEF Ends
    <3>2. ASSUME Told(rec'[c]) = "answered"
          PROVE  \E s \in Sockets : Result(c) \in Contents(up[s]) /\ role[s] = "daemon"
      <4>1. rec'[c].outcome = "answered"
        BY <1>0, <3>2, ToldStatus
      <4>2. ASSUME NEW s \in Sockets, WorkerResumeAck(s) PROVE rec'[c].outcome # "answered"
        <5>1. Settled(rec[c], "not_received", None).outcome = "not_received"
          BY DEF Settled, NewRecord
        <5>2. rec[c].status = "pending" /\ rec'[c].status = "settled"
          BY <2>6 DEF Ends
        <5>3. [rec[c] EXCEPT !.redelivered = s].status = "pending"
          BY <1>0, <5>2 DEF Record
        <5> QED BY <4>2, <5>1, <5>2, <5>3, ResumeAckEffect
      <4> QED BY <2>6, <4>1, <4>2 DEF Ends
    <3> QED BY <3>1, <3>2
  <2> QED BY <2>1, <2>2, <2>3, <2>4, <2>5, <2>6 DEF RecordMove
<1> QED BY <1>1, <1>2

(* Executing a call tells nothing to any caller. *)
LEMMA RunStep ==
    ASSUME TypeOK, [Next]_vars, NEW c \in Calls
    PROVE  \/ started'[c] = started[c]
           \/ started'[c] = started[c] + 1 /\ rec' = rec /\ ToolCall(c) \in Incoming
<1>0. started \in [Calls -> Nat] /\ down \in [Sockets -> Seq(Message)]
  BY DEF TypeOK
<1>1. CASE UNCHANGED vars
  BY <1>1 DEF vars, history
<1>2. CASE Next
  <2>1. CASE Keeps(c)
    BY <2>1 DEF Keeps
  <2>2. CASE Starts(c)
    <3>1. /\ cur \in Sockets /\ down[cur] # <<>> /\ Head(down[cur]) = ToolCall(c)
          /\ started'[c] = started[c] + 1 /\ rec' = rec
      BY <1>0, <2>2 DEF Starts, DaemonToolCall, workerVars
    <3>2. cur # None /\ Head(down[cur]) \in Contents(down[cur])
      BY <1>0, <3>1, Numbers, ConsContents
    <3> QED BY <3>1, <3>2 DEF Incoming
  <2> QED BY <1>2, <2>1, <2>2, LocalStep DEF LocalMove
<1> QED BY <1>1, <1>2

(* A socket becomes ready by being promoted. *)
LEMMA ReadyStep ==
    ASSUME TypeOK, Next, NEW s \in Sockets, role'[s] = "daemon"
    PROVE  role[s] = "daemon" \/ Promote(s)
<1>0. role \in [Sockets -> {"none", "probing", "replaced", "daemon", "expired"}]
  BY DEF TypeOK
<1>1. ASSUME NEW t \in Sockets, Promote(t) PROVE role[s] = "daemon" \/ Promote(s)
  BY <1>1 DEF Promote
<1>2. ASSUME NEW t \in Sockets, Connect(t) PROVE role[s] = "daemon"
  BY <1>0, <1>2 DEF Connect
<1>3. ASSUME NEW t \in Sockets,
             \/ WorkerCloses(t) \/ (\E x \in BOOLEAN : PromotionFails(t, x))
             \/ (\E c \in Calls : DispatchFails(c, t))
      PROVE  role[s] = "daemon"
  <2>1. role' = [role EXCEPT ![t] = "expired"]
    BY <1>3 DEF WorkerCloses, PromotionFails, DispatchFails
  <2> QED BY <1>0, <2>1
<1>4. CASE \/ (\E t \in Sockets : WorkerResult(t) \/ WorkerResumeAck(t) \/ WorkerPong(t) \/ Drop(t))
           \/ (\E c \in Calls, t \in Sockets : Dispatch(c, t))
           \/ (\E c \in Calls : CancelRequest(c) \/ ExpireCall(c) \/ Finish(c))
           \/ DaemonCloses \/ DaemonResume \/ DaemonReady \/ DaemonToolCall \/ DaemonCancel
           \/ DaemonAck \/ DaemonPong \/ GraceExpires \/ Crash \/ Tick
  <2>1. role' = role
    BY <1>4 DEF WorkerResult, WorkerResumeAck, WorkerPong, Drop, Dispatch, CancelRequest, ExpireCall,
       GiveUp, Finish, DaemonCloses, DaemonResume, DaemonReady, DaemonToolCall, DaemonCancel,
       DaemonAck, DaemonPong, GraceExpires, Crash, Tick, workerVars
  <2> QED BY <2>1
<1> QED
  BY <1>1, <1>2, <1>3, <1>4 DEF Next, Untimed, Timed, WorkerStep, DaemonStep

(* The daemon sends nothing but the probe result before its session is       *)
(* ready. *)
LEMMA SilenceStep ==
    ASSUME TypeOK, NetworkOK, HandshakeOK, Next, phase' = "authenticated",
           phase = "authenticated" => Contents(up[cur]) \subseteq {Probed}
    PROVE  Contents(up'[cur']) \subseteq {Probed}
<1> USE Numbers
<1>0. /\ up \in [Sockets -> Seq(Message)] /\ down \in [Sockets -> Seq(Message)]
      /\ cur \in Sockets \cup {None}
  BY DEF TypeOK
<1>c. cur = None <=> phase = "closed"
  BY DEF NetworkOK
<1>k. ASSUME cur' = cur, phase' = phase, Contents(up'[cur]) \subseteq Contents(up[cur])
      PROVE  Contents(up'[cur']) \subseteq {Probed}
  BY <1>k
<1>1. ASSUME NEW t \in Sockets, Connect(t) PROVE Contents(up'[cur']) \subseteq {Probed}
  <2>1. cur' = t /\ up'[t] = <<Probed>>
    BY <1>0, <1>1 DEF Connect
  <2> QED BY <2>1 DEF Contents
<1>2. ASSUME NEW t \in Sockets, WorkerResult(t) \/ WorkerResumeAck(t)
      PROVE  Contents(up'[cur']) \subseteq {Probed}
  <2>1. up[t] # <<>> /\ up' = Popped(up, t) /\ UNCHANGED <<cur, phase>>
    BY <1>2 DEF WorkerResult, WorkerResumeAck, WorkerHandles, daemonVars
  <2>2. cur \in Sockets
    BY <1>0, <1>c, <2>1
  <2>3. Contents(up'[cur]) \subseteq Contents(up[cur])
    BY <2>1, <2>2, WorkerPops
  <2> QED BY <1>k, <2>1, <2>3
<1>3. ASSUME NEW t \in Sockets, Promote(t) PROVE Contents(up'[cur']) \subseteq {Probed}
  <2>1. up[t] # <<>> /\ UNCHANGED <<cur, phase>>
    BY <1>3 DEF Promote, WorkerHandles, daemonVars
  <2>2. cur \in Sockets
    BY <1>0, <1>c, <2>1
  <2>3. up'[cur] \in {<<>>, up[cur]} \/ (cur = t /\ up'[cur] = Tail(up[t]))
    BY <1>3, <2>2 DEF Promote
  <2>4. Contents(Tail(up[t])) \subseteq Contents(up[t])
    BY <1>0, <2>1, ConsContents
  <2>5. Contents(up'[cur]) \subseteq Contents(up[cur])
    BY <2>3, <2>4, EmptyContents
  <2> QED BY <1>k, <2>1, <2>5
<1>4. ASSUME NEW t \in Sockets,
             \/ WorkerCloses(t) \/ (\E x \in BOOLEAN : PromotionFails(t, x)) \/ WorkerPong(t)
             \/ (\E c \in Calls : Dispatch(c, t)) \/ (\E c \in Calls : DispatchFails(c, t)) \/ Drop(t)
      PROVE  Contents(up'[cur']) \subseteq {Probed}
  <2>1. (up' = up \/ up' = [up EXCEPT ![t] = <<>>]) /\ UNCHANGED <<cur, phase>>
    BY <1>4 DEF WorkerCloses, PromotionFails, WorkerPong, Dispatch, DispatchFails, Drop, daemonVars
  <2>2. cur \in Sockets
    BY <1>0, <1>c, <2>1
  <2>3. Contents(up'[cur]) \subseteq Contents(up[cur])
    BY <1>0, <2>1, <2>2, EmptyContents
  <2> QED BY <1>k, <2>1, <2>3
<1>5. CASE DaemonReady
  <2>1. up' = up /\ UNCHANGED <<cur, phase>>
    BY <1>5 DEF DaemonReady
  <2> QED BY <1>k, <2>1
<1>6. CASE DaemonToolCall
  <2>1. up' = up /\ UNCHANGED <<cur, phase>>
    BY <1>6 DEF DaemonToolCall
  <2> QED BY <1>k, <2>1
<1>7. CASE DaemonPong
  <2>1. cur \in Sockets /\ down[cur] # <<>> /\ Head(down[cur]).type = "pong" /\ phase' = phase
    BY <1>0, <1>7 DEF DaemonPong, DaemonHandles, daemonVars
  <2>2. phase = "ready"
    BY <2>1, Shapes
  <2> QED BY <2>1, <2>2
<1>8. ASSUME NEW d \in Calls, Finish(d) PROVE Contents(up'[cur']) \subseteq {Probed}
  <2>1. up' = up /\ UNCHANGED <<cur, phase>>
    BY <1>8 DEF Finish
  <2> QED BY <1>k, <2>1
<1>9. CASE \/ (\E d \in Calls : CancelRequest(d) \/ ExpireCall(d)) \/ DaemonResume \/ DaemonCancel
           \/ DaemonAck \/ GraceExpires \/ Tick
  <2>1. up' = up /\ UNCHANGED <<cur, phase>>
    BY <1>9 DEF CancelRequest, ExpireCall, GiveUp, DaemonResume, DaemonCancel, DaemonAck,
       GraceExpires, Tick, netVars, daemonVars
  <2> QED BY <1>k, <2>1
<1>10. CASE DaemonCloses \/ Crash
  BY <1>10 DEF DaemonCloses, Crash
<1> QED
  BY <1>1, <1>2, <1>3, <1>4, <1>5, <1>6, <1>7, <1>8, <1>9, <1>10
     DEF Next, Untimed, Timed, WorkerStep, DaemonStep

(* A call the daemon refuses was on its way once. *)
LEMMA RefusedOnce ==
    ASSUME TypeOK, RunsOK, NEW c \in Calls, Refuses(c)
    PROVE  ToolCall(c) \notin Incoming'
<1> USE Numbers
<1>1. /\ cur \in Sockets /\ down[cur] # <<>> /\ Head(down[cur]) = ToolCall(c)
      /\ down' = Popped(down, cur) /\ cur' = cur
  BY DEF Refuses, DaemonToolCall
<1>2. down[cur] \in Seq(Message) /\ AtMostOne(down[cur], {ToolCall(c)}) /\ cur # None
  BY <1>1 DEF TypeOK, RunsOK
<1>3. ToolCall(c) \notin Contents(Tail(down[cur]))
  BY <1>1, <1>2, AtMostOneTail
<1>4. down'[cur] = Tail(down[cur])
  BY <1>1, DaemonPops
<1> QED BY <1>1, <1>2, <1>3, <1>4 DEF Incoming

(* A call that was answered without having run is not sent again. *)
LEMMA AnsweredStep ==
    ASSUME TypeOK, TypeOK', NetworkOK, OwnersOK, RefusalsOK, Next, NEW c \in Calls,
           started[c] = 0, Told(rec'[c]) = "answered"
    PROVE  ToolCall(c) \notin Incoming'
<1>0. rec[c] \in Record /\ rec'[c] \in Record
  BY DEF TypeOK
<1>1. ToolCall(c) \notin Incoming /\ Told(rec[c]) # "unsent"
  <2>1. CASE Told(rec[c]) = "answered"
    BY <2>1 DEF RefusalsOK
  <2>2. CASE Told(rec[c]) # "answered"
    <3>1. /\ Told(rec[c]) = "waiting"
          /\ \E s \in Sockets : Result(c) \in Contents(up[s]) /\ role[s] = "daemon"
      BY <2>2, ToldStep
    <3> QED BY <3>1 DEF RefusalsOK
  <2> QED BY <2>1, <2>2
<1> SUFFICES ASSUME ToolCall(c) \in Incoming' PROVE FALSE
  OBVIOUS
<1>2. Arrival(ToolCall(c))
  BY <1>1, Arrivals
<1>3. (cur \in Sockets /\ Dispatch(c, cur)) \/ Recall(ToolCall(c), c)
  BY <1>2, ArrivalKinds
<1>4. rec[c].status # "new" /\ rec'[c].status # "pending"
  BY <1>0, <1>1, ToldStatus
<1> QED BY <1>3, <1>4 DEF Recall, Dispatch, Pending

(* A result of a call that never ran, on its way to the Worker, is a         *)
(* refusal: the call was not reported missing and will not be sent again. *)
LEMMA RefusedStep ==
    ASSUME TypeOK, TypeOK', NetworkOK, HandshakeOK, AcksOK, AcksOK', OwnersOK, NamesOK, RunsOK,
           RefusalsOK, Next, NEW c \in Calls, started[c] = 0,
           NEW s \in Sockets, role'[s] = "daemon", Result(c) \in Contents(up'[s])
    PROVE  ToolCall(c) \notin Incoming' /\ ~Claimed(c)'
<1> USE Numbers
<1>0. /\ cur \in Sockets \cup {None} /\ up \in [Sockets -> Seq(Message)]
      /\ down \in [Sockets -> Seq(Message)]
      /\ role \in [Sockets -> {"none", "probing", "replaced", "daemon", "expired"}]
  BY DEF TypeOK
<1>1. role[s] = "daemon"
  <2> SUFFICES ASSUME Promote(s) PROVE FALSE
    BY ReadyStep
  <2>1. role[s] = "probing" /\ up'[s] = Tail(up[s])
    BY <1>0 DEF Promote
  <2>2. up[s] = <<Probed>>
    BY <2>1 DEF NetworkOK
  <2>3. Contents(up'[s]) = {}
    BY <2>1, <2>2, EmptyContents
  <2> QED BY <2>3
<1>c. ASSUME Claimed(c)'
      PROVE  Claimed(c) \/ (Untouched(c) /\ DaemonResume /\ rec[c].owner = cur /\ c \in Pending(rec))
  BY <1>c, ClaimsStep
<1>2. CASE Result(c) \in Contents(up[s])
  <2>1. ToolCall(c) \notin Incoming /\ ~Claimed(c)
    BY <1>1, <1>2 DEF RefusalsOK
  <2>2. ToolCall(c) \notin Incoming'
    <3> SUFFICES ASSUME ToolCall(c) \in Incoming' PROVE FALSE
      OBVIOUS
    <3>1. Arrival(ToolCall(c))
      BY <2>1, Arrivals
    <3>2. CASE cur \in Sockets /\ Dispatch(c, cur)
      <4>1. Fresh(c)
        BY <3>2 DEF Dispatch, NamesOK
      <4> QED BY <1>2, <4>1 DEF Fresh
    <3>3. CASE Recall(ToolCall(c), c)
      <4>1. /\ cur \in Sockets /\ WorkerResumeAck(cur) /\ c \in Head(up[cur]).ids
            /\ c \in Pending(rec) /\ rec[c].owner = cur
        BY <3>3 DEF Recall, OwnedBy
      <4>2. up[cur] # <<>> /\ Head(up[cur]).type = "resume_calls_ack" /\ up[cur] \in Seq(Message)
        BY <1>0, <4>1 DEF WorkerResumeAck, WorkerHandles
      <4>3. Head(up[cur]) \in Message /\ Head(up[cur]) \in Contents(up[cur])
        BY <4>2, ConsContents
      <4>4. /\ Head(up[cur]).ids \in SUBSET Calls
            /\ ResumeAck(Head(up[cur]).ids) \in Contents(up[cur])
        BY <4>2, <4>3, Kinds
      <4>5. Claimed(c)
        BY <4>1, <4>4 DEF Claimed
      <4> QED BY <2>1, <4>5
    <3> QED BY <3>1, <3>2, <3>3, ArrivalKinds
  <2>3. ~Claimed(c)'
    <3> SUFFICES ASSUME DaemonResume, rec[c].owner = cur, c \in Pending(rec) PROVE FALSE
      BY <1>c, <2>1
    <3>1. cur \in Sockets /\ down[cur] # <<>> /\ Head(down[cur]).type = "resume_calls"
      BY <1>0 DEF DaemonResume, DaemonHandles
    <3>2. phase = "authenticated"
      BY <3>1, Shapes
    <3>3. role[cur] = "daemon"
      BY <3>1 DEF OwnersOK
    <3>4. s = cur
      BY <1>1, <3>1, <3>3 DEF NetworkOK
    <3>5. Result(c) = Probed
      BY <1>2, <3>2, <3>4 DEF RefusalsOK
    <3> QED BY <3>5 DEF Result, Probed
  <2> QED BY <2>2, <2>3
<1>3. CASE Result(c) \notin Contents(up[s])
  <2>1. Departure(s, Result(c))
    BY <1>3, Departures
  <2>2. local[c] = "none"
    BY DEF RunsOK
  <2>3. Refuses(c) /\ ToolCall(c) \in Incoming
    BY <2>1, <2>2, DepartureKinds
  <2>4. ToolCall(c) \notin Incoming'
    BY <2>3, RefusedOnce
  <2>5. ~Claimed(c)'
    BY <1>c, <2>3 DEF RunsOK, Untouched
  <2> QED BY <2>4, <2>5
<1> QED BY <1>2, <1>3

LEMMA RefusalsStep ==
    ASSUME IInv, IInv', RefusalsOK, [Next]_vars
    PROVE  RefusalsOK'
<1>0. /\ TypeOK /\ TypeOK' /\ NetworkOK /\ HandshakeOK /\ AcksOK /\ AcksOK' /\ OwnersOK
      /\ NamesOK /\ RunsOK /\ started \in [Calls -> Nat]
  BY DEF IInv, TypeOK
<1>1. CASE UNCHANGED vars
  BY <1>1 DEF vars, workerVars, netVars, daemonVars, history, RefusalsOK, Incoming, Claimed, Pending
<1>2. CASE Next
  <2>1. phase' = "authenticated" => Contents(up'[cur']) \subseteq {Probed}
    BY <1>0, <1>2, SilenceStep DEF RefusalsOK
  <2>2. ASSUME NEW c \in Calls, started'[c] = 0
        PROVE  /\ Told(rec'[c]) = "answered" => ToolCall(c) \notin Incoming'
               /\ \A s \in Sockets : role'[s] = "daemon" /\ Result(c) \in Contents(up'[s]) =>
                    ToolCall(c) \notin Incoming' /\ ~Claimed(c)'
    <3>1. started[c] = 0
      BY <1>0, <2>2, RunStep
    <3>2. Told(rec'[c]) = "answered" => ToolCall(c) \notin Incoming'
      BY <1>0, <1>2, <3>1, AnsweredStep
    <3>3. \A s \in Sockets : role'[s] = "daemon" /\ Result(c) \in Contents(up'[s]) =>
             ToolCall(c) \notin Incoming' /\ ~Claimed(c)'
      BY <1>0, <1>2, <3>1, RefusedStep
    <3> QED BY <3>2, <3>3
  <2> QED BY <2>1, <2>2 DEF RefusalsOK
<1> QED BY <1>1, <1>2

LEMMA RefusalsStart == Init => RefusalsOK
<1> SUFFICES ASSUME Init PROVE RefusalsOK
  OBVIOUS
<1>1. /\ phase # "authenticated" /\ cur = None
      /\ \A c \in Calls : rec[c] = NewRecord
      /\ \A s \in Sockets : role[s] # "daemon"
  BY DEF Init
<1>2. Told(NewRecord) = "unsent"
  BY DEF NewRecord, Told
<1> QED BY <1>1, <1>2 DEF RefusalsOK

(* What was told is true of what ran. *)
ToldTruly ==
    \A c \in Calls :
        /\ Told(rec[c]) \in Delivery!Told /\ started[c] \in {0, 1}
        /\ Told(rec[c]) \in {"unsent", "not_received"} => started[c] = 0

(* The invariant says so. *)
LEMMA InvariantTellsTruly ==
    ASSUME IInv
    PROVE  ToldTruly
<1> SUFFICES ASSUME NEW c \in Calls
             PROVE  /\ Told(rec[c]) \in Delivery!Told /\ started[c] \in {0, 1}
                    /\ Told(rec[c]) \in {"unsent", "not_received"} => started[c] = 0
  BY DEF ToldTruly
<1>1. rec[c] \in Record /\ started[c] \in Nat /\ started[c] <= 1
  BY DEF IInv, TypeOK, RunsOK
<1>2. Told(rec[c]) = "unsent" => started[c] = 0
  BY <1>1, ToldStatus DEF IInv, NamesOK, Fresh
<1>3. Told(rec[c]) = "not_received" => started[c] = 0
  <2>1. rec[c].outcome \in {"not_received", "send_failed"} => Untouched(c)
    BY DEF IInv, RunsOK
  <2> QED BY <1>1, <2>1, ToldStatus DEF Untouched
<1>4. Told(rec[c]) \in Delivery!Told
  BY <1>1, ToldStatus DEF Delivery!Told
<1> QED BY <1>1, <1>2, <1>3, <1>4

(* What a step does to one call is a step of CallDelivery. *)
LEMMA DeliveryStep ==
    ASSUME IInv, IInv', ToldTruly, ToldTruly', RefusalsOK, [Next]_vars, NEW c \in Calls
    PROVE  Delivery!CallStep([told |-> Told(rec[c]), runs |-> started[c]],
                             [told |-> Told(rec'[c]), runs |-> started'[c]])
<1>0. /\ TypeOK /\ TypeOK' /\ NetworkOK /\ OwnersOK
  BY DEF IInv
<1>1. /\ Told(rec[c]) \in Delivery!Told /\ started[c] \in {0, 1}
      /\ Told(rec[c]) \in {"unsent", "not_received"} => started[c] = 0
  BY DEF ToldTruly
<1>2. /\ started'[c] \in {0, 1}
      /\ Told(rec'[c]) \in {"unsent", "not_received"} => started'[c] = 0
  BY DEF ToldTruly
<1>3. CASE started'[c] = started[c]
  <2>1. \/ Told(rec'[c]) = Told(rec[c])
        \/ Told(rec[c]) = "unsent" /\ Told(rec'[c]) = "waiting"
        \/ Told(rec[c]) = "unsent" /\ Told(rec'[c]) = "not_received"
        \/ Told(rec[c]) = "waiting" /\ Told(rec'[c]) \in {"not_received", "unknown"}
        \/ Told(rec[c]) = "waiting" /\ Told(rec'[c]) = "answered"
    BY <1>0, ToldStep
  <2> QED BY <1>1, <1>2, <1>3, <2>1
       DEF Delivery!CallStep, Delivery!Send, Delivery!Unsent, Delivery!Answer, Delivery!Disclaim,
           Delivery!GiveUp
<1>4. CASE started'[c] # started[c]
  <2>1. started'[c] = started[c] + 1 /\ rec' = rec /\ ToolCall(c) \in Incoming
    BY <1>0, <1>4, RunStep
  <2>2. started[c] = 0 /\ started'[c] = 1
    BY <1>1, <1>2, <2>1
  <2>3. Told(rec[c]) \in {"waiting", "unknown"} /\ Told(rec'[c]) = Told(rec[c])
    BY <1>1, <1>2, <2>1, <2>2 DEF RefusalsOK, Delivery!Told
  <2> QED BY <2>2, <2>3 DEF Delivery!CallStep, Delivery!Execute
<1> QED BY <1>3, <1>4

(* Worker and daemons implement CallDelivery: through any loss of sockets    *)
(* and processes a call is executed once at most, never after the caller was *)
(* told that it was not received, and never after it was answered: a call    *)
(* refused at the daemon's capacity stays refused, so that a caller who      *)
(* tries it again does not run it twice (relayRecoveryCapacityRejection,     *)
(* settleDaemonProvenMissingCalls).                                          *)
THEOREM DeliversOnce == Spec => ImplementsDelivery
<1> DEFINE call == [c \in Calls |-> [told |-> Told(rec[c]), runs |-> started[c]]]
<1>1. Init => Delivery!Init /\ RefusalsOK
  <2>1. Told(NewRecord) = "unsent"
    BY DEF NewRecord, Told
  <2> QED BY <2>1, RefusalsStart DEF Init, Delivery!Init, Delivery!Unsent
<1>2. IInv /\ IInv' /\ RefusalsOK /\ [Next]_vars => RefusalsOK'
  BY RefusalsStep
<1>3. ASSUME IInv, IInv', ToldTruly, ToldTruly', RefusalsOK, [Next]_vars
      PROVE  Delivery!Next
  <2>1. call' = [c \in Calls |-> [told |-> Told(rec'[c]), runs |-> started'[c]]]
    OBVIOUS
  <2>2. ASSUME NEW c \in Calls
        PROVE  [told |-> Told(rec'[c]), runs |-> started'[c]] \in Delivery!Call
    <3>1. Told(rec'[c]) \in Delivery!Told /\ started'[c] \in {0, 1}
      BY <1>3 DEF ToldTruly
    <3> QED BY <3>1 DEF Delivery!Call, Delivery!Told
  <2>3. call' \in [Calls -> Delivery!Call]
    BY <2>1, <2>2
  <2>4. \A c \in Calls : Delivery!CallStep(call[c], call'[c])
    BY <1>3, DeliveryStep
  <2> QED BY <2>3, <2>4 DEF Delivery!Next
<1>4. [Next]_vars <=> [Untimed \/ Timed]_vars
  BY DEF Next
<1>5. IInv => ToldTruly
  BY InvariantTellsTruly
<1> QED BY <1>1, <1>2, <1>3, <1>4, <1>5, InvHolds, PTL DEF Spec, ImplementsDelivery, Delivery!Spec
=============================================================================
