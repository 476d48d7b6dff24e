--------------------------- MODULE HttpRelayProofs --------------------------
(* Safety of the HTTPS fallback, for any number of calls, channels, sessions *)
(* and faults, and any number of polls that overlap.                         *)
(*                                                                           *)
(* The inductive invariant says                                              *)
(*   - that channels open one after the other and a token is known only to   *)
(*     the session it was given to (Ordered, Tokens), and that one poll at a *)
(*     time is the one the daemon waits for (OneAtATime);                    *)
(*   - how far the handshake of a session has come, read off the numbers the *)
(*     two ends have seen (LinkShape, ChannelShape);                         *)
(*   - what each numbered message of a stream may say, at the sender and in  *)
(*     every poll and response under way (WorkerStreams, DaemonStreams);     *)
(*   - that a batch under way shows, under every number, what its sender has *)
(*     under it, and that nothing unhandled was dropped (ReplyShape,         *)
(*     PostShape, StageShape, Ends);                                         *)
(*   - that a session reports its missing calls once and the same way in     *)
(*     every copy (OneReport), and that a call about to be reported missing  *)
(*     neither has run nor can still be started (MissingOK);                 *)
(*   - that the daemon reads each call under one number at most (SentOnce),  *)
(*     and keeps what it has begun and the Worker awaits (RunsOK);           *)
(*   - that a pending call is held by an open channel or by none (Owners).   *)
EXTENDS HttpRelay, FiniteSetTheorems, SequenceTheorems, TLAPS

(* A batch carries the messages with the numbers acked + 1 .. LastSeq. *)
Has(b, n) == b.acked < n /\ n <= LastSeq(b)
Holds(b, n, m) == Has(b, n) /\ MessageAt(b, n) = m

Opened(o) == chan[o].state # "none"

(* A response with a batch is on its way to the daemon or being read. *)
Answers == reply.kind \in {"ok", "reading"}

(* Channels are opened in order, and only the last one opened can be open. *)
Ordered ==
    \A o \in Channels :
        /\ Opened(o) => \A x \in Channels : x < o => Opened(x) /\ ~Open(x)
        /\ ~Opened(o) => chan[o] = NewChannel

(* What bears a token belongs to the session that channel was opened for. *)
Tokens ==
    /\ \A o \in Channels : Opened(o) => chan[o].sid \in 1 .. sid
    /\ \A p \in posts :
         /\ p.sid <= sid
         /\ p.token # None => Opened(p.token) /\ chan[p.token].sid = p.sid
         /\ p.stage # "sent" => p.token # None
    /\ link.token # None => Opened(link.token) /\ chan[link.token].sid = sid
    /\ Answers => /\ reply.token # None /\ Opened(reply.token)
                  /\ chan[reply.token].sid = sid
                  /\ link.token # None => reply.token = link.token
    /\ reply.kind = "reading" => link.token # None
    /\ reply.kind = "none" <=> reply = NoReply

(* One poll at a time, of the present session, and no response to another. *)
OneAtATime ==
    \A p \in posts : p.live =>
        /\ p.sid = sid /\ p.token = link.token /\ reply = NoReply
        /\ \A q \in posts : q.live => p = q

(* Nothing was sent to a channel whose token the daemon never learned. *)
Unlearned ==
    \A o \in Channels : chan[o].sid = sid /\ link.token # o =>
        /\ chan[o].seen = 0 /\ chan[o].out.acked = 0
        /\ \A p \in posts : p.token # o

(* The phases of a session: the resume, the acknowledgement, the proof. *)
LinkShape ==
    /\ link.token = None => link = NewLink
    /\ link.seen = 1 <=> link.resume.known
    /\ link.seen >= 2 <=> link.localReady
    /\ link.localReady => LastSeq(link.out) >= 2
    /\ ~link.localReady => link.out = NothingSent /\ ~link.ready
    /\ ~link.resume.known => link.resume.ids = {}

ChannelShape ==
    \A o \in Channels :
        /\ chan[o].state = "probing" => chan[o].seen = 0 /\ LastSeq(chan[o].out) = 2
        /\ chan[o].state = "ready" => chan[o].seen >= 1 /\ chan[o].out.acked >= 2
        /\ chan[o].state = "closed" => chan[o].out = NothingSent
        /\ chan[o].answered.known => chan[o].seen >= 1

(* What the two ends say under each number. *)
WorkerSays(n, m, ids, R) ==
    /\ n = 1 => m = Resume(ids)
    /\ n = 2 => m = ReadyAck
    /\ n >= 3 => \E c \in Calls :
         \/ m = ToolCall(c) /\ R[c].status # "new"
         \/ m \in {CancelCall(c), ResultAck(c)} /\ R[c].status = "settled"
WorkerStream(b, ids, R) == \A n \in Nat : Has(b, n) => WorkerSays(n, MessageAt(b, n), ids, R)

DaemonSays(n, m, ids, runs) ==
    /\ n = 1 => m = HttpsReady
    /\ n = 2 => \E S \in SUBSET ids : m = ResumeAck(S)
    /\ n >= 3 => \E c \in Calls : m = Result(c) /\ runs[c] > 0
DaemonStream(b, ids, runs) ==
    \A n \in Nat : Has(b, n) => DaemonSays(n, MessageAt(b, n), ids, runs)

WorkerStreams ==
    /\ \A o \in Channels : WorkerStream(chan[o].out, chan[o].expected, rec)
    /\ Answers => WorkerStream(reply.batch, chan[reply.token].expected, rec)

DaemonStreams ==
    /\ \A p \in posts : p.token # None => DaemonStream(p.batch, chan[p.token].expected, started)
    /\ link.token # None =>
         /\ DaemonStream(link.out, chan[link.token].expected, started)
         /\ link.resume.ids \subseteq chan[link.token].expected

(* Two batches of one stream have the same messages. *)
SameStream(a, b) ==
    \A n \in Nat : Has(a, n) /\ Has(b, n) => MessageAt(a, n) = MessageAt(b, n)

ReplyShape ==
    Answers =>
        /\ reply.ack <= chan[reply.token].seen /\ reply.batch.acked <= link.seen
        /\ LastSeq(reply.batch) >= 3 => reply.phase = "ready"
        /\ reply.phase = "ready" => chan[reply.token].seen >= 1
        /\ reply.kind = "reading" /\ reply.phase = "ready" => link.ready
        /\ Open(reply.token) =>
             /\ LastSeq(reply.batch) <= LastSeq(chan[reply.token].out)
             /\ SameStream(reply.batch, chan[reply.token].out)

(* What a poll carries... *)
PostShape ==
    \A p \in posts :
        /\ p.token = None => p.batch = NothingSent
        /\ p.token # None =>
             /\ p.batch.acked <= chan[p.token].seen
             /\ LastSeq(p.batch) >= 1 => p.ack >= 2
        /\ p.token # None /\ p.token = link.token =>
             /\ p.ack <= link.seen /\ LastSeq(p.batch) <= LastSeq(link.out)
             /\ SameStream(p.batch, link.out)

(* ... and how far it is handled. *)
Staged(p) ==
    /\ p.stage # "sent" =>
         /\ p.batch.acked < p.next /\ p.next <= chan[p.token].seen + 1
         /\ LastSeq(p.batch) >= 1 /\ Open(p.token) => chan[p.token].out.acked >= 2
         /\ p.wasReady => chan[p.token].seen >= 1
    /\ p.stage = "committing" => 2 <= p.next /\ p.next <= LastSeq(p.batch)
    /\ p.after # <<>> => \E c \in Calls :
         p.after = <<ResultAck(c)>> /\ rec[c].status = "settled"
StageShape == \A p \in posts : Staged(p)

(* Each end has acknowledged what the other dropped, and no more. *)
Ends ==
    link.token # None =>
        /\ chan[link.token].out.acked <= link.seen
        /\ link.out.acked <= chan[link.token].seen
        /\ chan[link.token].seen <= LastSeq(link.out)

(* A session reports its missing calls once. *)
OneReport ==
    /\ \A p \in posts : p.token # None /\ Has(p.batch, 2) =>
         /\ \A q \in posts : q.token = p.token /\ Has(q.batch, 2) =>
               MessageAt(q.batch, 2) = MessageAt(p.batch, 2)
         /\ chan[p.token].answered.known =>
               MessageAt(p.batch, 2) = ResumeAck(chan[p.token].answered.ids)
    /\ link.token # None /\ Has(link.out, 2) /\ chan[link.token].answered.known =>
         MessageAt(link.out, 2) = ResumeAck(chan[link.token].answered.ids)

(* The daemon has still to read a call under number n. *)
Unread(c, n) ==
    /\ n > link.seen
    /\ \/ link.token # None /\ Holds(chan[link.token].out, n, ToolCall(c))
       \/ Answers /\ Holds(reply.batch, n, ToolCall(c))

(* Call c is about to be reported missing to channel o. *)
Named(o, c) ==
    \/ \E p \in posts : p.token = o /\ Has(p.batch, 2) /\ c \in MessageAt(p.batch, 2).ids
    \/ link.token = o /\ c \in link.resume.ids
    \/ link.token = o /\ Has(link.out, 2) /\ c \in MessageAt(link.out, 2).ids

(* A missing call has not run, and nothing under way starts it. *)
MissingOK ==
    \A o \in Channels, c \in Calls :
        Open(o) /\ ~chan[o].answered.known /\ Named(o, c) /\ rec[c].status = "pending" =>
            started[c] = 0 /\ \A n \in Nat : ~Unread(c, n)

(* A call is sent to a channel that resumed it only if it was missing. *)
SentOnce ==
    \A c \in Calls :
        /\ \A n, k \in Nat : Unread(c, n) /\ Unread(c, k) => n = k
        /\ started[c] > 0 => \A n \in Nat : ~Unread(c, n)
        /\ rec[c].outcome = "not_received" => \A n \in Nat : ~Unread(c, n)
        /\ \A o \in Channels, n \in Nat :
             Holds(chan[o].out, n, ToolCall(c)) /\ c \in chan[o].expected =>
                chan[o].answered.known
        /\ Answers /\ c \in chan[reply.token].expected =>
             \A n \in Nat : Holds(reply.batch, n, ToolCall(c)) => chan[reply.token].answered.known

RunsOK ==
    \A c \in Calls :
        /\ rec[c].status = "new" => started[c] = 0 /\ \A o \in Channels : c \notin chan[o].expected
        /\ local[c] # "none" => started[c] > 0
        /\ started[c] <= 1
        /\ rec[c].outcome = "not_received" => rec[c].status = "settled" /\ started[c] = 0
        /\ rec[c].status = "pending" /\ started[c] > 0 =>
             /\ local[c] \in {"active", "retained"}
             /\ link.seen = 0 => \A o \in Channels :
                   Opened(o) /\ chan[o].sid = sid => c \in chan[o].expected

Owners ==
    \A c \in Calls : rec[c].status = "pending" =>
        /\ rec[c].instance = ThisInstance
        /\ rec[c].owner # None => Open(rec[c].owner)

(* The invariant. *)
IInv ==
    /\ TypeOK /\ Ordered /\ Tokens /\ OneAtATime /\ Unlearned /\ LinkShape /\ ChannelShape
    /\ WorkerStreams /\ DaemonStreams /\ ReplyShape /\ PostShape /\ StageShape /\ Ends
    /\ OneReport /\ MissingOK /\ SentOnce /\ RunsOK /\ Owners /\ NoProtocolViolation

(* Lemmas on batches. *)
LEMMA EnqueuedEffect ==
    ASSUME NEW b \in Batch, NEW ms \in Seq(MessageType)
    PROVE  /\ Enqueued(b, ms) \in Batch /\ Enqueued(b, ms).acked = b.acked
           /\ LastSeq(Enqueued(b, ms)) = LastSeq(b) + Len(ms)
           /\ \A n \in Nat : Has(b, n) =>
                Has(Enqueued(b, ms), n) /\ MessageAt(Enqueued(b, ms), n) = MessageAt(b, n)
           /\ \A n \in Nat : Has(Enqueued(b, ms), n) /\ ~Has(b, n) =>
                /\ n - LastSeq(b) \in 1 .. Len(ms)
                /\ MessageAt(Enqueued(b, ms), n) = ms[n - LastSeq(b)]
<1> DEFINE e == Enqueued(b, ms)
           x == b.msgs \o ms
           k == Len(b.msgs)
<1>1. b.acked \in Nat /\ b.msgs \in Seq(MessageType) /\ k \in Nat /\ Len(ms) \in Nat
  BY DEF Batch
<1>2. /\ x \in Seq(MessageType) /\ Len(x) = k + Len(ms)
      /\ \A i \in 1 .. k : x[i] = b.msgs[i]
      /\ \A i \in 1 .. Len(ms) : x[k + i] = ms[i]
  BY <1>1
<1>3. e = [b EXCEPT !.msgs = x]
  BY DEF Enqueued
<1> HIDE DEF x, e
<1>4. e \in Batch /\ e.acked = b.acked /\ e.msgs = x
  BY <1>2, <1>3 DEF Batch
<1>5. LastSeq(b) = b.acked + k /\ LastSeq(e) = b.acked + (k + Len(ms))
  BY <1>2, <1>4 DEF LastSeq
<1> HIDE DEF k
<1>6. LastSeq(e) = LastSeq(b) + Len(ms)
  BY <1>1, <1>5
<1>7. ASSUME NEW n \in Nat, Has(b, n) PROVE Has(e, n) /\ MessageAt(e, n) = MessageAt(b, n)
  <2>1. n - b.acked \in 1 .. k
    BY <1>1, <1>5, <1>7 DEF Has
  <2> QED BY <1>1, <1>2, <1>4, <1>5, <1>7, <2>1 DEF Has, MessageAt
<1>8. ASSUME NEW n \in Nat, Has(e, n), ~Has(b, n)
      PROVE  n - LastSeq(b) \in 1 .. Len(ms) /\ MessageAt(e, n) = ms[n - LastSeq(b)]
  <2>1. PICK i \in 1 .. Len(ms) : i = n - LastSeq(b)
    BY <1>1, <1>4, <1>5, <1>8 DEF Has
  <2>2. n - b.acked = k + i
    BY <1>1, <1>5, <2>1
  <2> QED BY <1>2, <1>4, <2>1, <2>2 DEF MessageAt
<1> QED BY <1>4, <1>6, <1>7, <1>8 DEF e

(* Dropping what is acknowledged keeps the numbers of the rest. *)
LEMMA AcknowledgedEffect ==
    ASSUME NEW b \in Batch, NEW k \in Nat, AckValid(b, k)
    PROVE  /\ Acknowledged(b, k) \in Batch
           /\ Acknowledged(b, k).acked = IF k <= b.acked THEN b.acked ELSE k
           /\ LastSeq(Acknowledged(b, k)) = LastSeq(b)
           /\ \A n \in Nat : Has(Acknowledged(b, k), n) =>
                Has(b, n) /\ MessageAt(Acknowledged(b, k), n) = MessageAt(b, n)
<1> DEFINE a == Acknowledged(b, k)
<1>1. b.acked \in Nat /\ b.msgs \in Seq(MessageType)
  BY DEF Batch
<1>2. CASE k <= b.acked
  BY <1>2 DEF Acknowledged
<1>3. CASE k > b.acked
  <2> DEFINE s == SubSeq(b.msgs, k - b.acked + 1, Len(b.msgs))
             d == k - b.acked
             l == Len(b.msgs)
  <2>1. a = [acked |-> k, msgs |-> s]
    BY <1>1, <1>3 DEF Acknowledged
  <2>2. d \in 1 .. l /\ l \in Nat
    BY <1>1, <1>3 DEF AckValid, LastSeq
  <2>3. /\ s \in Seq(MessageType) /\ Len(s) = l - d
        /\ \A i \in 1 .. l - d : s[i] = b.msgs[i + d]
    <3> DEFINE f == d + 1
    <3>1. f \in Int /\ l \in Int /\ \A i \in f .. l : b.msgs[i] \in MessageType
      BY <1>1, <2>2
    <3>2. s = SubSeq(b.msgs, f, l)
      OBVIOUS
    <3> HIDE DEF s, f, l, d
    <3>3. /\ s \in Seq(MessageType)
          /\ Len(s) = IF f <= l THEN l - f + 1 ELSE 0
          /\ \A i \in 1 .. l - f + 1 : s[i] = b.msgs[f + i - 1]
      BY <3>1, <3>2, SubSeqProperties
    <3>4. f = d + 1 /\ d \in 1 .. l /\ l \in Nat
      BY <2>2 DEF f
    <3>5. \A i \in 1 .. l - d : i \in 1 .. l - f + 1 /\ f + i - 1 = i + d
      BY <3>4
    <3>6. Len(s) = l - d
      BY <3>3, <3>4
    <3> QED BY <3>3, <3>5, <3>6
  <2> HIDE DEF s
  <2>4. a \in Batch /\ a.acked = k /\ LastSeq(a) = LastSeq(b)
    BY <1>1, <2>1, <2>2, <2>3 DEF Batch, LastSeq
  <2>5. ASSUME NEW n \in Nat, Has(a, n) PROVE Has(b, n) /\ MessageAt(a, n) = MessageAt(b, n)
    <3>1. Has(b, n)
      BY <1>1, <1>3, <2>4, <2>5 DEF Has
    <3>2. n - k \in 1 .. Len(s)
      BY <1>1, <2>1, <2>3, <2>5 DEF Has, LastSeq
    <3>3. s[n - k] = b.msgs[n - b.acked]
      <4>1. n - k + d = n - b.acked /\ n - k \in 1 .. l - d
        BY <1>1, <2>3, <3>2
      <4>2. s[n - k] = b.msgs[n - k + d]
        BY <2>3, <4>1
      <4> QED BY <4>1, <4>2
    <3> QED BY <2>1, <3>1, <3>3 DEF MessageAt
  <2> QED BY <1>1, <1>3, <2>4, <2>5
<1> QED BY <1>1, <1>2, <1>3 DEF Batch

(* The empty batch. *)
LEMMA NothingSentEffect ==
    /\ NothingSent \in Batch /\ NothingSent.acked = 0 /\ LastSeq(NothingSent) = 0
    /\ \A n \in Nat : ~Has(NothingSent, n)
<1>1. NothingSent \in Batch /\ NothingSent.acked = 0 /\ Len(NothingSent.msgs) = 0
  BY DEF NothingSent, Batch
<1> QED BY <1>1 DEF Has, LastSeq

(* The numbers of a batch are those of its messages. *)
LEMMA BatchTyped ==
    ASSUME NEW b \in Batch
    PROVE  /\ b.acked \in Nat /\ LastSeq(b) \in Nat /\ b.acked <= LastSeq(b)
           /\ \A n \in Nat : Has(b, n) => MessageAt(b, n) \in MessageType
           /\ LastSeq(b) = b.acked <=> b.msgs = <<>>
<1>1. b.acked \in Nat /\ b.msgs \in Seq(MessageType)
  BY DEF Batch
<1>2. Len(b.msgs) = 0 <=> b.msgs = <<>>
  BY <1>1
<1>3. ASSUME NEW n \in Nat, Has(b, n) PROVE MessageAt(b, n) \in MessageType
  <2>1. n - b.acked \in 1 .. Len(b.msgs)
    BY <1>1, <1>3 DEF Has, LastSeq
  <2> QED BY <1>1, <2>1 DEF MessageAt
<1> QED BY <1>1, <1>2, <1>3 DEF LastSeq

-----------------------------------------------------------------------------
(* Channel numbers and sessions are numbers. *)
LEMMA Numbers ==
    /\ Channels \subseteq Nat \ {0} /\ Sessions \subseteq Nat \ {0} /\ None = 0
    /\ None \notin Channels /\ ThisInstance \in Instances
    /\ \A o \in Channels, x \in Nat \ {0} : x < o => x \in Channels
<1>1. Cardinality(Channels) \in Nat /\ Cardinality(Sessions) \in Nat
  BY HttpAssumption, FS_CardinalityType
<1> QED BY <1>1, HttpAssumption DEF None

(* Two batches of which one has lost acknowledged messages. *)
Trimmed(a, b) ==
    /\ a.acked >= b.acked /\ LastSeq(a) = LastSeq(b)
    /\ \A n \in Nat : Has(a, n) => Has(b, n) /\ MessageAt(a, n) = MessageAt(b, n)

(* Two batches of which one has the messages ms in addition. *)
Extended(a, b, ms) ==
    /\ a.acked = b.acked /\ LastSeq(a) = LastSeq(b) + Len(ms)
    /\ \A n \in Nat : Has(b, n) => Has(a, n) /\ MessageAt(a, n) = MessageAt(b, n)
    /\ \A n \in Nat : Has(a, n) /\ ~Has(b, n) =>
         n > LastSeq(b) /\ n - LastSeq(b) \in 1 .. Len(ms) /\ MessageAt(a, n) = ms[n - LastSeq(b)]

(* acknowledgeWorker and acknowledge, for a number that was used. *)
LEMMA Trims ==
    ASSUME NEW b \in Batch, NEW k \in Nat, AckValid(b, k)
    PROVE  /\ Acknowledged(b, k) \in Batch /\ Trimmed(Acknowledged(b, k), b)
           /\ Acknowledged(b, k).acked >= k
           /\ Acknowledged(b, k).acked \in {k, b.acked}
BY AcknowledgedEffect, BatchTyped DEF Trimmed

(* Enqueuing keeps what was there and numbers the rest after it. *)
LEMMA Extends ==
    ASSUME NEW b \in Batch, NEW ms \in Seq(MessageType)
    PROVE  Enqueued(b, ms) \in Batch /\ Extended(Enqueued(b, ms), b, ms)
<1>1. LastSeq(b) \in Nat /\ Len(ms) \in Nat
  BY BatchTyped
<1> QED BY <1>1, EnqueuedEffect DEF Extended

(* The fields of a channel, a poll, a response and the link. *)
LEMMA ChannelTyped ==
    ASSUME TypeOK, NEW o \in Channels
    PROVE  /\ chan[o] \in ChannelState
           /\ chan[o].state \in {"none", "probing", "ready", "closed"}
           /\ chan[o].sid \in Nat /\ chan[o].out \in Batch /\ chan[o].seen \in Nat
           /\ chan[o].expected \subseteq Calls /\ chan[o].answered \in AnswerState
           /\ chan[o].out.acked \in Nat /\ LastSeq(chan[o].out) \in Nat
           /\ chan[o].out.acked <= LastSeq(chan[o].out)
<1>1. chan[o] \in ChannelState
  BY DEF TypeOK
<1>2. /\ chan[o].state \in {"none", "probing", "ready", "closed"}
      /\ chan[o].sid \in Sessions \cup {0} /\ chan[o].out \in Batch /\ chan[o].seen \in Nat
      /\ chan[o].expected \subseteq Calls /\ chan[o].answered \in AnswerState
  BY <1>1 DEF ChannelState
<1>3. chan[o].sid \in Nat
  <2>1. Sessions \subseteq Nat /\ 0 \in Nat
    BY Numbers
  <2> QED BY <1>2, <2>1
<1>4. /\ chan[o].out.acked \in Nat /\ LastSeq(chan[o].out) \in Nat
      /\ chan[o].out.acked <= LastSeq(chan[o].out)
  BY <1>2, BatchTyped
<1> QED BY <1>1, <1>2, <1>3, <1>4

(* The fields of a poll. *)
LEMMA PostTyped ==
    ASSUME TypeOK, NEW p \in posts
    PROVE  /\ p \in PostState /\ p.sid \in Nat /\ p.sid \in Sessions
           /\ p.token \in Channels \cup {None}
           /\ p.ack \in Nat /\ p.batch \in Batch /\ p.live \in BOOLEAN /\ p.next \in Nat
           /\ p.stage \in {"sent", "handling", "committing"}
           /\ p.wasReady \in BOOLEAN /\ p.after \in Seq(MessageType)
           /\ p.batch.acked \in Nat /\ LastSeq(p.batch) \in Nat
           /\ p.batch.acked <= LastSeq(p.batch)
BY Numbers, BatchTyped DEF TypeOK, PostState

(* The fields of the response. *)
LEMMA ReplyTyped ==
    ASSUME TypeOK
    PROVE  /\ reply.kind \in {"none", "ok", "conflict", "failed", "reading"}
           /\ reply.phase \in {"none", "probing", "ready"}
           /\ reply.token \in Channels \cup {None} /\ reply.ack \in Nat /\ reply.batch \in Batch
           /\ reply.batch.acked \in Nat /\ LastSeq(reply.batch) \in Nat
           /\ reply.batch.acked <= LastSeq(reply.batch)
BY BatchTyped DEF TypeOK, ReplyState

(* The fields of the daemon's session. *)
LEMMA LinkTyped ==
    ASSUME TypeOK
    PROVE  /\ link.token \in Channels \cup {None} /\ link.localReady \in BOOLEAN
           /\ link.ready \in BOOLEAN /\ link.out \in Batch /\ link.seen \in Nat
           /\ link.resume \in AnswerState /\ link.resume.ids \subseteq Calls
           /\ link.out.acked \in Nat /\ LastSeq(link.out) \in Nat
           /\ link.out.acked <= LastSeq(link.out)
           /\ sid \in Nat /\ sid \in Sessions
BY Numbers, BatchTyped DEF TypeOK, LinkState, AnswerState

(* What the two ends build is a message. *)
LEMMA MessagesTyped ==
    /\ HttpsReady \in MessageType /\ ReadyAck \in MessageType
    /\ \A S \in SUBSET Calls : Resume(S) \in MessageType /\ ResumeAck(S) \in MessageType
    /\ \A c \in Calls : /\ ToolCall(c) \in MessageType /\ CancelCall(c) \in MessageType
                        /\ Result(c) \in MessageType /\ ResultAck(c) \in MessageType
BY DEF HttpsReady, ReadyAck, Resume, ResumeAck, ToolCall, CancelCall, Result, ResultAck,
       MessageType

(* The initial and reset values. *)
LEMMA ValuesTyped ==
    /\ NoAnswer \in AnswerState /\ NewChannel \in ChannelState /\ NewLink \in LinkState
    /\ NoReply \in ReplyState /\ NoReply.kind = "none"
    /\ NewLink.token = None /\ NewLink.seen = 0 /\ NewLink.out = NothingSent
    /\ ~NewLink.localReady /\ ~NewLink.ready /\ NewLink.resume = NoAnswer
    /\ ~NoAnswer.known /\ NoAnswer.ids = {}
    /\ NewChannel.state = "none" /\ NewChannel.sid = 0 /\ NewChannel.out = NothingSent
    /\ NewChannel.seen = 0 /\ NewChannel.expected = {} /\ ~NewChannel.answered.known
<1>1. NothingSent \in Batch
  BY NothingSentEffect
<1>2. NoAnswer \in AnswerState
  BY DEF NoAnswer, AnswerState
<1> QED BY <1>1, <1>2 DEF NoAnswer, NewChannel, ChannelState, NewLink, LinkState, NoReply,
        ReplyState

(* A refusal is a response without a batch. *)
LEMMA RefusalTyped ==
    ASSUME NEW k \in {"conflict", "failed"}
    PROVE  Refusal(k) \in ReplyState /\ Refusal(k).kind = k
BY NothingSentEffect DEF Refusal, NoReply, ReplyState

(* What a registry operation other than dispatch may do to the records. *)
RecordsKept(R) ==
    /\ R \in [Calls -> Record]
    /\ \A c \in Calls :
         /\ \/ R[c].status = rec[c].status
            \/ rec[c].status = "pending" /\ R[c].status = "settled"
         /\ R[c].status # "settled" =>
              R[c].instance = rec[c].instance /\ R[c].outcome = rec[c].outcome

SettledBy(R, S) ==
    \A c \in Calls :
        R[c].outcome = "not_received" => c \in S \/ rec[c].outcome = "not_received"

(* What detaching, rebinding and settling do to one record. *)
LEMMA RecordOps ==
    ASSUME NEW r \in Record, NEW o \in Channels \cup {None}
    PROVE  /\ Detached(r) \in Record /\ Detached(r).status = r.status
           /\ Detached(r).owner = None /\ Detached(r).instance = r.instance
           /\ Detached(r).outcome = r.outcome
           /\ Rebound(r, o) \in Record /\ Rebound(r, o).status = r.status
           /\ Rebound(r, o).owner = o /\ Rebound(r, o).instance = r.instance
           /\ Rebound(r, o).outcome = r.outcome
           /\ \A x \in Outcomes : /\ Settled(r, x, o) \in Record
                                  /\ Settled(r, x, o).status = "settled"
                                  /\ Settled(r, x, o).outcome = x
<1>1. DeliveryGrace \in Nat /\ ReconnectGrace \in Nat \ {0}
  BY RecordsAssumption
<1>2. NoChannel \notin Channels /\ None = NoChannel
  BY RecordsAssumption DEF None
<1>3. r.age \in Nat /\ r.deadline \in Nat /\ r.original \in Nat /\ r.reDeadline \in Nat
  BY DEF Record
<1>4. PICK e \in Record : e = ExtendedForReconnect(r)
  <2>1. ExtendedForReconnect(r) \in Record
    BY <1>1 DEF ExtendedForReconnect, Larger, Record
  <2> QED BY <2>1
<1>5. e.status = r.status /\ e.instance = r.instance /\ e.outcome = r.outcome
  BY <1>4 DEF ExtendedForReconnect, Record
<1>6. Remaining(e) \in Nat /\ e.age \in Nat
  BY DEF Remaining, Record
<1>7. e.age + Smaller(ReconnectGrace, Remaining(e)) \in Nat /\ e.age + Remaining(e) \in Nat
  BY <1>1, <1>6 DEF Smaller
<1>8. /\ Detached(r) \in Record /\ Detached(r).status = r.status
      /\ Detached(r).owner = None /\ Detached(r).instance = r.instance
      /\ Detached(r).outcome = r.outcome
  BY <1>2, <1>4, <1>5, <1>7 DEF Detached, Record
<1>9. /\ Rebound(r, o) \in Record /\ Rebound(r, o).status = r.status
      /\ Rebound(r, o).owner = o /\ Rebound(r, o).instance = r.instance
      /\ Rebound(r, o).outcome = r.outcome
  <2>1. PICK d \in Nat : d = IF r.owner = NoChannel THEN 0 ELSE e.reDeadline
    BY DEF Record
  <2>2. Rebound(r, o) = [e EXCEPT !.owner = o, !.opTimer = TRUE, !.reDeadline = d,
                                  !.deadline = e.age + Remaining(e)]
    BY <1>4, <2>1 DEF Rebound
  <2> QED BY <1>2, <1>5, <1>7, <2>1, <2>2 DEF Record
<1>10. ASSUME NEW x \in Outcomes
       PROVE  /\ Settled(r, x, o) \in Record /\ Settled(r, x, o).status = "settled"
              /\ Settled(r, x, o).outcome = x
  BY <1>2 DEF Settled, NewRecord, Record
<1> QED BY <1>8, <1>9, <1>10

-----------------------------------------------------------------------------
(* The effects of the Worker's handlers. *)
daemon == <<sid, link, local, started, violation>>

(* A poll is gone, refused if somebody waits for it. *)
Refused(p) ==
    /\ posts' = posts \ {p}
    /\ IF p.live THEN reply' \in {Refusal("conflict"), Refusal("failed")} ELSE reply' = reply

(* A poll goes on. *)
Moved(p, q) ==
    /\ q \in PostState /\ posts' = (posts \ {p}) \cup {q}
    /\ q.sid = p.sid /\ q.token = p.token /\ q.ack = p.ack /\ q.batch = p.batch
    /\ q.live = p.live

(* Channel o alone changes, but for its session and what it expects. *)
ChannelStep(o, state, seen, answered) ==
    /\ chan' \in [Channels -> ChannelState]
    /\ \A x \in Channels : x # o => chan'[x] = chan[x]
    /\ chan'[o].sid = chan[o].sid /\ chan'[o].expected = chan[o].expected
    /\ chan'[o].state = state /\ chan'[o].seen = seen /\ chan'[o].answered = answered

(* The type of a message of the daemon tells its number. *)
LEMMA DaemonMessages ==
    ASSUME NEW n \in Nat \ {0}, NEW m, NEW ids, NEW runs, DaemonSays(n, m, ids, runs)
    PROVE  /\ m.type = "https_ready" => n = 1
           /\ m.type = "resume_calls_ack" => n = 2 /\ \E S \in SUBSET ids : m = ResumeAck(S)
           /\ m.type = "tool_result" => n >= 3 /\ \E c \in Calls : m = Result(c) /\ runs[c] > 0
<1>1. n = 1 \/ n = 2 \/ n >= 3
  OBVIOUS
<1>2. HttpsReady.type = "https_ready" /\ \A S : ResumeAck(S).type = "resume_calls_ack"
  BY DEF HttpsReady, ResumeAck
<1>3. \A c \in Calls : Result(c).type = "tool_result"
  BY DEF Result
<1> QED BY <1>1, <1>2, <1>3 DEF DaemonSays

(* The type of a message of the Worker tells its number. *)
LEMMA WorkerMessages ==
    ASSUME NEW n \in Nat \ {0}, NEW m, NEW ids, NEW R, WorkerSays(n, m, ids, R)
    PROVE  /\ m.type = "resume_calls" => n = 1 /\ m = Resume(ids)
           /\ m.type = "ready_ack" => n = 2
           /\ m.type = "tool_call" =>
                n >= 3 /\ \E c \in Calls : m = ToolCall(c) /\ R[c].status # "new"
           /\ m.type = "cancel_call" =>
                n >= 3 /\ \E c \in Calls : m = CancelCall(c) /\ R[c].status = "settled"
           /\ m.type = "tool_result_ack" =>
                n >= 3 /\ \E c \in Calls : m = ResultAck(c) /\ R[c].status = "settled"
<1>1. n = 1 \/ n = 2 \/ n >= 3
  OBVIOUS
<1>2. ReadyAck.type = "ready_ack" /\ \A S : Resume(S).type = "resume_calls"
  BY DEF ReadyAck, Resume
<1>3. \A c \in Calls : /\ ToolCall(c).type = "tool_call" /\ CancelCall(c).type = "cancel_call"
                       /\ ResultAck(c).type = "tool_result_ack"
  BY DEF ToolCall, CancelCall, ResultAck
<1> QED BY <1>1, <1>2, <1>3 DEF WorkerSays

(* A poll being handled is one of a channel that was opened. *)
LEMMA Handled ==
    ASSUME IInv, NEW p \in posts, p.stage # "sent"
    PROVE  /\ p.token \in Channels /\ Opened(p.token) /\ p.next \in Nat \ {0}
           /\ Open(p.token) <=> chan[p.token].state \in {"probing", "ready"}
           /\ ~Open(p.token) => chan[p.token].state = "closed"
                                /\ chan[p.token].out = NothingSent
<1>1. p.token \in Channels /\ Opened(p.token)
  BY PostTyped DEF IInv, Tokens
<1>2. chan[p.token].state \in {"none", "probing", "ready", "closed"}
  BY <1>1, ChannelTyped DEF IInv
<1>3. p.batch.acked \in Nat /\ p.next \in Nat /\ p.batch.acked < p.next
  BY PostTyped DEF IInv, StageShape, Staged
<1>4. p.next \in Nat \ {0}
  BY <1>3
<1>5. Open(p.token) <=> chan[p.token].state \in {"probing", "ready"}
  BY <1>1, Numbers DEF Open
<1>6. chan[p.token].state = "closed" => chan[p.token].out = NothingSent
  BY <1>1 DEF IInv, ChannelShape
<1> QED BY <1>1, <1>2, <1>4, <1>5, <1>6 DEF Opened

(* The message a handler takes is the next the channel accepts. *)
LEMMA HandlesNext ==
    ASSUME IInv, NEW p \in posts, NEW type, Handles(p, type)
    PROVE  /\ p.stage = "handling" /\ Message(p).type = type
           /\ Has(p.batch, p.next) /\ p.next = chan[p.token].seen + 1
           /\ DaemonSays(p.next, Message(p), chan[p.token].expected, started)
           /\ Message(p) = MessageAt(p.batch, p.next)
<1>1. p.stage = "handling" /\ p.token \in Channels /\ p.next \in Nat \ {0}
  BY Handled DEF Handles
<1>2. p.batch.acked < p.next
  BY <1>1 DEF IInv, StageShape, Staged
<1>3. p.next = chan[p.token].seen + 1
  <2>1. chan[p.token].seen \in Nat
    BY <1>1, ChannelTyped DEF IInv
  <2> QED BY <2>1 DEF Handles, Classify
<1>4. Has(p.batch, p.next)
  BY <1>2 DEF Handles, Has
<1>5. DaemonStream(p.batch, chan[p.token].expected, started)
  BY <1>1, Numbers DEF IInv, DaemonStreams
<1> QED BY <1>1, <1>3, <1>4, <1>5 DEF DaemonStream, Handles, Message

(* Losing a poll keeps the types. *)
LEMMA RefusedTyped ==
    ASSUME TypeOK, NEW p \in posts, Refused(p), UNCHANGED <<rec, chan, daemon, faults>>
    PROVE  TypeOK'
<1>1. posts' \subseteq PostState /\ reply' \in ReplyState
  BY RefusalTyped DEF TypeOK, Refused
<1> QED BY <1>1 DEF TypeOK, daemon

(* Invalidating a channel that is closed changes nothing of it. *)
LEMMA InvalidateEffect ==
    ASSUME IInv, NEW p \in posts, p.stage # "sent", ~Open(p.token), Invalidate(p)
    PROVE  Refused(p) /\ UNCHANGED <<rec, chan, daemon, faults>>
<1>1. p.token \in Channels /\ chan[p.token].state = "closed" /\ chan[p.token].out = NothingSent
  BY Handled
<1>2. rec' = [c \in Calls |-> rec[c]] /\ rec \in [Calls -> Record]
  BY DEF IInv, TypeOK, Invalidate, CallsAfterLoss
<1>3. [chan[p.token] EXCEPT !.state = "closed", !.out = NothingSent] = chan[p.token]
  BY <1>1, ChannelTyped DEF IInv, ChannelState
<1>4. chan' = [o \in Channels |-> chan[o]] /\ chan \in [Channels -> ChannelState]
  BY <1>3 DEF IInv, TypeOK, Invalidate, ClosedChannels
<1>5. violation' = violation
  BY DEF Invalidate, IInv, TypeOK
<1> QED BY <1>2, <1>4, <1>5 DEF Invalidate, Refused, Replied, daemon

(* What Refuse does. *)
LEMMA Refuse_Effect ==
    ASSUME IInv, NEW p \in posts, Refuse(p)
    PROVE  TypeOK' /\ Refused(p) /\ UNCHANGED <<rec, chan, daemon, faults>>
<1>1. Refused(p) /\ UNCHANGED <<rec, chan, daemon, faults>>
  BY DEF Refuse, Refused, Replied, daemon
<1> QED BY <1>1, RefusedTyped DEF IInv

(* A poll that moves on keeps the types. *)
LEMMA MovedTyped ==
    ASSUME TypeOK, NEW p \in posts, NEW q, Moved(p, q), rec' \in [Calls -> Record],
           chan' \in [Channels -> ChannelState], UNCHANGED <<reply, daemon, faults>>
    PROVE  TypeOK'
<1>1. posts' \subseteq PostState
  BY DEF TypeOK, Moved
<1> QED BY <1>1 DEF TypeOK, daemon

(* What Begin does: the acknowledgement is applied. *)
LEMMA Begin_Effect ==
    ASSUME IInv, NEW p \in posts, Begin(p)
    PROVE  /\ TypeOK' /\ UNCHANGED <<rec, reply, daemon, faults>>
           /\ p.token \in Channels /\ Open(p.token) /\ p.stage = "sent"
           /\ \E q : /\ Moved(p, q) /\ q.stage = "handling" /\ q.next = p.batch.acked + 1
                     /\ q.wasReady = (chan[p.token].state = "ready") /\ q.after = p.after
           /\ ChannelStep(p.token, chan[p.token].state, chan[p.token].seen,
                          chan[p.token].answered)
           /\ Trimmed(chan'[p.token].out, chan[p.token].out)
           /\ chan'[p.token].out.acked >= p.ack
           /\ chan'[p.token].out.acked \in {p.ack, chan[p.token].out.acked}
<1> DEFINE t == p.token
<1>1. t \in Channels /\ Open(t) /\ p.stage = "sent"
  BY PostTyped DEF IInv, Begin, Open
<1>2. PICK out \in Batch : out = Acknowledged(chan[t].out, p.ack)
  BY <1>1, ChannelTyped, PostTyped, Trims DEF IInv, Begin
<1>3. Trimmed(out, chan[t].out) /\ out.acked >= p.ack /\ out.acked \in {p.ack, chan[t].out.acked}
  BY <1>1, <1>2, ChannelTyped, PostTyped, Trims DEF IInv, Begin
<1>4. chan' = [chan EXCEPT ![t].out = out]
  BY <1>2 DEF Begin
<1>5. chan \in [Channels -> ChannelState]
  BY DEF IInv, TypeOK
<1>6. /\ ChannelStep(t, chan[t].state, chan[t].seen, chan[t].answered)
      /\ chan'[t].out = out
  BY <1>1, <1>2, <1>4, <1>5 DEF ChannelStep, ChannelState
<1>7. PICK w \in BOOLEAN : w = (chan[t].state = "ready")
  OBVIOUS
<1>8. PICK q : /\ q = [p EXCEPT !.stage = "handling", !.next = p.batch.acked + 1, !.wasReady = w]
               /\ posts' = (posts \ {p}) \cup {q}
  BY <1>7 DEF Begin
<1>9. /\ Moved(p, q) /\ q.stage = "handling" /\ q.next = p.batch.acked + 1
      /\ q.wasReady = w /\ q.after = p.after
  <2>1. p \in PostState /\ p.batch.acked + 1 \in Nat
    BY PostTyped DEF IInv
  <2> QED BY <1>8, <2>1 DEF Moved, PostState
<1>10. UNCHANGED <<rec, reply, daemon, faults>>
  BY DEF Begin, daemon
<1>11. TypeOK'
  <2>1. rec' \in [Calls -> Record] /\ chan' \in [Channels -> ChannelState]
    BY <1>6, <1>10 DEF IInv, TypeOK, ChannelStep
  <2> QED BY <1>9, <1>10, <2>1, MovedTyped DEF IInv
<1> QED BY <1>1, <1>3, <1>6, <1>7, <1>9, <1>10, <1>11

(* What OutOfOrder does: no gap occurs, a duplicate is skipped. *)
LEMMA OutOfOrder_Effect ==
    ASSUME IInv, NEW p \in posts, OutOfOrder(p)
    PROVE  /\ TypeOK' /\ UNCHANGED <<rec, chan, reply, daemon, faults>>
           /\ p.stage = "handling" /\ p.next <= chan[p.token].seen
           /\ \E q : /\ Moved(p, q) /\ q.stage = "handling" /\ q.next = p.next + 1
                     /\ q.wasReady = p.wasReady /\ q.after = p.after
<1>1. p.stage = "handling" /\ p.token \in Channels /\ p.next \in Nat
  BY Handled DEF OutOfOrder
<1>2. chan[p.token].seen \in Nat /\ p.next <= chan[p.token].seen + 1
  BY <1>1, ChannelTyped DEF IInv, StageShape, Staged
<1>3. /\ Classify(chan[p.token].seen, p.next) = "duplicate" /\ p.next <= chan[p.token].seen
  BY <1>1, <1>2 DEF OutOfOrder, Classify
<1>4. PICK q : /\ q = [p EXCEPT !.next = @ + 1] /\ posts' = (posts \ {p}) \cup {q}
               /\ UNCHANGED <<rec, chan, reply, daemon, faults>>
  BY <1>3 DEF OutOfOrder, daemon
<1>5. /\ Moved(p, q) /\ q.stage = "handling" /\ q.next = p.next + 1
      /\ q.wasReady = p.wasReady /\ q.after = p.after
  <2>1. p \in PostState /\ p.next + 1 \in Nat
    BY PostTyped DEF IInv
  <2> QED BY <1>1, <1>4, <2>1 DEF Moved, PostState
<1>6. TypeOK'
  BY <1>4, <1>5, MovedTyped DEF IInv, TypeOK
<1> QED BY <1>1, <1>3, <1>4, <1>5, <1>6

(* What Ready does: the channel opens for calls, or the handler outlived     *)
(* it.                                                                       *)
LEMMA Ready_Effect ==
    ASSUME IInv, NEW p \in posts, Ready(p)
    PROVE  /\ TypeOK'
           /\ \/ Refused(p) /\ UNCHANGED <<rec, chan, daemon, faults>>
              \/ /\ UNCHANGED <<rec, reply, daemon, faults>>
                 /\ p.token \in Channels /\ chan[p.token].state = "probing"
                 /\ chan[p.token].out.acked = 2 /\ p.next = 1 /\ p.stage = "handling"
                 /\ LastSeq(p.batch) >= 1
                 /\ \E q : /\ Moved(p, q) /\ q.stage = "handling" /\ q.next = 2
                           /\ q.wasReady = p.wasReady /\ q.after = p.after
                 /\ ChannelStep(p.token, "ready", 1, chan[p.token].answered)
                 /\ chan'[p.token].out = chan[p.token].out
<1> DEFINE t == p.token
<1>1. p.stage = "handling" /\ t \in Channels /\ Opened(t)
  BY Handled DEF Ready, Handles
<1>2. p.next = 1 /\ chan[t].seen = 0 /\ LastSeq(p.batch) >= 1
  <2>1. /\ Message(p).type = "https_ready" /\ p.next = chan[t].seen + 1 /\ p.next \in Nat \ {0}
        /\ DaemonSays(p.next, Message(p), chan[t].expected, started) /\ Has(p.batch, p.next)
    BY <1>1, Handled, HandlesNext DEF Ready
  <2>2. chan[t].seen \in Nat /\ p.next = 1
    BY <1>1, <2>1, DaemonMessages, ChannelTyped DEF IInv
  <2> QED BY <2>1, <2>2 DEF Has
<1>3. ~p.wasReady
  <2>1. p.wasReady => chan[t].seen >= 1
    BY <1>1 DEF IInv, StageShape, Staged
  <2> QED BY <1>2, <2>1
<1>4. CASE ~Open(t)
  <2>1. Refused(p) /\ UNCHANGED <<rec, chan, daemon, faults>>
    <3>1. CASE Invalidate(p)
      BY <1>1, <1>4, <3>1, InvalidateEffect
    <3>2. CASE ~Invalidate(p)
      BY <1>3, <1>4, <3>2 DEF Ready, Refused, Replied, daemon
    <3> QED BY <3>1, <3>2
  <2> QED BY <2>1, RefusedTyped DEF IInv
<1>5. CASE Open(t)
  <2>1. chan[t].state = "probing"
    <3>1. chan[t].state = "ready" => chan[t].seen >= 1
      BY <1>1 DEF IInv, ChannelShape
    <3> QED BY <1>2, <1>5, <3>1 DEF Open
  <2>2. chan[t].out.acked >= 2 /\ LastSeq(chan[t].out) = 2
    BY <1>1, <1>2, <1>5, <2>1 DEF IInv, StageShape, Staged, ChannelShape
  <2>3. chan[t].out.acked = 2 /\ chan[t].out.msgs = <<>>
    <3>1. chan[t].out \in Batch /\ chan[t].out.acked \in Nat /\ chan[t].out.acked <= LastSeq(chan[t].out)
      BY <1>1, ChannelTyped DEF IInv
    <3>2. chan[t].out.acked = 2
      BY <2>2, <3>1
    <3> QED BY <2>2, <3>1, <3>2, BatchTyped
  <2>4. /\ chan' = [chan EXCEPT ![t].state = "ready", ![t].seen = p.next]
        /\ posts' = (posts \ {p}) \cup {[p EXCEPT !.next = @ + 1]}
        /\ UNCHANGED <<rec, reply, daemon, faults>>
    BY <1>3, <1>5, <2>3 DEF Ready, ControlsAcknowledged, daemon
  <2>5. ChannelStep(t, "ready", 1, chan[t].answered) /\ chan'[t].out = chan[t].out
    BY <1>1, <1>2, <2>4 DEF IInv, TypeOK, ChannelStep, ChannelState
  <2>6. PICK q : q = [p EXCEPT !.next = 2] /\ posts' = (posts \ {p}) \cup {q}
    <3>1. p.next + 1 = 2
      BY <1>2
    <3> QED BY <2>4, <3>1
  <2>7. /\ Moved(p, q) /\ q.stage = "handling" /\ q.next = 2
        /\ q.wasReady = p.wasReady /\ q.after = p.after
    <3>1. p \in PostState
      BY PostTyped DEF IInv
    <3> QED BY <1>1, <2>6, <3>1 DEF Moved, PostState
  <2>8. TypeOK'
    BY <2>4, <2>5, <2>7, MovedTyped DEF IInv, TypeOK, ChannelStep
  <2> QED BY <1>1, <1>2, <2>1, <2>3, <2>4, <2>5, <2>7, <2>8
<1> QED BY <1>4, <1>5

(* trySendDaemonChannel *)
LEMMA Sends ==
    ASSUME NEW channels \in [Channels -> ChannelState], NEW o \in Channels,
           NEW ms \in Seq(MessageType)
    PROVE  /\ TrySend(channels, o, ms) \in [Channels -> ChannelState]
           /\ \A x \in Channels : x # o => TrySend(channels, o, ms)[x] = channels[x]
           /\ TrySend(channels, o, ms)[o].sid = channels[o].sid
           /\ TrySend(channels, o, ms)[o].state = channels[o].state
           /\ TrySend(channels, o, ms)[o].seen = channels[o].seen
           /\ TrySend(channels, o, ms)[o].expected = channels[o].expected
           /\ TrySend(channels, o, ms)[o].answered = channels[o].answered
           /\ channels[o].state = "ready" =>
                Extended(TrySend(channels, o, ms)[o].out, channels[o].out, ms)
           /\ channels[o].state # "ready" => TrySend(channels, o, ms) = channels
<1>1. channels[o].out \in Batch
  BY DEF ChannelState
<1>2. PICK out \in Batch : out = Enqueued(channels[o].out, ms)
  BY <1>1, Extends
<1>3. Extended(out, channels[o].out, ms)
  BY <1>1, <1>2, Extends
<1>4. CASE channels[o].state = "ready"
  <2>1. TrySend(channels, o, ms) = [channels EXCEPT ![o].out = out]
    BY <1>2, <1>4, Numbers DEF TrySend
  <2> DEFINE r == [channels[o] EXCEPT !.out = out]
  <2>2. /\ r \in ChannelState /\ r.sid = channels[o].sid /\ r.state = channels[o].state
        /\ r.seen = channels[o].seen /\ r.expected = channels[o].expected
        /\ r.answered = channels[o].answered /\ r.out = out
    <3>1. channels[o] \in ChannelState
      OBVIOUS
    <3> QED BY <3>1 DEF ChannelState
  <2>3. TrySend(channels, o, ms) = [channels EXCEPT ![o] = r]
    BY <2>1
  <2> HIDE DEF r
  <2>4. /\ TrySend(channels, o, ms) \in [Channels -> ChannelState]
        /\ TrySend(channels, o, ms)[o] = r
        /\ \A x \in Channels : x # o => TrySend(channels, o, ms)[x] = channels[x]
    BY <2>2, <2>3
  <2> QED BY <1>3, <1>4, <2>2, <2>4
<1>5. CASE channels[o].state # "ready"
  BY <1>5 DEF TrySend
<1> QED BY <1>4, <1>5

(* A call that stays pending keeps its owner. *)
OwnersKept(R) == \A c \in Calls : R[c].status = "pending" => R[c].owner = rec[c].owner

(* What TakeResult does: a call is settled or the result is stale. *)
LEMMA TakeResult_Effect ==
    ASSUME IInv, NEW p \in posts, TakeResult(p)
    PROVE  /\ TypeOK' /\ UNCHANGED <<chan, reply, daemon, faults>>
           /\ RecordsKept(rec') /\ SettledBy(rec', {}) /\ OwnersKept(rec')
           /\ p.stage = "handling" /\ 3 <= p.next /\ p.next <= LastSeq(p.batch)
           /\ \E q : /\ Moved(p, q) /\ q.stage = "committing" /\ q.next = p.next
                     /\ q.wasReady = p.wasReady
                     /\ \/ q.after = <<>>
                        \/ \E c \in Calls : q.after = <<ResultAck(c)>> /\ rec'[c].status = "settled"
<1> DEFINE t == p.token
<1>1. p.stage = "handling" /\ t \in Channels /\ Handles(p, "tool_result")
  BY Handled DEF TakeResult, Handles
<1>2. PICK c \in Calls : Message(p) = Result(c) /\ started[c] > 0
  BY <1>1, Handled, HandlesNext, DaemonMessages
<1>3. 3 <= p.next /\ p.next <= LastSeq(p.batch)
  BY <1>1, Handled, HandlesNext, DaemonMessages DEF Has
<1>4. Message(p).id = c
  BY <1>2 DEF Result
<1>5. rec \in [Calls -> Record] /\ rec' = Answer(rec, c, t)
  BY <1>4 DEF IInv, TypeOK, TakeResult
<1>6. PICK s \in Record : s = Settled(rec[c], "answered", t) /\ s.status = "settled" /\ s.outcome = "answered"
  <2>1. rec[c] \in Record /\ "answered" \in Outcomes /\ t \in Channels \cup {None}
    BY <1>1, <1>5 DEF Outcomes
  <2>2. /\ Settled(rec[c], "answered", t) \in Record
        /\ Settled(rec[c], "answered", t).status = "settled"
        /\ Settled(rec[c], "answered", t).outcome = "answered"
    BY <2>1, RecordOps, ZenonT(60)
  <2> QED BY <2>2
<1>7. rec[c].status \in {"pending", "settled"}
  <2>1. rec[c].status \in {"new", "pending", "settled"}
    BY <1>5 DEF Record
  <2> QED BY <1>2, <2>1 DEF IInv, RunsOK
<1>8. /\ rec' \in [Calls -> Record] /\ \A d \in Calls : d # c => rec'[d] = rec[d]
      /\ \/ rec'[c] = rec[c]
         \/ rec[c].status = "pending" /\ rec'[c] = s
      /\ ResultOwnership(rec, c, t) # "stale" => rec'[c].status = "settled"
  BY <1>5, <1>6, <1>7 DEF Answer, ResultOwnership, Pending
<1>9. RecordsKept(rec') /\ SettledBy(rec', {}) /\ OwnersKept(rec')
  BY <1>6, <1>8 DEF RecordsKept, SettledBy, OwnersKept
<1>10. PICK after \in Seq(MessageType) :
          /\ after = Acknowledgement(c, t)
          /\ \/ after = <<>>
             \/ after = <<ResultAck(c)>> /\ rec'[c].status = "settled"
  <2>1. /\ Acknowledgement(c, t) \in {<<>>, <<ResultAck(c)>>}
        /\ Acknowledgement(c, t) # <<>> => rec'[c].status = "settled"
    BY <1>8 DEF Acknowledgement
  <2>2. <<>> \in Seq(MessageType) /\ <<ResultAck(c)>> \in Seq(MessageType)
    BY MessagesTyped
  <2> QED BY <2>1, <2>2
<1>11. PICK q : /\ q = [p EXCEPT !.stage = "committing", !.after = after]
                /\ posts' = (posts \ {p}) \cup {q}
  BY <1>4, <1>10 DEF TakeResult
<1>12. /\ Moved(p, q) /\ q.stage = "committing" /\ q.next = p.next
       /\ q.wasReady = p.wasReady /\ q.after = after
  <2>1. p \in PostState
    BY PostTyped DEF IInv
  <2> QED BY <1>11, <2>1 DEF Moved, PostState
<1>13. UNCHANGED <<chan, reply, daemon, faults>>
  BY DEF TakeResult, daemon
<1>14. TypeOK'
  BY <1>8, <1>12, <1>13, MovedTyped DEF IInv, TypeOK
<1> QED BY <1>1, <1>3, <1>9, <1>10, <1>12, <1>13, <1>14

(* An order of a set lists its members once each. *)
LEMMA OrdersTyped ==
    ASSUME NEW S \in SUBSET Calls, NEW q \in Orders(S)
    PROVE  /\ q \in Seq(Calls) /\ \A i \in 1 .. Len(q) : q[i] \in S
           /\ \A i, j \in 1 .. Len(q) : q[i] = q[j] => i = j
<1>1. Cardinality(S) \in Nat
  BY HttpAssumption, FS_Subset, FS_CardinalityType
<1>2. q \in [1 .. Cardinality(S) -> S] /\ \A i, j \in DOMAIN q : q[i] = q[j] => i = j
  BY DEF Orders
<1>3. q \in Seq(Calls) /\ Len(q) = Cardinality(S)
  BY <1>1, <1>2
<1> QED BY <1>2, <1>3

(* What TakeResumeAck does: the report is accepted, the missing calls are    *)
(* sent again or rejected, or the channel is closed.                         *)
LEMMA TakeResumeAck_Effect ==
    ASSUME IInv, NEW p \in posts, TakeResumeAck(p)
    PROVE  /\ TypeOK'
           /\ \/ Refused(p) /\ UNCHANGED <<rec, chan, daemon, faults>>
              \/ /\ UNCHANGED <<reply, daemon, faults>>
                 /\ p.token \in Channels /\ chan[p.token].state = "ready"
                 /\ p.next = 2 /\ chan[p.token].seen = 1 /\ p.stage = "handling"
                 /\ Has(p.batch, 2)
                 /\ \E q : /\ Moved(p, q) /\ q.stage = "committing" /\ q.next = 2
                           /\ q.wasReady = p.wasReady /\ q.after = p.after
                 /\ \E S \in SUBSET chan[p.token].expected, missing \in SUBSET Calls,
                       again \in Seq(Calls) :
                      /\ MessageAt(p.batch, 2) = ResumeAck(S) /\ missing \subseteq S
                      /\ chan[p.token].answered.known => missing = {}
                      /\ \A c \in missing : rec[c].status = "pending"
                      /\ RecordsKept(rec') /\ SettledBy(rec', missing) /\ OwnersKept(rec')
                      /\ \A i \in 1 .. Len(again) :
                            again[i] \in missing /\ rec'[again[i]].status = "pending"
                      /\ \A i, j \in 1 .. Len(again) : again[i] = again[j] => i = j
                      /\ ChannelStep(p.token, "ready", 1, [known |-> TRUE, ids |-> S])
                      /\ Extended(chan'[p.token].out, chan[p.token].out,
                                  [i \in 1 .. Len(again) |-> ToolCall(again[i])])
<1> DEFINE t == p.token
<1>1. p.stage = "handling" /\ t \in Channels /\ Handles(p, "resume_calls_ack")
  BY Handled DEF TakeResumeAck, Handles
<1>2. PICK S \in SUBSET chan[t].expected : Message(p) = ResumeAck(S)
  BY <1>1, Handled, HandlesNext, DaemonMessages
<1>3. p.next = 2 /\ chan[t].seen = 1 /\ Has(p.batch, 2) /\ MessageAt(p.batch, 2) = ResumeAck(S)
  <2>1. p.next = 2 /\ p.next = chan[t].seen + 1 /\ Has(p.batch, p.next)
    BY <1>1, Handled, HandlesNext, DaemonMessages
  <2>2. chan[t].seen \in Nat /\ Message(p) = MessageAt(p.batch, p.next)
    BY <1>1, HandlesNext, ChannelTyped DEF IInv
  <2> QED BY <1>2, <2>1, <2>2
<1>4. Message(p).ids = S
  BY <1>2 DEF ResumeAck
<1>5. CASE ~Open(t)
  <2>1. Invalidate(p)
    <3>1. chan[t].state # "ready"
      BY <1>5, Numbers, <1>1 DEF Open
    <3> QED BY <3>1 DEF TakeResumeAck
  <2>2. Refused(p) /\ UNCHANGED <<rec, chan, daemon, faults>>
    BY <1>1, <1>5, <2>1, InvalidateEffect
  <2> QED BY <2>2, RefusedTyped DEF IInv
<1>6. CASE Open(t)
  <2>1. chan[t].state = "ready"
    BY <1>1, <1>3, <1>6 DEF Open, IInv, ChannelShape
  <2>2. chan[t].answered.known => chan[t].answered.ids = S
    <3>1. chan[t].answered.known => MessageAt(p.batch, 2) = ResumeAck(chan[t].answered.ids)
      BY <1>1, <1>3, Numbers DEF IInv, OneReport
    <3> QED BY <1>3, <3>1 DEF ResumeAck
  <2> DEFINE first == ~chan[t].answered.known
             owned == IF first THEN S \cap OwnedBy(rec, t) ELSE {}
             fresh == {c \in owned : rec[c].redelivered = None}
             ans   == [known |-> TRUE, ids |-> S]
             tools(again) == [i \in DOMAIN again |-> ToolCall(again[i])]
  <2>3. PICK spent \in SUBSET fresh : \E again \in Orders(fresh \ spent) :
          /\ rec' = [c \in Calls |->
                       IF c \in fresh \ spent THEN [rec[c] EXCEPT !.redelivered = t]
                       ELSE IF c \in spent \/ (c \in owned /\ rec[c].redelivered # t)
                       THEN Settled(rec[c], "not_received", None)
                       ELSE rec[c]]
          /\ chan' = TrySend([chan EXCEPT ![t].answered = ans], t, tools(again))
          /\ posts' = (posts \ {p}) \cup {[p EXCEPT !.stage = "committing"]}
          /\ UNCHANGED <<reply, sid, link, local, started, violation, faults>>
    BY <1>4, <2>1, <2>2, ZenonT(60) DEF TakeResumeAck
  <2>30. PICK again \in Orders(fresh \ spent) :
          /\ rec' = [c \in Calls |->
                       IF c \in fresh \ spent THEN [rec[c] EXCEPT !.redelivered = t]
                       ELSE IF c \in spent \/ (c \in owned /\ rec[c].redelivered # t)
                       THEN Settled(rec[c], "not_received", None)
                       ELSE rec[c]]
          /\ chan' = TrySend([chan EXCEPT ![t].answered = ans], t, tools(again))
          /\ posts' = (posts \ {p}) \cup {[p EXCEPT !.stage = "committing"]}
          /\ UNCHANGED <<reply, sid, link, local, started, violation, faults>>
    BY <2>3
  <2>4. rec \in [Calls -> Record] /\ chan \in [Channels -> ChannelState]
    BY DEF IInv, TypeOK
  <2>5. /\ owned \subseteq S /\ fresh \subseteq owned /\ owned \subseteq Calls
        /\ chan[t].answered.known => owned = {}
        /\ \A c \in owned : rec[c].status = "pending"
    BY DEF OwnedBy, Pending
  <2> HIDE DEF owned, fresh
  <2>6. ASSUME NEW c \in Calls
        PROVE  /\ rec'[c] \in Record
               /\ \/ rec'[c].status = rec[c].status
                  \/ rec[c].status = "pending" /\ rec'[c].status = "settled"
               /\ rec'[c].status # "settled" =>
                    /\ rec'[c].instance = rec[c].instance /\ rec'[c].outcome = rec[c].outcome
                    /\ rec'[c].owner = rec[c].owner
               /\ rec'[c].outcome = "not_received" =>
                    c \in owned \/ rec[c].outcome = "not_received"
               /\ c \in fresh \ spent => rec'[c].status = "pending"
    <3>1. rec[c] \in Record
      BY <2>4
    <3>2. CASE c \in fresh \ spent
      <4>1. rec'[c] = [rec[c] EXCEPT !.redelivered = t] /\ rec[c].status = "pending"
        BY <2>30, <2>5, <3>2
      <4> QED BY <1>1, <2>5, <3>1, <3>2, <4>1 DEF Record
    <3>3. CASE c \notin fresh \ spent /\ (c \in spent \/ (c \in owned /\ rec[c].redelivered # t))
      <4>1. rec'[c] = Settled(rec[c], "not_received", None) /\ c \in owned /\ rec[c].status = "pending"
        BY <2>30, <2>5, <3>3
      <4>2. "not_received" \in Outcomes /\ None \in Channels \cup {None}
        BY DEF Outcomes, Failures
      <4>3. rec'[c] \in Record /\ rec'[c].status = "settled"
        BY <3>1, <4>1, <4>2, RecordOps
      <4> QED BY <3>3, <4>1, <4>3
    <3>4. CASE c \notin fresh \ spent /\ ~(c \in spent \/ (c \in owned /\ rec[c].redelivered # t))
      BY <2>30, <3>1, <3>4
    <3> QED BY <3>2, <3>3, <3>4
  <2>7. /\ RecordsKept(rec') /\ SettledBy(rec', owned) /\ OwnersKept(rec')
    <3>1. DOMAIN rec' = Calls /\ rec' = [c \in Calls |-> rec'[c]]
      BY <2>30
    <3> QED BY <2>6, <3>1 DEF RecordsKept, SettledBy, OwnersKept
  <2>8. /\ again \in Seq(Calls) /\ \A i \in 1 .. Len(again) : again[i] \in fresh \ spent
        /\ \A i, j \in 1 .. Len(again) : again[i] = again[j] => i = j
    <3>1. fresh \ spent \in SUBSET Calls
      BY <2>5
    <3> QED BY <3>1, OrdersTyped
  <2>9. /\ tools(again) = [i \in 1 .. Len(again) |-> ToolCall(again[i])]
        /\ tools(again) \in Seq(MessageType)
    <3>1. DOMAIN again = 1 .. Len(again) /\ Len(again) \in Nat
      BY <2>8
    <3>2. \A i \in 1 .. Len(again) : ToolCall(again[i]) \in MessageType
      BY <2>8, MessagesTyped
    <3> QED BY <3>1, <3>2
  <2>10. PICK ch \in [Channels -> ChannelState] :
           /\ ch = [chan EXCEPT ![t].answered = ans]
           /\ \A x \in Channels : x # t => ch[x] = chan[x]
           /\ ch[t].sid = chan[t].sid /\ ch[t].state = "ready" /\ ch[t].seen = 1
           /\ ch[t].expected = chan[t].expected /\ ch[t].answered = ans
           /\ ch[t].out = chan[t].out
    <3>1. ans \in AnswerState
      <4>1. S \in SUBSET Calls
        BY <1>1, ChannelTyped DEF IInv
      <4> QED BY <4>1 DEF AnswerState
    <3> HIDE DEF ans
    <3> DEFINE ch == [chan EXCEPT ![t].answered = ans]
    <3>2. ch \in [Channels -> ChannelState]
      BY <1>1, <2>4, <3>1 DEF ChannelState
    <3>3. /\ \A x \in Channels : x # t => ch[x] = chan[x]
          /\ ch[t].sid = chan[t].sid /\ ch[t].state = "ready" /\ ch[t].seen = 1
          /\ ch[t].expected = chan[t].expected /\ ch[t].answered = ans
          /\ ch[t].out = chan[t].out
      BY <1>1, <1>3, <2>1, <2>4, <3>1 DEF ChannelState
    <3> QED BY <3>2, <3>3
  <2>11. /\ ChannelStep(t, "ready", 1, ans)
         /\ Extended(chan'[t].out, chan[t].out, [i \in 1 .. Len(again) |-> ToolCall(again[i])])
    <3>1. chan' = TrySend(ch, t, tools(again))
      BY <2>30, <2>10
    <3> HIDE DEF tools, ans
    <3> DEFINE ms == tools(again)
    <3>2. ms \in Seq(MessageType) /\ ms = [i \in 1 .. Len(again) |-> ToolCall(again[i])]
          /\ chan' = TrySend(ch, t, ms)
      BY <2>9, <3>1
    <3> HIDE DEF ms
    <3>25. ch \in [Channels -> ChannelState] /\ ch[t].state = "ready" /\ t \in Channels
      BY <1>1, <2>10
    <3>3. /\ chan' \in [Channels -> ChannelState]
          /\ \A x \in Channels : x # t => chan'[x] = ch[x]
          /\ chan'[t].sid = ch[t].sid /\ chan'[t].state = ch[t].state
          /\ chan'[t].seen = ch[t].seen /\ chan'[t].expected = ch[t].expected
          /\ chan'[t].answered = ch[t].answered
          /\ Extended(chan'[t].out, ch[t].out, ms)
      BY <3>2, <3>25, Sends
    <3> QED BY <2>10, <3>2, <3>3 DEF ChannelStep
  <2>12. PICK q : q = [p EXCEPT !.stage = "committing"] /\ posts' = (posts \ {p}) \cup {q}
    BY <2>30
  <2>13. /\ Moved(p, q) /\ q.stage = "committing" /\ q.next = 2
         /\ q.wasReady = p.wasReady /\ q.after = p.after
    <3>1. p \in PostState
      BY PostTyped DEF IInv
    <3> QED BY <1>3, <2>12, <3>1 DEF Moved, PostState
  <2>14. UNCHANGED <<reply, daemon, faults>>
    BY <2>30 DEF daemon
  <2>15. TypeOK'
    BY <2>7, <2>11, <2>13, <2>14, MovedTyped DEF IInv, RecordsKept, ChannelStep
  <2>16. /\ \A i \in 1 .. Len(again) : again[i] \in owned /\ rec'[again[i]].status = "pending"
         /\ owned \in SUBSET Calls
    BY <2>5, <2>6, <2>8
  <2> HIDE DEF ans, first
  <2>17. /\ MessageAt(p.batch, 2) = ResumeAck(S) /\ owned \subseteq S
         /\ chan[t].answered.known => owned = {}
         /\ \A c \in owned : rec[c].status = "pending"
         /\ RecordsKept(rec') /\ SettledBy(rec', owned) /\ OwnersKept(rec')
         /\ \A i \in 1 .. Len(again) : again[i] \in owned /\ rec'[again[i]].status = "pending"
         /\ \A i, j \in 1 .. Len(again) : again[i] = again[j] => i = j
         /\ ChannelStep(t, "ready", 1, [known |-> TRUE, ids |-> S])
         /\ Extended(chan'[t].out, chan[t].out, [i \in 1 .. Len(again) |-> ToolCall(again[i])])
    BY <1>3, <2>5, <2>7, <2>8, <2>11, <2>16 DEF ans
  <2>18. /\ UNCHANGED <<reply, daemon, faults>>
         /\ t \in Channels /\ chan[t].state = "ready"
         /\ p.next = 2 /\ chan[t].seen = 1 /\ p.stage = "handling" /\ Has(p.batch, 2)
         /\ \E x : /\ Moved(p, x) /\ x.stage = "committing" /\ x.next = 2
                   /\ x.wasReady = p.wasReady /\ x.after = p.after
    BY <1>1, <1>3, <2>1, <2>13, <2>14
  <2>19. again \in Seq(Calls)
    BY <2>8
  <2> QED BY <2>15, <2>16, <2>17, <2>18, <2>19
<1> QED BY <1>5, <1>6

-----------------------------------------------------------------------------
(* Steps of the Worker.  A batch that comes later in the same stream: older  *)
(* messages may be gone, others follow.                                      *)
Later(a, b) ==
    /\ a.acked >= b.acked /\ LastSeq(a) >= LastSeq(b)
    /\ \A n \in Nat : Has(a, n) /\ n <= LastSeq(b) => Has(b, n) /\ MessageAt(a, n) = MessageAt(b, n)

(* No channel is opened, and those opened only go on. *)
GoesOn(o) ==
    /\ chan'[o].sid = chan[o].sid /\ chan'[o].expected = chan[o].expected
    /\ chan'[o].seen >= chan[o].seen
    /\ chan[o].answered.known => chan'[o].answered = chan[o].answered
    /\ Open(o)' => Open(o) /\ Later(chan'[o].out, chan[o].out)
    /\ ~Open(o)' => chan'[o].out = NothingSent
    /\ Opened(o)' <=> Opened(o)
    /\ ~Opened(o) => chan'[o] = chan[o]
    /\ \/ chan'[o].seen = chan[o].seen /\ chan'[o].out.acked \in {0, chan[o].out.acked}
       \/ \E p \in posts : p.token = o

(* No poll is sent, and nothing but a refusal is answered. *)
PostsFrom ==
    /\ \A q \in posts' : \E p \in posts :
         /\ q.sid = p.sid /\ q.token = p.token /\ q.ack = p.ack /\ q.batch = p.batch
         /\ q.live => p.live
         /\ q.stage # "sent" => p.token # None
    /\ \A q, r \in posts' : q.live /\ r.live => q = r
ReplyFrom ==
    \/ reply' = reply
    \/ /\ reply'.kind \in {"none", "conflict", "failed"}
       /\ reply'.kind = "none" => reply' = NoReply
       /\ \A q \in posts' : ~q.live

WorkerStep ==
    /\ IInv /\ TypeOK' /\ PostsFrom /\ ReplyFrom /\ UNCHANGED daemon
    /\ \A o \in Channels : GoesOn(o)

(* A trimmed batch comes later in the stream. *)
LEMMA TrimmedLater ==
    ASSUME NEW a \in Batch, NEW b \in Batch, Trimmed(a, b)
    PROVE  Later(a, b)
BY BatchTyped DEF Trimmed, Later

(* An extended batch comes later in the stream. *)
LEMMA ExtendedLater ==
    ASSUME NEW a \in Batch, NEW b \in Batch, NEW ms \in Seq(MessageType), Extended(a, b, ms)
    PROVE  Later(a, b)
<1>1. /\ a.acked \in Nat /\ LastSeq(a) \in Nat /\ b.acked \in Nat /\ LastSeq(b) \in Nat
      /\ Len(ms) \in Nat
  BY BatchTyped
<1>2. a.acked >= b.acked /\ LastSeq(a) >= LastSeq(b)
  BY <1>1 DEF Extended
<1>3. ASSUME NEW n \in Nat, Has(a, n), n <= LastSeq(b)
      PROVE  Has(b, n) /\ MessageAt(a, n) = MessageAt(b, n)
  <2>1. Has(b, n)
    BY <1>1, <1>3 DEF Extended, Has
  <2> QED BY <2>1 DEF Extended
<1> QED BY <1>2, <1>3 DEF Later

(* A batch comes after itself. *)
LEMMA LaterSelf ==
    ASSUME NEW b \in Batch
    PROVE  Later(b, b)
BY BatchTyped DEF Later

(* A channel that does not change goes on. *)
LEMMA KeptGoesOn ==
    ASSUME IInv, NEW o \in Channels, chan'[o] = chan[o]
    PROVE  GoesOn(o)
<1>1. chan[o].out \in Batch /\ chan[o].seen \in Nat
  BY ChannelTyped DEF IInv
<1>2. ~Open(o) => chan[o].out = NothingSent
  <2>1. chan[o].state \in {"none", "probing", "ready", "closed"}
    BY ChannelTyped DEF IInv
  <2>2. chan[o].state = "none" => chan[o].out = NothingSent
    BY ValuesTyped DEF IInv, Ordered, Opened
  <2>3. chan[o].state = "closed" => chan[o].out = NothingSent
    BY DEF IInv, ChannelShape
  <2> QED BY <2>1, <2>2, <2>3, Numbers DEF Open
<1> QED BY <1>1, <1>2, LaterSelf DEF GoesOn, Open, Opened

(* A step of one open channel. *)
LEMMA StepGoesOn ==
    ASSUME IInv, NEW o \in Channels, Open(o), NEW state \in {"probing", "ready"}, NEW seen \in Nat,
           NEW answered, ChannelStep(o, state, seen, answered), seen >= chan[o].seen,
           chan[o].answered.known => answered = chan[o].answered,
           Later(chan'[o].out, chan[o].out),
           \/ seen = chan[o].seen /\ chan'[o].out.acked = chan[o].out.acked
           \/ \E p \in posts : p.token = o
    PROVE  \A x \in Channels : GoesOn(x)
<1>1. Open(o)' /\ Opened(o) /\ Opened(o)'
  BY Numbers DEF Open, Opened, ChannelStep
<1>2. GoesOn(o)
  BY <1>1 DEF GoesOn, ChannelStep
<1>3. ASSUME NEW x \in Channels, x # o PROVE GoesOn(x)
  BY <1>3, KeptGoesOn DEF ChannelStep
<1> QED BY <1>2, <1>3

(* A poll that moves on is no new poll. *)
LEMMA MovedFrom ==
    ASSUME IInv, NEW p \in posts, NEW q, Moved(p, q), p.token # None
    PROVE  PostsFrom
<1>1. ASSUME NEW r \in posts'
      PROVE  \E s \in posts :
                /\ r.sid = s.sid /\ r.token = s.token /\ r.ack = s.ack /\ r.batch = s.batch
                /\ r.live => s.live
                /\ r.stage # "sent" => s.token # None
                /\ r # q => s # p /\ r = s
                /\ r = q => s = p
  <2>1. CASE r = q
    BY <2>1 DEF Moved
  <2>2. CASE r # q
    <3>1. r \in posts /\ r # p
      BY <2>2 DEF Moved
    <3> QED BY <2>2, <3>1 DEF IInv, Tokens
  <2> QED BY <2>1, <2>2
<1>2. \A x, y \in posts : x.live /\ y.live => x = y
  BY DEF IInv, OneAtATime
<1>3. ASSUME NEW r \in posts', NEW s \in posts', r.live, s.live PROVE r = s
  BY <1>1, <1>2, <1>3
<1> QED BY <1>1, <1>3 DEF PostsFrom

(* A refused poll leaves no batch in the response. *)
LEMMA RefusedFrom ==
    ASSUME IInv, NEW p \in posts, Refused(p)
    PROVE  PostsFrom /\ ReplyFrom
<1>1. posts' \subseteq posts /\ \A x, y \in posts : x.live /\ y.live => x = y
  BY DEF Refused, IInv, OneAtATime
<1>2. PostsFrom
  BY <1>1 DEF PostsFrom, IInv, Tokens
<1>3. ReplyFrom
  <2>1. CASE p.live
    <3>1. reply'.kind \in {"conflict", "failed"}
      BY <2>1, RefusalTyped DEF Refused
    <3>2. \A q \in posts' : ~q.live
      BY <1>1, <2>1 DEF Refused
    <3> QED BY <3>1, <3>2 DEF ReplyFrom
  <2>2. CASE ~p.live
    BY <2>2 DEF Refused, ReplyFrom
  <2> QED BY <2>1, <2>2
<1> QED BY <1>2, <1>3

-----------------------------------------------------------------------------
(* What every step of the Worker preserves. *)
LEMMA WorkerStep_Ordered ==
    ASSUME WorkerStep PROVE Ordered'
BY DEF WorkerStep, IInv, Ordered, GoesOn

(* Tokens belong to their sessions still. *)
LEMMA WorkerStep_Tokens ==
    ASSUME WorkerStep PROVE Tokens'
<1>1. /\ sid' = sid /\ link' = link /\ IInv /\ \A o \in Channels : GoesOn(o)
      /\ TypeOK /\ TypeOK'
  BY DEF WorkerStep, daemon, IInv
<1>2. \A o \in Channels : Opened(o)' => chan'[o].sid \in 1 .. sid'
  BY <1>1 DEF GoesOn, IInv, Tokens
<1>3. ASSUME NEW q \in posts'
      PROVE  /\ q.sid <= sid'
             /\ q.token # None => Opened(q.token)' /\ chan'[q.token].sid = q.sid
             /\ q.stage # "sent" => q.token # None
  <2>1. PICK p \in posts :
          /\ q.sid = p.sid /\ q.token = p.token
          /\ q.stage # "sent" => p.token # None
    BY DEF WorkerStep, PostsFrom
  <2>2. p.token \in Channels \cup {None}
    BY <1>1, PostTyped
  <2> QED BY <1>1, <2>1, <2>2 DEF IInv, Tokens, GoesOn
<1>4. link'.token # None => Opened(link.token)' /\ chan'[link'.token].sid = sid'
  <2>1. link.token \in Channels \cup {None}
    BY <1>1, LinkTyped
  <2> QED BY <1>1, <2>1 DEF IInv, Tokens, GoesOn
<1>5. /\ Answers' => /\ reply'.token # None /\ Opened(reply.token)'
                     /\ chan'[reply'.token].sid = sid'
                     /\ link'.token # None => reply'.token = link'.token
      /\ reply'.kind = "reading" => link'.token # None
      /\ reply'.kind = "none" <=> reply' = NoReply
  <2>1. CASE reply' = reply
    <3>1. reply.token \in Channels \cup {None}
      BY <1>1, ReplyTyped
    <3> QED BY <1>1, <2>1, <3>1 DEF IInv, Tokens, GoesOn, Answers
  <2>2. CASE reply' # reply
    BY <1>1, <2>2, ValuesTyped DEF WorkerStep, ReplyFrom, Answers
  <2> QED BY <2>1, <2>2
<1> QED BY <1>2, <1>3, <1>4, <1>5 DEF Tokens

(* The Worker adds no poll. *)
LEMMA WorkerStep_OneAtATime ==
    ASSUME WorkerStep PROVE OneAtATime'
<1>1. ASSUME NEW q \in posts', q.live
      PROVE  /\ q.sid = sid' /\ q.token = link'.token /\ reply' = NoReply
             /\ \A r \in posts' : r.live => q = r
  <2>1. PICK p \in posts : q.sid = p.sid /\ q.token = p.token /\ (q.live => p.live)
    BY DEF WorkerStep, PostsFrom
  <2>2. p.sid = sid /\ p.token = link.token /\ reply = NoReply
    BY <1>1, <2>1 DEF WorkerStep, IInv, OneAtATime
  <2>3. reply' = reply
    BY <1>1 DEF WorkerStep, ReplyFrom
  <2> QED BY <1>1, <2>1, <2>2, <2>3 DEF WorkerStep, daemon, PostsFrom
<1> QED BY <1>1 DEF OneAtATime

(* A channel the daemon does not know gets no poll. *)
LEMMA WorkerStep_Unlearned ==
    ASSUME WorkerStep PROVE Unlearned'
<1> SUFFICES ASSUME NEW o \in Channels, chan'[o].sid = sid', link'.token # o
             PROVE  /\ chan'[o].seen = 0 /\ chan'[o].out.acked = 0
                    /\ \A q \in posts' : q.token # o
  BY DEF Unlearned
<1>1. /\ chan[o].seen = 0 /\ chan[o].out.acked = 0
      /\ \A p \in posts : p.token # o
  BY DEF WorkerStep, IInv, Unlearned, GoesOn, daemon
<1>2. \A q \in posts' : q.token # o
  BY <1>1 DEF WorkerStep, PostsFrom
<1>3. chan'[o].seen = 0 /\ chan'[o].out.acked = 0
  BY <1>1 DEF WorkerStep, GoesOn
<1> QED BY <1>2, <1>3

(* The daemon is where it was. *)
LEMMA WorkerStep_LinkShape ==
    ASSUME WorkerStep PROVE LinkShape'
BY DEF WorkerStep, IInv, LinkShape, daemon

(* The daemon's messages are what they were. *)
LEMMA WorkerStep_DaemonStreams ==
    ASSUME WorkerStep PROVE DaemonStreams'
<1>1. ASSUME NEW q \in posts', q.token # None
      PROVE  DaemonStream(q.batch, chan'[q.token].expected, started')
  <2>1. PICK p \in posts : q.token = p.token /\ q.batch = p.batch
    BY DEF WorkerStep, PostsFrom
  <2>2. p.token \in Channels
    BY <1>1, <2>1, PostTyped DEF WorkerStep, IInv
  <2>3. DaemonStream(p.batch, chan[p.token].expected, started)
    BY <1>1, <2>1 DEF WorkerStep, IInv, DaemonStreams
  <2> QED BY <2>1, <2>2, <2>3 DEF WorkerStep, GoesOn, daemon
<1>2. ASSUME link'.token # None
      PROVE  /\ DaemonStream(link'.out, chan'[link'.token].expected, started')
             /\ link'.resume.ids \subseteq chan'[link'.token].expected
  <2>1. link.token \in Channels /\ link' = link /\ started' = started
    BY <1>2, LinkTyped DEF WorkerStep, IInv, daemon
  <2>2. chan'[link.token].expected = chan[link.token].expected
    BY <2>1 DEF WorkerStep, GoesOn
  <2>3. /\ DaemonStream(link.out, chan[link.token].expected, started)
        /\ link.resume.ids \subseteq chan[link.token].expected
    BY <2>1, Numbers DEF WorkerStep, IInv, DaemonStreams
  <2> QED BY <2>1, <2>2, <2>3
<1> QED BY <1>1, <1>2 DEF DaemonStreams, DaemonStream, DaemonSays

(* A response is a part of a stream that goes on. *)
LEMMA WorkerStep_ReplyShape ==
    ASSUME WorkerStep PROVE ReplyShape'
<1> SUFFICES ASSUME Answers'
             PROVE  /\ reply'.ack <= chan'[reply'.token].seen /\ reply'.batch.acked <= link'.seen
                    /\ LastSeq(reply'.batch) >= 3 => reply'.phase = "ready"
                    /\ reply'.phase = "ready" => chan'[reply'.token].seen >= 1
                    /\ reply'.kind = "reading" /\ reply'.phase = "ready" => link'.ready
                    /\ Open(reply.token)' =>
                         /\ LastSeq(reply'.batch) <= LastSeq(chan'[reply'.token].out)
                         /\ SameStream(reply'.batch, chan'[reply'.token].out)
  BY DEF ReplyShape
<1> DEFINE t == reply.token
<1>1. reply' = reply /\ Answers /\ link' = link /\ TypeOK /\ TypeOK'
  BY DEF WorkerStep, ReplyFrom, Answers, daemon, IInv
<1>2. t \in Channels
  BY <1>1, ReplyTyped DEF WorkerStep, IInv, Tokens
<1>3. /\ reply.ack \in Nat /\ chan[t].seen \in Nat /\ chan'[t].seen \in Nat
      /\ LastSeq(reply.batch) \in Nat /\ reply.batch \in Batch
      /\ LastSeq(chan[t].out) \in Nat /\ LastSeq(chan'[t].out) \in Nat
  <2>1. chan'[t] \in ChannelState /\ chan'[t].out \in Batch /\ chan'[t].seen \in Nat
    BY <1>1, <1>2 DEF TypeOK, ChannelState
  <2>2. LastSeq(chan'[t].out) \in Nat
    BY <2>1, BatchTyped
  <2> QED BY <1>1, <1>2, <2>1, <2>2, ReplyTyped, ChannelTyped
<1>4. chan'[t].seen >= chan[t].seen /\ (Open(t)' => Open(t) /\ Later(chan'[t].out, chan[t].out))
  BY <1>1, <1>2 DEF WorkerStep, GoesOn
<1>5. ReplyShape
  BY DEF WorkerStep, IInv
<1>6. /\ reply.ack <= chan'[t].seen
      /\ reply.phase = "ready" => chan'[t].seen >= 1
  BY <1>1, <1>3, <1>4, <1>5 DEF ReplyShape
<1>7. ASSUME Open(t)'
      PROVE  LastSeq(reply.batch) <= LastSeq(chan'[t].out) /\ SameStream(reply.batch, chan'[t].out)
  <2>1. LastSeq(reply.batch) <= LastSeq(chan[t].out) /\ SameStream(reply.batch, chan[t].out)
    BY <1>1, <1>4, <1>5, <1>7 DEF ReplyShape
  <2>2. ASSUME NEW n \in Nat, Has(reply.batch, n), Has(chan'[t].out, n)
        PROVE  MessageAt(reply.batch, n) = MessageAt(chan'[t].out, n)
    <3>1. n <= LastSeq(chan[t].out)
      BY <1>3, <2>1, <2>2 DEF Has
    <3>2. Has(chan[t].out, n) /\ MessageAt(chan'[t].out, n) = MessageAt(chan[t].out, n)
      BY <1>4, <1>7, <2>2, <3>1 DEF Later
    <3> QED BY <2>1, <2>2, <3>2 DEF SameStream
  <2>3. LastSeq(reply.batch) <= LastSeq(chan'[t].out)
    BY <1>3, <1>4, <1>7, <2>1 DEF Later
  <2> QED BY <2>2, <2>3 DEF SameStream
<1> QED BY <1>1, <1>5, <1>6, <1>7 DEF ReplyShape

(* A poll that is left is what it was. *)
LEMMA WorkerStep_PostShape ==
    ASSUME WorkerStep PROVE PostShape'
<1> SUFFICES ASSUME NEW q \in posts'
             PROVE  /\ q.token = None => q.batch = NothingSent
                    /\ q.token # None =>
                         /\ q.batch.acked <= chan'[q.token].seen
                         /\ LastSeq(q.batch) >= 1 => q.ack >= 2
                    /\ q.token # None /\ q.token = link'.token =>
                         /\ q.ack <= link'.seen /\ LastSeq(q.batch) <= LastSeq(link'.out)
                         /\ SameStream(q.batch, link'.out)
  BY DEF PostShape
<1>1. PICK p \in posts : q.token = p.token /\ q.batch = p.batch /\ q.ack = p.ack
  BY DEF WorkerStep, PostsFrom
<1>2. link' = link /\ TypeOK /\ TypeOK' /\ PostShape
  BY DEF WorkerStep, daemon, IInv
<1>3. p.token \in Channels \cup {None} /\ p.batch.acked \in Nat
  BY <1>2, PostTyped
<1>4. ASSUME p.token # None PROVE p.batch.acked <= chan'[p.token].seen
  <2>1. chan[p.token].seen \in Nat /\ chan'[p.token].seen \in Nat
    BY <1>2, <1>3, <1>4 DEF TypeOK, ChannelState
  <2>2. chan'[p.token].seen >= chan[p.token].seen
    BY <1>3, <1>4 DEF WorkerStep, GoesOn
  <2> QED BY <1>2, <1>3, <1>4, <2>1, <2>2 DEF PostShape
<1> QED BY <1>1, <1>2, <1>4 DEF PostShape

(* The two ends agree if the Worker accepts no more than was sent. *)
LEMMA WorkerStep_Ends ==
    ASSUME WorkerStep,
           link.token # None => /\ chan'[link.token].out.acked <= link.seen
                                /\ chan'[link.token].seen <= LastSeq(link.out)
    PROVE  Ends'
<1>1. link' = link /\ TypeOK /\ TypeOK' /\ Ends
  BY DEF WorkerStep, daemon, IInv
<1>2. ASSUME link.token # None PROVE link.out.acked <= chan'[link.token].seen
  <2>1. link.token \in Channels /\ link.out.acked \in Nat
    BY <1>1, <1>2, LinkTyped
  <2>2. chan[link.token].seen \in Nat /\ chan'[link.token].seen \in Nat
    BY <1>1, <2>1 DEF TypeOK, ChannelState
  <2>3. chan'[link.token].seen >= chan[link.token].seen
    BY <2>1 DEF WorkerStep, GoesOn
  <2> QED BY <1>1, <1>2, <2>1, <2>2, <2>3 DEF Ends
<1> QED BY <1>1, <1>2 DEF Ends

(* The messages a step sends, and the tool calls among them. *)
Sent(o, n) == Has(chan'[o].out, n) /\ n > LastSeq(chan[o].out)
NewCall(o, c, n) == Sent(o, n) /\ MessageAt(chan'[o].out, n) = ToolCall(c)

SaysOn ==
    \A o \in Channels, n \in Nat :
        Sent(o, n) => WorkerSays(n, MessageAt(chan'[o].out, n), chan[o].expected, rec')

(* A call sent was not read before, and is no longer expected to be missing. *)
CallsFresh ==
    \A o \in Channels, c \in Calls, n \in Nat : NewCall(o, c, n) =>
        /\ Open(o) /\ (rec[c].status = "new" \/ chan'[o].answered.known)
        /\ started[c] = 0 /\ \A k \in Nat : ~Unread(c, k)
        /\ rec'[c].outcome # "not_received"
        /\ c \in chan[o].expected => chan'[o].answered.known
        /\ \A k \in Nat : NewCall(o, c, k) => n = k

RecordsOn ==
    \A c \in Calls :
        /\ rec'[c].status = "new" => rec[c].status = "new"
        /\ rec[c].status = "settled" => rec'[c].status = "settled"
        /\ rec'[c].outcome = "not_received" =>
             /\ rec'[c].status = "settled"
             /\ \/ rec[c].outcome = "not_received"
                \/ started[c] = 0 /\ \A n \in Nat : ~Unread(c, n)

(* Records and messages of a step are in order. *)
StreamStep == WorkerStep /\ SaysOn /\ CallsFresh /\ RecordsOn

(* A message of a channel was sent before or is sent now. *)
LEMMA SentOrHeld ==
    ASSUME WorkerStep, NEW o \in Channels, NEW n \in Nat, Has(chan'[o].out, n), ~Sent(o, n)
    PROVE  /\ Has(chan[o].out, n) /\ MessageAt(chan'[o].out, n) = MessageAt(chan[o].out, n)
           /\ Open(o) /\ Open(o)'
<1>1. LastSeq(chan[o].out) \in Nat
  BY ChannelTyped DEF WorkerStep, IInv
<1>2. n <= LastSeq(chan[o].out)
  BY <1>1 DEF Sent
<1>3. Open(o)'
  BY NothingSentEffect DEF WorkerStep, GoesOn
<1> QED BY <1>2, <1>3 DEF WorkerStep, GoesOn, Later

(* What the Worker sends follows the protocol. *)
LEMMA WorkerStep_WorkerStreams ==
    ASSUME StreamStep PROVE WorkerStreams'
<1>1. \A n, m, ids : WorkerSays(n, m, ids, rec) => WorkerSays(n, m, ids, rec')
  BY DEF StreamStep, RecordsOn, WorkerSays
<1>2. ASSUME NEW o \in Channels PROVE WorkerStream(chan'[o].out, chan'[o].expected, rec')
  <2> SUFFICES ASSUME NEW n \in Nat, Has(chan'[o].out, n)
               PROVE  WorkerSays(n, MessageAt(chan'[o].out, n), chan'[o].expected, rec')
    BY DEF WorkerStream
  <2>1. chan'[o].expected = chan[o].expected
    BY DEF StreamStep, WorkerStep, GoesOn
  <2>2. CASE Sent(o, n)
    BY <2>1, <2>2 DEF StreamStep, SaysOn
  <2>3. CASE ~Sent(o, n)
    <3>1. Has(chan[o].out, n) /\ MessageAt(chan'[o].out, n) = MessageAt(chan[o].out, n)
      BY <2>3, SentOrHeld DEF StreamStep
    <3>2. WorkerSays(n, MessageAt(chan[o].out, n), chan[o].expected, rec)
      BY <3>1 DEF StreamStep, WorkerStep, IInv, WorkerStreams, WorkerStream
    <3> QED BY <1>1, <2>1, <3>1, <3>2
  <2> QED BY <2>2, <2>3
<1>3. ASSUME Answers' PROVE WorkerStream(reply'.batch, chan'[reply'.token].expected, rec')
  <2>1. reply' = reply /\ Answers
    BY <1>3 DEF StreamStep, WorkerStep, ReplyFrom, Answers
  <2>2. reply.token \in Channels
    BY <2>1, ReplyTyped DEF StreamStep, WorkerStep, IInv, Tokens
  <2>3. chan'[reply.token].expected = chan[reply.token].expected
    BY <2>2 DEF StreamStep, WorkerStep, GoesOn
  <2>4. WorkerStream(reply.batch, chan[reply.token].expected, rec)
    BY <2>1 DEF StreamStep, WorkerStep, IInv, WorkerStreams
  <2> QED BY <1>1, <2>1, <2>3, <2>4 DEF WorkerStream
<1> QED BY <1>2, <1>3 DEF WorkerStreams

(* What the daemon has still to read it had to read before, or is sent now. *)
LEMMA UnreadBefore ==
    ASSUME WorkerStep, NEW c \in Calls, NEW n \in Nat, Unread(c, n)'
    PROVE  Unread(c, n) \/ (link.token \in Channels /\ NewCall(link.token, c, n))
<1>1. link' = link /\ TypeOK
  BY DEF WorkerStep, daemon, IInv
<1>2. CASE Answers' /\ Holds(reply'.batch, n, ToolCall(c))
  <2>1. reply' = reply /\ Answers
    BY <1>2 DEF WorkerStep, ReplyFrom, Answers
  <2> QED BY <1>1, <1>2, <2>1 DEF Unread
<1>3. CASE link.token # None /\ Holds(chan'[link.token].out, n, ToolCall(c))
  <2>1. link.token \in Channels
    BY <1>1, <1>3, LinkTyped
  <2>2. CASE Sent(link.token, n)
    BY <1>3, <2>1, <2>2 DEF NewCall, Holds
  <2>3. CASE ~Sent(link.token, n)
    <3>1. Holds(chan[link.token].out, n, ToolCall(c))
      BY <1>3, <2>1, <2>3, SentOrHeld DEF Holds
    <3> QED BY <1>1, <1>3, <3>1 DEF Unread
  <2> QED BY <2>2, <2>3
<1> QED BY <1>1, <1>2, <1>3 DEF Unread

(* A call is on its way under one number. *)
LEMMA WorkerStep_SentOnce ==
    ASSUME StreamStep PROVE SentOnce'
<1> SUFFICES ASSUME NEW c \in Calls
    PROVE  /\ \A n, k \in Nat : Unread(c, n)' /\ Unread(c, k)' => n = k
           /\ started'[c] > 0 => \A n \in Nat : ~Unread(c, n)'
           /\ rec'[c].outcome = "not_received" => \A n \in Nat : ~Unread(c, n)'
           /\ \A o \in Channels, n \in Nat :
                Holds(chan'[o].out, n, ToolCall(c)) /\ c \in chan'[o].expected =>
                   chan'[o].answered.known
           /\ Answers' /\ c \in chan'[reply'.token].expected =>
                \A n \in Nat : Holds(reply'.batch, n, ToolCall(c)) =>
                                  chan'[reply'.token].answered.known
  BY DEF SentOnce
<1>1. WorkerStep /\ CallsFresh /\ SentOnce /\ started' = started /\ TypeOK /\ RunsOK
  BY DEF StreamStep, WorkerStep, IInv, daemon
<1>2. ASSUME NEW n \in Nat, NEW k \in Nat, Unread(c, n)', Unread(c, k)' PROVE n = k
  BY <1>1, <1>2, UnreadBefore DEF CallsFresh, SentOnce
<1>3. ASSUME started'[c] > 0, NEW n \in Nat PROVE ~Unread(c, n)'
  <2>1. started[c] \in Nat /\ started[c] # 0
    BY <1>1, <1>3 DEF TypeOK
  <2> QED BY <1>1, <1>3, <2>1, UnreadBefore DEF CallsFresh, SentOnce
<1>4. ASSUME rec'[c].outcome = "not_received", NEW n \in Nat PROVE ~Unread(c, n)'
  <2>1. ~Unread(c, n)
    BY <1>1, <1>4 DEF StreamStep, RecordsOn, SentOnce
  <2> QED BY <1>1, <1>4, <2>1, UnreadBefore DEF CallsFresh
<1>5. ASSUME NEW o \in Channels, NEW n \in Nat, Holds(chan'[o].out, n, ToolCall(c)),
             c \in chan'[o].expected
      PROVE  chan'[o].answered.known
  <2>1. chan'[o].expected = chan[o].expected /\ (chan[o].answered.known => chan'[o].answered.known)
    BY <1>1 DEF WorkerStep, GoesOn
  <2>2. CASE Sent(o, n)
    BY <1>1, <1>5, <2>1, <2>2 DEF CallsFresh, NewCall, Holds
  <2>3. CASE ~Sent(o, n)
    <3>1. Holds(chan[o].out, n, ToolCall(c))
      BY <1>1, <1>5, <2>3, SentOrHeld DEF Holds
    <3> QED BY <1>1, <1>5, <2>1, <3>1 DEF SentOnce
  <2> QED BY <2>2, <2>3
<1>6. ASSUME Answers', c \in chan'[reply'.token].expected, NEW n \in Nat,
             Holds(reply'.batch, n, ToolCall(c))
      PROVE  chan'[reply'.token].answered.known
  <2>1. reply' = reply /\ Answers
    BY <1>1, <1>6 DEF WorkerStep, ReplyFrom, Answers
  <2>2. reply.token \in Channels
    BY <1>1, <2>1, ReplyTyped DEF WorkerStep, IInv, Tokens
  <2>3. /\ chan'[reply.token].expected = chan[reply.token].expected
        /\ chan[reply.token].answered.known => chan'[reply.token].answered.known
    BY <1>1, <2>2 DEF WorkerStep, GoesOn
  <2> QED BY <1>1, <1>6, <2>1, <2>3 DEF SentOnce
<1> QED BY <1>2, <1>3, <1>4, <1>5, <1>6

(* Call c is among what is expected of a channel that it is named to. *)
LEMMA NamedExpected ==
    ASSUME IInv, NEW o \in Channels, NEW c \in Calls, Named(o, c)
    PROVE  c \in chan[o].expected /\ rec[c].status # "new"
<1>1. c \in chan[o].expected
  <2>1. CASE \E p \in posts : p.token = o /\ Has(p.batch, 2) /\ c \in MessageAt(p.batch, 2).ids
    <3>1. PICK p \in posts : p.token = o /\ Has(p.batch, 2) /\ c \in MessageAt(p.batch, 2).ids
      BY <2>1
    <3>2. DaemonSays(2, MessageAt(p.batch, 2), chan[o].expected, started)
      BY <3>1, Numbers DEF IInv, DaemonStreams, DaemonStream
    <3>3. PICK S \in SUBSET chan[o].expected : MessageAt(p.batch, 2) = ResumeAck(S)
      BY <3>2 DEF DaemonSays
    <3> QED BY <3>1, <3>3 DEF ResumeAck
  <2>2. CASE link.token = o /\ c \in link.resume.ids
    BY <2>2, Numbers DEF IInv, DaemonStreams
  <2>3. CASE link.token = o /\ Has(link.out, 2) /\ c \in MessageAt(link.out, 2).ids
    <3>1. DaemonSays(2, MessageAt(link.out, 2), chan[o].expected, started)
      BY <2>3, Numbers DEF IInv, DaemonStreams, DaemonStream
    <3>2. PICK S \in SUBSET chan[o].expected : MessageAt(link.out, 2) = ResumeAck(S)
      BY <3>1 DEF DaemonSays
    <3> QED BY <2>3, <3>2 DEF ResumeAck
  <2> QED BY <2>1, <2>2, <2>3 DEF Named
<1> QED BY <1>1 DEF IInv, RunsOK

(* Channels are opened in order, so two open ones are one. *)
LEMMA OnlyOneOpen ==
    ASSUME IInv, NEW x \in Channels, NEW y \in Channels, Open(x), Open(y)
    PROVE  x = y
<1>1. Opened(x) /\ Opened(y)
  BY DEF Open, Opened
<1>2. x \in Nat /\ y \in Nat
  BY Numbers
<1> QED BY <1>1, <1>2 DEF IInv, Ordered

(* A call named as missing is not sent before the report is accepted. *)
LEMMA WorkerStep_MissingOK ==
    ASSUME StreamStep PROVE MissingOK'
<1> SUFFICES ASSUME NEW o \in Channels, NEW c \in Calls, Open(o)', ~chan'[o].answered.known,
                    Named(o, c)', rec'[c].status = "pending"
             PROVE  started'[c] = 0 /\ \A n \in Nat : ~Unread(c, n)'
  BY DEF MissingOK
<1>1. /\ WorkerStep /\ CallsFresh /\ IInv /\ link' = link /\ started' = started /\ GoesOn(o)
      /\ PostsFrom
  BY DEF StreamStep, WorkerStep, daemon
<1>2. Open(o) /\ ~chan[o].answered.known
  BY <1>1 DEF GoesOn
<1>3. Named(o, c)
  <2>1. CASE \E q \in posts' : q.token = o /\ Has(q.batch, 2) /\ c \in MessageAt(q.batch, 2).ids
    BY <1>1, <2>1 DEF PostsFrom, Named
  <2>2. CASE ~ \E q \in posts' : q.token = o /\ Has(q.batch, 2) /\ c \in MessageAt(q.batch, 2).ids
    BY <1>1, <2>2 DEF Named
  <2> QED BY <2>1, <2>2
<1>4. rec[c].status = "pending"
  <2>1. rec[c].status \in {"new", "pending", "settled"} /\ rec[c].status # "new"
    BY <1>1, <1>3, NamedExpected DEF IInv, TypeOK, Record
  <2> QED BY <2>1 DEF StreamStep, RecordsOn
<1>5. started[c] = 0 /\ \A n \in Nat : ~Unread(c, n)
  BY <1>1, <1>2, <1>3, <1>4 DEF IInv, MissingOK
<1>6. ASSUME NEW n \in Nat, Unread(c, n)' PROVE FALSE
  <2>1. link.token \in Channels /\ NewCall(link.token, c, n)
    BY <1>1, <1>5, <1>6, UnreadBefore
  <2>2. Open(link.token) /\ chan'[link.token].answered.known
    BY <1>1, <1>4, <2>1 DEF CallsFresh
  <2> QED BY <1>1, <1>2, <2>1, <2>2, OnlyOneOpen
<1> QED BY <1>1, <1>5, <1>6

(* What the acknowledgements of a resume say, once the first is accepted. *)
Reported ==
    \A o \in Channels : chan'[o].answered.known /\ ~chan[o].answered.known =>
        \E p \in posts : /\ p.token = o /\ Has(p.batch, 2)
                         /\ MessageAt(p.batch, 2) = ResumeAck(chan'[o].answered.ids)

(* The first report accepted is the only one. *)
LEMMA WorkerStep_OneReport ==
    ASSUME WorkerStep, Reported PROVE OneReport'
<1>1. IInv /\ link' = link /\ PostsFrom /\ OneReport /\ PostShape /\ \A o \in Channels : GoesOn(o)
  BY DEF WorkerStep, daemon, IInv
<1>2. ASSUME NEW q \in posts', q.token # None, Has(q.batch, 2)
      PROVE  /\ \A r \in posts' : r.token = q.token /\ Has(r.batch, 2) =>
                   MessageAt(r.batch, 2) = MessageAt(q.batch, 2)
             /\ chan'[q.token].answered.known =>
                   MessageAt(q.batch, 2) = ResumeAck(chan'[q.token].answered.ids)
  <2>1. PICK p \in posts : q.token = p.token /\ q.batch = p.batch
    BY <1>1 DEF PostsFrom
  <2>2. \A r \in posts' : r.token = q.token /\ Has(r.batch, 2) =>
            MessageAt(r.batch, 2) = MessageAt(q.batch, 2)
    BY <1>1, <1>2, <2>1 DEF PostsFrom, OneReport
  <2>3. ASSUME chan'[q.token].answered.known
        PROVE  MessageAt(q.batch, 2) = ResumeAck(chan'[q.token].answered.ids)
    <3>1. q.token \in Channels
      BY <1>1, <1>2, <2>1, PostTyped DEF IInv
    <3>2. CASE chan[q.token].answered.known
      BY <1>1, <1>2, <2>1, <3>1, <3>2 DEF OneReport, GoesOn
    <3>3. CASE ~chan[q.token].answered.known
      BY <1>1, <1>2, <2>1, <2>3, <3>1, <3>3 DEF OneReport, Reported
    <3> QED BY <3>2, <3>3
  <2> QED BY <2>2, <2>3
<1>3. ASSUME link.token # None, Has(link.out, 2), chan'[link.token].answered.known
      PROVE  MessageAt(link.out, 2) = ResumeAck(chan'[link.token].answered.ids)
  <2>1. link.token \in Channels
    BY <1>1, <1>3, LinkTyped DEF IInv
  <2>2. CASE chan[link.token].answered.known
    BY <1>1, <1>3, <2>1, <2>2 DEF OneReport, GoesOn
  <2>3. CASE ~chan[link.token].answered.known
    <3>1. PICK p \in posts : /\ p.token = link.token /\ Has(p.batch, 2)
                             /\ MessageAt(p.batch, 2) = ResumeAck(chan'[link.token].answered.ids)
      BY <1>3, <2>1, <2>3 DEF Reported
    <3>2. SameStream(p.batch, link.out)
      BY <1>1, <1>3, <3>1 DEF PostShape
    <3> QED BY <1>3, <3>1, <3>2 DEF SameStream
  <2> QED BY <2>2, <2>3
<1> QED BY <1>1, <1>2, <1>3 DEF OneReport

(* The Worker starts nothing. *)
LEMMA WorkerStep_RunsOK ==
    ASSUME StreamStep, \A c \in Calls : rec[c].status = "new" /\ rec'[c].status # "new" =>
                          rec'[c].status = "pending"
    PROVE RunsOK'
<1> SUFFICES ASSUME NEW c \in Calls
    PROVE  /\ rec'[c].status = "new" =>
                started'[c] = 0 /\ \A o \in Channels : c \notin chan'[o].expected
           /\ local'[c] # "none" => started'[c] > 0
           /\ started'[c] <= 1
           /\ rec'[c].outcome = "not_received" => rec'[c].status = "settled" /\ started'[c] = 0
           /\ rec'[c].status = "pending" /\ started'[c] > 0 =>
                /\ local'[c] \in {"active", "retained"}
                /\ link'.seen = 0 => \A o \in Channels :
                      Opened(o)' /\ chan'[o].sid = sid' => c \in chan'[o].expected
  BY DEF RunsOK
<1>1. /\ IInv /\ RunsOK /\ RecordsOn /\ UNCHANGED daemon
      /\ started' = started /\ local' = local /\ link' = link /\ sid' = sid
      /\ \A o \in Channels : GoesOn(o)
  BY DEF StreamStep, WorkerStep, daemon, IInv
<1>2. rec'[c].status = "new" => started'[c] = 0 /\ \A o \in Channels : c \notin chan'[o].expected
  BY <1>1 DEF RunsOK, RecordsOn, GoesOn
<1>3. local'[c] # "none" => started'[c] > 0
  BY <1>1 DEF RunsOK
<1>4. started'[c] <= 1
  BY <1>1 DEF RunsOK
<1>5. rec'[c].outcome = "not_received" => rec'[c].status = "settled" /\ started'[c] = 0
  BY <1>1 DEF RunsOK, RecordsOn
<1>6. ASSUME rec'[c].status = "pending", started'[c] > 0
      PROVE  /\ local'[c] \in {"active", "retained"}
             /\ link'.seen = 0 => \A o \in Channels :
                   Opened(o)' /\ chan'[o].sid = sid' => c \in chan'[o].expected
  <2>1. rec[c].status \in {"new", "pending", "settled"} /\ started[c] \in Nat
    BY <1>1 DEF IInv, TypeOK, Record
  <2>2. rec[c].status = "pending" /\ started[c] > 0
    BY <1>1, <1>6, <2>1 DEF RunsOK, RecordsOn
  <2> QED BY <1>1, <2>2 DEF RunsOK, GoesOn
<1> QED BY <1>2, <1>3, <1>4, <1>5, <1>6

(* The invariant after a step of the Worker. *)
LEMMA WorkerStep_Keeps ==
    ASSUME StreamStep, Reported, ChannelShape', StageShape', Owners',
           link.token # None => /\ chan'[link.token].out.acked <= link.seen
                                /\ chan'[link.token].seen <= LastSeq(link.out),
           \A c \in Calls : rec[c].status = "new" /\ rec'[c].status # "new" =>
                               rec'[c].status = "pending"
    PROVE  IInv'
<1>1. WorkerStep
  BY DEF StreamStep
<1>2. NoProtocolViolation' /\ TypeOK'
  BY <1>1 DEF WorkerStep, IInv, NoProtocolViolation, daemon
<1>3. Ordered' /\ Tokens' /\ OneAtATime' /\ Unlearned' /\ LinkShape'
  BY <1>1, WorkerStep_Ordered, WorkerStep_Tokens, WorkerStep_OneAtATime, WorkerStep_Unlearned,
     WorkerStep_LinkShape
<1>4. WorkerStreams' /\ DaemonStreams' /\ ReplyShape' /\ PostShape' /\ Ends'
  BY <1>1, WorkerStep_WorkerStreams, WorkerStep_DaemonStreams, WorkerStep_ReplyShape,
     WorkerStep_PostShape, WorkerStep_Ends
<1>5. OneReport' /\ MissingOK' /\ SentOnce' /\ RunsOK'
  BY <1>1, WorkerStep_OneReport, WorkerStep_MissingOK, WorkerStep_SentOnce, WorkerStep_RunsOK
<1> QED BY <1>2, <1>3, <1>4, <1>5 DEF IInv

-----------------------------------------------------------------------------
(* The steps of the Worker one by one. *)
LEMMA StagedFrom ==
    ASSUME WorkerStep, RecordsOn, NEW p \in posts, NEW q,
           q.stage = p.stage, q.batch = p.batch, q.next = p.next, q.token = p.token,
           q.wasReady = p.wasReady, q.after = p.after
    PROVE  Staged(q)'
<1>1. Staged(p) /\ TypeOK /\ TypeOK' /\ p.token \in Channels \cup {None} /\ p.next \in Nat
  BY PostTyped DEF WorkerStep, IInv, StageShape
<1>2. ASSUME p.stage # "sent"
      PROVE  /\ p.batch.acked < p.next /\ p.next <= chan'[p.token].seen + 1
             /\ LastSeq(p.batch) >= 1 /\ Open(p.token)' => chan'[p.token].out.acked >= 2
             /\ p.wasReady => chan'[p.token].seen >= 1
  <2>1. p.token \in Channels
    BY <1>1, <1>2 DEF WorkerStep, IInv, Tokens
  <2>2. /\ chan[p.token].seen \in Nat /\ chan'[p.token].seen \in Nat
        /\ chan[p.token].out \in Batch /\ chan'[p.token].out \in Batch
    BY <1>1, <2>1 DEF TypeOK, ChannelState
  <2>3. chan[p.token].out.acked \in Nat /\ chan'[p.token].out.acked \in Nat
    BY <2>2, BatchTyped
  <2>4. /\ chan'[p.token].seen >= chan[p.token].seen
        /\ Open(p.token)' => Open(p.token) /\ chan'[p.token].out.acked >= chan[p.token].out.acked
    BY <2>1 DEF WorkerStep, GoesOn, Later
  <2> QED BY <1>1, <1>2, <2>2, <2>3, <2>4 DEF Staged
<1>3. p.after # <<>> => \E c \in Calls :
         p.after = <<ResultAck(c)>> /\ rec'[c].status = "settled"
  BY <1>1 DEF Staged, RecordsOn
<1>4. p.stage = "committing" => 2 <= p.next /\ p.next <= LastSeq(p.batch)
  BY <1>1 DEF Staged
<1> QED BY <1>2, <1>3, <1>4 DEF Staged

(* Only the poll that moved is handled further. *)
LEMMA MovedStages ==
    ASSUME WorkerStep, RecordsOn, NEW p \in posts, NEW q, Moved(p, q), Staged(q)'
    PROVE  StageShape'
<1>1. ASSUME NEW r \in posts' PROVE Staged(r)'
  <2>1. CASE r = q
    BY <2>1
  <2>2. CASE r # q
    <3>1. r \in posts
      BY <2>2 DEF Moved
    <3> QED BY <3>1, StagedFrom
  <2> QED BY <2>1, <2>2
<1> QED BY <1>1 DEF StageShape

(* What is sent on a channel that keeps its messages, or loses some. *)
LEMMA NothingIsSent ==
    ASSUME TypeOK, NEW o \in Channels, \/ chan'[o].out = chan[o].out
                               \/ LastSeq(chan'[o].out) = LastSeq(chan[o].out)
                               \/ chan'[o].out = NothingSent,
           NEW n \in Nat
    PROVE  ~Sent(o, n)
<1>1. CASE chan'[o].out = NothingSent
  BY <1>1, NothingSentEffect DEF Sent
<1>2. CASE LastSeq(chan'[o].out) = LastSeq(chan[o].out)
  <2> SUFFICES ASSUME Sent(o, n) PROVE FALSE
    OBVIOUS
  <2>1. n <= LastSeq(chan'[o].out) /\ n > LastSeq(chan[o].out)
    BY DEF Sent, Has
  <2>2. LastSeq(chan[o].out) \in Nat
    BY ChannelTyped
  <2> QED BY <1>2, <2>1, <2>2
<1> QED BY <1>1, <1>2

(* A step that sends nothing sends nothing wrong. *)
LEMMA QuietStreams ==
    ASSUME \A o \in Channels, n \in Nat : ~Sent(o, n)
    PROVE  SaysOn /\ CallsFresh
BY DEF SaysOn, CallsFresh, NewCall

(* Records that stay are in order. *)
LEMMA QuietRecords ==
    ASSUME IInv, UNCHANGED rec
    PROVE  RecordsOn
BY DEF IInv, RunsOK, RecordsOn

(* Nothing changes but the polls and the response. *)
LEMMA StillStep ==
    ASSUME IInv, TypeOK', PostsFrom, ReplyFrom, UNCHANGED <<rec, chan, daemon>>
    PROVE  WorkerStep /\ RecordsOn /\ (StageShape' => IInv')
<1>1. \A o \in Channels : GoesOn(o)
  BY KeptGoesOn
<1>2. WorkerStep /\ RecordsOn
  BY <1>1, QuietRecords DEF WorkerStep
<1>3. SaysOn /\ CallsFresh
  BY NothingIsSent, QuietStreams DEF IInv
<1>4. Reported /\ ChannelShape' /\ Owners'
  BY DEF Reported, IInv, ChannelShape, Owners, Open
<1>5. link.token # None => /\ chan'[link.token].out.acked <= link.seen
                           /\ chan'[link.token].seen <= LastSeq(link.out)
  BY DEF IInv, Ends
<1>6. ASSUME StageShape' PROVE IInv'
  BY <1>2, <1>3, <1>4, <1>5, <1>6, WorkerStep_Keeps DEF StreamStep
<1> QED BY <1>2, <1>6

(* A refusal keeps the invariant. *)
LEMMA Refused_Keeps ==
    ASSUME IInv, TypeOK', NEW p \in posts, Refused(p), UNCHANGED <<rec, chan, daemon>>
    PROVE  IInv'
<1>1. WorkerStep /\ RecordsOn /\ (StageShape' => IInv')
  BY RefusedFrom, StillStep
<1>2. \A q \in posts' : Staged(q)'
  BY <1>1, StagedFrom DEF Refused
<1> QED BY <1>1, <1>2 DEF StageShape

(* Refuse keeps the invariant. *)
LEMMA Refuse_Keeps ==
    ASSUME IInv, NEW p \in posts, Refuse(p)
    PROVE  IInv'
BY Refuse_Effect, Refused_Keeps

(* A step of one open channel whose records stay. *)
LEMMA ChannelStep_Keeps ==
    ASSUME IInv, TypeOK', NEW p \in posts, NEW q, Moved(p, q), Staged(q)',
           p.token \in Channels, Open(p.token), UNCHANGED <<rec, reply, daemon>>,
           NEW state \in {"probing", "ready"}, NEW seen \in Nat,
           ChannelStep(p.token, state, seen, chan[p.token].answered),
           seen >= chan[p.token].seen, Later(chan'[p.token].out, chan[p.token].out),
           chan'[p.token].out.acked <= p.ack \/ chan'[p.token].out.acked = chan[p.token].out.acked,
           seen = chan[p.token].seen \/ seen <= LastSeq(p.batch),
           SaysOn, CallsFresh, ChannelShape'
    PROVE  IInv'
<1> DEFINE t == p.token
<1>1. \A x \in Channels : GoesOn(x)
  BY StepGoesOn
<1>2. PostsFrom
  BY MovedFrom, Numbers
<1>3. WorkerStep /\ RecordsOn
  BY <1>1, <1>2, QuietRecords DEF WorkerStep, ReplyFrom
<1>4. StageShape'
  BY <1>3, MovedStages
<1>5. Reported
  BY DEF Reported, ChannelStep
<1>6. Owners'
  <2>1. \A o \in Channels : Open(o) => Open(o)'
    BY DEF Open, ChannelStep
  <2>2. \A c \in Calls : rec[c].owner \in Channels \cup {None}
    BY DEF IInv, TypeOK, Record, None
  <2> QED BY <2>1, <2>2 DEF IInv, Owners
<1>7. ASSUME link.token # None
      PROVE  /\ chan'[link.token].out.acked <= link.seen
             /\ chan'[link.token].seen <= LastSeq(link.out)
  <2>1. link.token \in Channels /\ link.seen \in Nat /\ LastSeq(link.out) \in Nat
    BY <1>7, LinkTyped DEF IInv
  <2>2. CASE link.token # t
    BY <1>7, <2>1, <2>2 DEF ChannelStep, IInv, Ends
  <2>3. CASE link.token = t
    <3>1. p.ack <= link.seen /\ LastSeq(p.batch) <= LastSeq(link.out)
      BY <1>7, <2>3 DEF IInv, PostShape
    <3>2. /\ p.ack \in Nat /\ LastSeq(p.batch) \in Nat
          /\ chan[t].out.acked \in Nat /\ chan[t].seen \in Nat /\ chan'[t].out \in Batch
      BY PostTyped, ChannelTyped DEF IInv, TypeOK, ChannelState
    <3>3. chan'[t].out.acked \in Nat /\ chan'[t].seen = seen
      BY <3>2, BatchTyped DEF ChannelStep
    <3>4. chan[t].out.acked <= link.seen /\ chan[t].seen <= LastSeq(link.out)
      BY <1>7, <2>3 DEF IInv, Ends
    <3> QED BY <2>1, <2>3, <3>1, <3>2, <3>3, <3>4
  <2> QED BY <2>2, <2>3
<1> QED BY <1>3, <1>4, <1>5, <1>6, <1>7, WorkerStep_Keeps DEF StreamStep

(* Begin keeps the invariant: only handled messages are dropped. *)
LEMMA Begin_Keeps ==
    ASSUME IInv, NEW p \in posts, Begin(p)
    PROVE  IInv'
<1> DEFINE t == p.token
<1>1. /\ TypeOK' /\ UNCHANGED <<rec, reply, daemon>> /\ t \in Channels /\ Open(t)
      /\ ChannelStep(t, chan[t].state, chan[t].seen, chan[t].answered)
      /\ Trimmed(chan'[t].out, chan[t].out)
      /\ chan'[t].out.acked >= p.ack
      /\ chan'[t].out.acked \in {p.ack, chan[t].out.acked}
  BY Begin_Effect
<1>2. PICK q : /\ Moved(p, q) /\ q.stage = "handling" /\ q.next = p.batch.acked + 1
               /\ q.wasReady = (chan[t].state = "ready") /\ q.after = p.after
  BY Begin_Effect
<1>3. /\ chan[t].out \in Batch /\ chan'[t].out \in Batch /\ chan[t].seen \in Nat
      /\ chan'[t].seen = chan[t].seen /\ chan'[t].state = chan[t].state
      /\ chan[t].state \in {"probing", "ready"}
  BY <1>1, ChannelTyped DEF IInv, TypeOK, ChannelState, Open, ChannelStep
<1>4. /\ chan[t].out.acked \in Nat /\ chan'[t].out.acked \in Nat /\ p.ack \in Nat
      /\ chan'[t].out.acked >= chan[t].out.acked /\ LastSeq(chan'[t].out) = LastSeq(chan[t].out)
      /\ LastSeq(chan[t].out) \in Nat
  BY <1>1, <1>3, BatchTyped, PostTyped DEF IInv, Trimmed
<1>5. Later(chan'[t].out, chan[t].out)
  BY <1>1, <1>3, TrimmedLater
<1>6. ChannelShape'
  <2>1. ASSUME NEW o \in Channels, o # t PROVE chan'[o] = chan[o]
    BY <1>1, <2>1 DEF ChannelStep
  <2>2. /\ chan'[t].state = "probing" => chan'[t].seen = 0 /\ LastSeq(chan'[t].out) = 2
        /\ chan'[t].state = "ready" => chan'[t].seen >= 1 /\ chan'[t].out.acked >= 2
        /\ chan'[t].state # "closed"
        /\ chan'[t].answered.known => chan'[t].seen >= 1
    BY <1>1, <1>3, <1>4 DEF IInv, ChannelShape, ChannelStep
  <2> QED BY <2>1, <2>2 DEF IInv, ChannelShape
<1>7. Staged(q)'
  <2>1. p.batch.acked \in Nat /\ p.batch.acked <= chan[t].seen
        /\ (LastSeq(p.batch) >= 1 => p.ack >= 2)
    BY <1>1, Numbers, PostTyped DEF IInv, PostShape
  <2>2. q.wasReady => chan[t].seen >= 1
    BY <1>1, <1>2 DEF IInv, ChannelShape
  <2>3. q.after # <<>> => \E c \in Calls : q.after = <<ResultAck(c)>> /\ rec'[c].status = "settled"
    BY <1>1, <1>2 DEF IInv, StageShape, Staged
  <2>4. q.token = t /\ q.batch = p.batch
    BY <1>2 DEF Moved
  <2> QED BY <1>1, <1>2, <1>3, <1>4, <2>1, <2>2, <2>3, <2>4 DEF Staged
<1>8. SaysOn /\ CallsFresh
  <2>1. \A o \in Channels : chan'[o].out = chan[o].out \/ LastSeq(chan'[o].out) = LastSeq(chan[o].out)
    BY <1>1, <1>4 DEF ChannelStep
  <2> QED BY <2>1, NothingIsSent, QuietStreams DEF IInv
<1> QED BY <1>1, <1>2, <1>3, <1>4, <1>5, <1>6, <1>7, <1>8, ChannelStep_Keeps

(* OutOfOrder keeps the invariant. *)
LEMMA OutOfOrder_Keeps ==
    ASSUME IInv, NEW p \in posts, OutOfOrder(p)
    PROVE  IInv'
<1>1. TypeOK' /\ UNCHANGED <<rec, chan, reply, daemon>> /\ p.stage = "handling"
      /\ p.next <= chan[p.token].seen
  BY OutOfOrder_Effect
<1>2. PICK q : /\ Moved(p, q) /\ q.stage = "handling" /\ q.next = p.next + 1
               /\ q.wasReady = p.wasReady /\ q.after = p.after
  BY OutOfOrder_Effect
<1>3. PostsFrom /\ ReplyFrom
  BY <1>1, <1>2, MovedFrom DEF ReplyFrom, IInv, Tokens
<1>4. WorkerStep /\ RecordsOn /\ (StageShape' => IInv')
  BY <1>1, <1>3, StillStep
<1>5. Staged(q)'
  <2>1. /\ p.next \in Nat /\ p.batch.acked \in Nat /\ chan[p.token].seen \in Nat
        /\ p.token \in Channels
    BY <1>1, Handled, PostTyped, ChannelTyped DEF IInv
  <2>2. Staged(p)
    BY DEF IInv, StageShape
  <2>3. q.token = p.token /\ q.batch = p.batch
    BY <1>2 DEF Moved
  <2>4. q.batch.acked < q.next /\ q.next <= chan[q.token].seen + 1
    BY <1>1, <1>2, <2>1, <2>2, <2>3 DEF Staged
  <2> QED BY <1>1, <1>2, <2>2, <2>3, <2>4 DEF Staged, Open
<1> QED BY <1>2, <1>4, <1>5, MovedStages

(* Settling calls that are not missing keeps the records in order. *)
LEMMA KeptRecordsOn ==
    ASSUME IInv, NEW S \in SUBSET Calls, RecordsKept(rec'), SettledBy(rec', S),
           \A c \in S : started[c] = 0 /\ \A n \in Nat : ~Unread(c, n)
    PROVE  RecordsOn
<1> SUFFICES ASSUME NEW c \in Calls
             PROVE  /\ rec'[c].status = "new" => rec[c].status = "new"
                    /\ rec[c].status = "settled" => rec'[c].status = "settled"
                    /\ rec'[c].outcome = "not_received" =>
                         /\ rec'[c].status = "settled"
                         /\ \/ rec[c].outcome = "not_received"
                            \/ started[c] = 0 /\ \A n \in Nat : ~Unread(c, n)
  BY DEF RecordsOn
<1>1. /\ rec'[c].status = "new" => rec[c].status = "new"
      /\ rec[c].status = "settled" => rec'[c].status = "settled"
  BY DEF RecordsKept
<1>2. rec'[c].outcome = "not_received" => rec'[c].status = "settled"
  BY DEF RecordsKept, IInv, RunsOK
<1>3. rec'[c].outcome = "not_received" =>
        \/ rec[c].outcome = "not_received"
        \/ started[c] = 0 /\ \A n \in Nat : ~Unread(c, n)
  BY DEF SettledBy
<1> QED BY <1>1, <1>2, <1>3

(* Pending calls keep an owner that stays open. *)
LEMMA KeptOwners ==
    ASSUME IInv, RecordsKept(rec'), OwnersKept(rec'), \A o \in Channels : Open(o) => Open(o)'
    PROVE  Owners'
<1>1. ASSUME NEW c \in Calls, rec'[c].status = "pending"
      PROVE  rec'[c].instance = ThisInstance /\ (rec'[c].owner # None => Open(rec[c].owner)')
  <2>1. rec[c].status = "pending" /\ rec'[c].instance = rec[c].instance
    BY <1>1 DEF RecordsKept
  <2>2. rec'[c].owner = rec[c].owner
    BY <1>1 DEF OwnersKept
  <2>3. rec[c].owner \in Channels \cup {None}
    BY DEF IInv, TypeOK, Record, None
  <2> QED BY <2>1, <2>2, <2>3 DEF IInv, Owners
<1> QED BY <1>1 DEF Owners

(* Ready keeps the invariant. *)
LEMMA Ready_Keeps ==
    ASSUME IInv, NEW p \in posts, Ready(p)
    PROVE  IInv'
<1> DEFINE t == p.token
<1>1. TypeOK'
  BY Ready_Effect
<1>2. CASE Refused(p) /\ UNCHANGED <<rec, chan, daemon, faults>>
  BY <1>1, <1>2, Refused_Keeps
<1>3. CASE ~(Refused(p) /\ UNCHANGED <<rec, chan, daemon, faults>>)
  <2>1. /\ UNCHANGED <<rec, reply, daemon, faults>>
        /\ t \in Channels /\ chan[t].state = "probing"
        /\ chan[t].out.acked = 2 /\ p.next = 1 /\ p.stage = "handling"
        /\ LastSeq(p.batch) >= 1
        /\ ChannelStep(t, "ready", 1, chan[t].answered)
        /\ chan'[t].out = chan[t].out
    BY <1>3, Ready_Effect
  <2>2. PICK q : /\ Moved(p, q) /\ q.stage = "handling" /\ q.next = 2
                 /\ q.wasReady = p.wasReady /\ q.after = p.after
    BY <1>3, Ready_Effect
  <2>3. Open(t) /\ chan[t].seen = 0 /\ chan[t].out \in Batch
    BY <2>1, Numbers, ChannelTyped DEF Open, IInv, ChannelShape
  <2>4. ChannelShape'
    <3>1. ASSUME NEW o \in Channels, o # t PROVE chan'[o] = chan[o]
      BY <2>1, <3>1 DEF ChannelStep
    <3>2. chan'[t].state = "ready" /\ chan'[t].seen = 1 /\ chan'[t].out.acked = 2
      BY <2>1 DEF ChannelStep
    <3> QED BY <3>1, <3>2 DEF IInv, ChannelShape
  <2>5. Staged(q)'
    <3>1. /\ p.batch.acked < 1
          /\ p.after # <<>> => \E c \in Calls :
                p.after = <<ResultAck(c)>> /\ rec[c].status = "settled"
      BY <2>1 DEF IInv, StageShape, Staged
    <3>2. chan'[t].seen = 1 /\ chan'[t].out.acked = 2 /\ q.token = t /\ q.batch = p.batch
      BY <2>1, <2>2 DEF ChannelStep, Moved
    <3>3. p.batch.acked < 2
      BY <3>1, PostTyped DEF IInv
    <3> QED BY <2>1, <2>2, <3>1, <3>2, <3>3 DEF Staged
  <2>6. SaysOn /\ CallsFresh
    <3>1. \A o \in Channels : chan'[o].out = chan[o].out
      BY <2>1 DEF ChannelStep
    <3> QED BY <3>1, NothingIsSent, QuietStreams DEF IInv
  <2>7. Later(chan'[t].out, chan[t].out)
    BY <2>1, <2>3, LaterSelf
  <2> QED BY <1>1, <2>1, <2>2, <2>3, <2>4, <2>5, <2>6, <2>7, ChannelStep_Keeps
<1> QED BY <1>2, <1>3

(* TakeResult keeps the invariant. *)
LEMMA TakeResult_Keeps ==
    ASSUME IInv, NEW p \in posts, TakeResult(p)
    PROVE  IInv'
<1>1. /\ TypeOK' /\ UNCHANGED <<chan, reply, daemon, faults>>
      /\ RecordsKept(rec') /\ SettledBy(rec', {}) /\ OwnersKept(rec')
      /\ p.stage = "handling" /\ 3 <= p.next /\ p.next <= LastSeq(p.batch)
  BY TakeResult_Effect
<1>2. PICK q : /\ Moved(p, q) /\ q.stage = "committing" /\ q.next = p.next
               /\ q.wasReady = p.wasReady
               /\ \/ q.after = <<>>
                  \/ \E c \in Calls : q.after = <<ResultAck(c)>> /\ rec'[c].status = "settled"
  BY TakeResult_Effect
<1>3. \A o \in Channels : GoesOn(o)
  BY <1>1, KeptGoesOn
<1>4. WorkerStep /\ RecordsOn
  BY <1>1, <1>2, <1>3, MovedFrom, KeptRecordsOn DEF WorkerStep, ReplyFrom, IInv, Tokens
<1>5. SaysOn /\ CallsFresh
  BY <1>1, NothingIsSent, QuietStreams DEF IInv
<1>6. Staged(q)'
  <2>1. Staged(p) /\ q.token = p.token /\ q.batch = p.batch /\ p.next \in Nat
    BY <1>2, PostTyped DEF IInv, StageShape, Moved
  <2>2. 2 <= p.next
    BY <1>1, <2>1
  <2> QED BY <1>1, <1>2, <2>1, <2>2 DEF Staged, Open
<1>7. StageShape'
  BY <1>2, <1>4, <1>6, MovedStages
<1>8. Owners' /\ ChannelShape' /\ Reported
  BY <1>1, KeptOwners DEF Open, IInv, ChannelShape, Reported
<1>9. link.token # None => /\ chan'[link.token].out.acked <= link.seen
                           /\ chan'[link.token].seen <= LastSeq(link.out)
  BY <1>1 DEF IInv, Ends
<1>10. \A c \in Calls : rec[c].status = "new" /\ rec'[c].status # "new"
                          => rec'[c].status = "pending"
  BY <1>1 DEF RecordsKept
<1> QED BY <1>4, <1>5, <1>7, <1>8, <1>9, <1>10, WorkerStep_Keeps DEF StreamStep

(* A tool call names its call and is no other message. *)
LEMMA ToolCallsDiffer ==
    ASSUME NEW c, NEW d
    PROVE  /\ ToolCall(c) = ToolCall(d) => c = d
           /\ ToolCall(c) # ResultAck(d) /\ ToolCall(c) # CancelCall(d)
<1>1. ToolCall(c).id = c /\ ToolCall(d).id = d
  BY DEF ToolCall
<1>2. /\ ToolCall(c).type = "tool_call" /\ ResultAck(d).type = "tool_result_ack"
      /\ CancelCall(d).type = "cancel_call"
  BY DEF ToolCall, ResultAck, CancelCall
<1> QED BY <1>1, <1>2

(* What is sent on a ready channel. *)
LEMMA SentMessages ==
    ASSUME IInv, NEW t \in Channels, chan[t].state = "ready", NEW ms \in Seq(MessageType),
           Extended(chan'[t].out, chan[t].out, ms),
           \A x \in Channels : x # t => chan'[x] = chan[x],
           NEW o \in Channels, NEW n \in Nat, Sent(o, n)
    PROVE  /\ o = t /\ n >= 3 /\ n - LastSeq(chan[t].out) \in 1 .. Len(ms)
           /\ MessageAt(chan'[o].out, n) = ms[n - LastSeq(chan[t].out)]
<1>1. o = t
  BY NothingIsSent DEF IInv
<1>2. Has(chan'[t].out, n) /\ n > LastSeq(chan[t].out)
  BY <1>1 DEF Sent
<1>3. chan[t].out.acked >= 2 /\ chan[t].out.acked <= LastSeq(chan[t].out)
      /\ LastSeq(chan[t].out) \in Nat /\ chan[t].out.acked \in Nat
  BY ChannelTyped DEF IInv, ChannelShape
<1>4. ~Has(chan[t].out, n) /\ n >= 3
  BY <1>2, <1>3 DEF Has
<1> QED BY <1>1, <1>2, <1>4 DEF Extended

(* TakeResumeAck keeps the invariant: a call sent again has not run and is   *)
(* on its way once.                                                          *)
LEMMA TakeResumeAck_Keeps ==
    ASSUME IInv, NEW p \in posts, TakeResumeAck(p)
    PROVE  IInv'
<1> DEFINE t == p.token
<1>1. TypeOK'
  BY TakeResumeAck_Effect
<1>2. CASE Refused(p) /\ UNCHANGED <<rec, chan, daemon, faults>>
  BY <1>1, <1>2, Refused_Keeps
<1>3. CASE ~(Refused(p) /\ UNCHANGED <<rec, chan, daemon, faults>>)
  <2>1. /\ UNCHANGED <<reply, daemon, faults>>
        /\ t \in Channels /\ chan[t].state = "ready"
        /\ p.next = 2 /\ chan[t].seen = 1 /\ p.stage = "handling" /\ Has(p.batch, 2)
    BY <1>3, TakeResumeAck_Effect
  <2>2. PICK q : /\ Moved(p, q) /\ q.stage = "committing" /\ q.next = 2
                 /\ q.wasReady = p.wasReady /\ q.after = p.after
    BY <1>3, TakeResumeAck_Effect
  <2>3. PICK S \in SUBSET chan[t].expected, missing \in SUBSET Calls, again \in Seq(Calls) :
           /\ MessageAt(p.batch, 2) = ResumeAck(S) /\ missing \subseteq S
           /\ chan[t].answered.known => missing = {}
           /\ \A c \in missing : rec[c].status = "pending"
           /\ RecordsKept(rec') /\ SettledBy(rec', missing) /\ OwnersKept(rec')
           /\ \A i \in 1 .. Len(again) :
                 again[i] \in missing /\ rec'[again[i]].status = "pending"
           /\ \A i, j \in 1 .. Len(again) : again[i] = again[j] => i = j
           /\ ChannelStep(t, "ready", 1, [known |-> TRUE, ids |-> S])
           /\ Extended(chan'[t].out, chan[t].out,
                       [i \in 1 .. Len(again) |-> ToolCall(again[i])])
    BY <1>3, TakeResumeAck_Effect
  <2> DEFINE ms == [i \in 1 .. Len(again) |-> ToolCall(again[i])]
             ans == [known |-> TRUE, ids |-> S]
  <2>4. /\ ms \in Seq(MessageType) /\ Len(ms) = Len(again)
        /\ \A i \in 1 .. Len(ms) : ms[i] = ToolCall(again[i])
    BY MessagesTyped
  <2>5. Extended(chan'[t].out, chan[t].out, ms) /\ ChannelStep(t, "ready", 1, ans) /\ ans.known
        /\ ans.ids = S
    BY <2>3
  <2> HIDE DEF ms, ans
  <2>6. Open(t) /\ chan[t].out \in Batch /\ chan'[t].out \in Batch
    BY <1>1, <2>1, Numbers DEF Open, IInv, TypeOK, ChannelState
  <2>7. Later(chan'[t].out, chan[t].out) /\ chan'[t].out.acked = chan[t].out.acked
    BY <2>4, <2>5, <2>6, ExtendedLater DEF Extended
  <2>8. chan[t].answered.known => ans = chan[t].answered
    <3>1. ASSUME chan[t].answered.known PROVE ans = chan[t].answered
      <4>1. MessageAt(p.batch, 2) = ResumeAck(chan[t].answered.ids)
        BY <2>1, <3>1, Numbers DEF IInv, OneReport
      <4>2. chan[t].answered.ids = S
        BY <2>3, <4>1 DEF ResumeAck
      <4>3. chan[t].answered \in AnswerState
        BY <2>1, ChannelTyped DEF IInv
      <4> QED BY <3>1, <4>2, <4>3 DEF AnswerState, ans
    <3> QED BY <3>1
  <2>9. \A x \in Channels : GoesOn(x)
    BY <2>1, <2>5, <2>6, <2>7, <2>8, StepGoesOn
  <2>10. PostsFrom /\ WorkerStep
    BY <1>1, <2>1, <2>2, <2>9, MovedFrom, Numbers DEF WorkerStep, ReplyFrom
  <2>11. ASSUME NEW c \in missing
         PROVE  /\ started[c] = 0 /\ \A n \in Nat : ~Unread(c, n)
                /\ ~chan[t].answered.known
    <3>1. ~chan[t].answered.known /\ rec[c].status = "pending"
      BY <2>3
    <3>2. Named(t, c)
      BY <2>1, <2>3 DEF Named, ResumeAck
    <3> QED BY <2>1, <2>6, <3>1, <3>2 DEF IInv, MissingOK
  <2>12. RecordsOn
    BY <2>3, <2>11, KeptRecordsOn
  <2>13. \A x \in Channels : x # t => chan'[x] = chan[x]
    BY <2>5 DEF ChannelStep
  <2>14. ASSUME NEW o \in Channels, NEW n \in Nat, Sent(o, n)
         PROVE  /\ o = t /\ n >= 3
                /\ \E i \in 1 .. Len(again) : i = n - LastSeq(chan[t].out)
                       /\ MessageAt(chan'[o].out, n) = ToolCall(again[i])
    BY <2>1, <2>4, <2>5, <2>13, <2>14, SentMessages
  <2>15. SaysOn
    <3> SUFFICES ASSUME NEW o \in Channels, NEW n \in Nat, Sent(o, n)
                 PROVE  WorkerSays(n, MessageAt(chan'[o].out, n), chan[o].expected, rec')
      BY DEF SaysOn
    <3>1. PICK i \in 1 .. Len(again) : MessageAt(chan'[o].out, n) = ToolCall(again[i])
      BY <2>14
    <3>2. again[i] \in Calls /\ rec'[again[i]].status # "new" /\ n >= 3
      BY <2>3, <2>14
    <3> QED BY <3>1, <3>2 DEF WorkerSays
  <2>16. CallsFresh
    <3> SUFFICES ASSUME NEW o \in Channels, NEW c \in Calls, NEW n \in Nat, NewCall(o, c, n)
          PROVE  /\ Open(o) /\ (rec[c].status = "new" \/ chan'[o].answered.known)
                 /\ started[c] = 0 /\ \A k \in Nat : ~Unread(c, k)
                 /\ rec'[c].outcome # "not_received"
                 /\ c \in chan[o].expected => chan'[o].answered.known
                 /\ \A k \in Nat : NewCall(o, c, k) => n = k
      BY DEF CallsFresh
    <3>1. o = t /\ n >= 3
      BY <2>14 DEF NewCall
    <3>2. PICK i \in 1 .. Len(again) : i = n - LastSeq(chan[t].out) /\ c = again[i]
      BY <2>14, ToolCallsDiffer DEF NewCall
    <3>3. started[c] = 0 /\ (\A k \in Nat : ~Unread(c, k)) /\ rec'[c].status = "pending"
      BY <2>3, <2>11, <3>2
    <3>4. rec'[c].outcome # "not_received"
      BY <2>12, <3>3 DEF RecordsOn
    <3>5. chan'[t].answered.known
      BY <2>5 DEF ChannelStep
    <3>6. ASSUME NEW k \in Nat, NewCall(o, c, k) PROVE n = k
      <4>1. PICK j \in 1 .. Len(again) : j = k - LastSeq(chan[t].out) /\ c = again[j]
        BY <2>14, <3>6, ToolCallsDiffer DEF NewCall
      <4>2. i = j
        BY <2>3, <3>2, <4>1
      <4>3. LastSeq(chan[t].out) \in Nat
        BY ChannelTyped, <2>1 DEF IInv
      <4> QED BY <3>2, <4>1, <4>2, <4>3
    <3> QED BY <2>6, <3>1, <3>3, <3>4, <3>5, <3>6
  <2>17. Staged(q)'
    <3>1. Staged(p) /\ q.token = t /\ q.batch = p.batch
      BY <2>2 DEF IInv, StageShape, Moved
    <3>2. chan'[t].seen = 1 /\ chan'[t].out.acked >= 2 /\ 2 <= LastSeq(p.batch)
      BY <2>1, <2>5, <2>7 DEF ChannelStep, IInv, ChannelShape, Has
    <3>3. p.after # <<>> => \E c \in Calls : p.after = <<ResultAck(c)>> /\ rec'[c].status = "settled"
      BY <2>12, <3>1 DEF Staged, RecordsOn
    <3>4. p.batch.acked < 2
      BY <2>1, <3>1 DEF Staged
    <3> QED BY <2>1, <2>2, <3>1, <3>2, <3>3, <3>4 DEF Staged
  <2>18. StageShape'
    BY <2>2, <2>10, <2>12, <2>17, MovedStages
  <2>19. ChannelShape'
    <3>1. /\ chan'[t].state = "ready" /\ chan'[t].seen = 1 /\ chan'[t].out.acked >= 2
      BY <2>1, <2>5, <2>7 DEF ChannelStep, IInv, ChannelShape
    <3> QED BY <2>13, <3>1 DEF IInv, ChannelShape
  <2>20. Owners'
    <3>1. \A o \in Channels : Open(o) => Open(o)'
      BY <2>1, <2>5, <2>13 DEF Open, ChannelStep
    <3> QED BY <2>3, <3>1, KeptOwners
  <2>21. Reported
    <3>1. ASSUME NEW o \in Channels, chan'[o].answered.known, ~chan[o].answered.known
          PROVE  o = t /\ chan'[o].answered.ids = S
      BY <2>5, <2>13, <3>1 DEF ChannelStep
    <3> QED BY <2>1, <2>3, <3>1 DEF Reported
  <2>22. link.token # None => /\ chan'[link.token].out.acked <= link.seen
                              /\ chan'[link.token].seen <= LastSeq(link.out)
    <3>1. /\ chan'[t].out.acked = chan[t].out.acked /\ chan'[t].seen = chan[t].seen
      BY <2>1, <2>5, <2>7 DEF ChannelStep
    <3>2. link.token # None => link.token \in Channels
      BY LinkTyped DEF IInv
    <3> QED BY <2>13, <3>1, <3>2 DEF IInv, Ends
  <2>23. \A c \in Calls : rec[c].status = "new" /\ rec'[c].status # "new"
                            => rec'[c].status = "pending"
    BY <2>3 DEF RecordsKept
  <2> QED BY <2>10, <2>12, <2>15, <2>16, <2>18, <2>19, <2>20, <2>21, <2>22, <2>23,
             WorkerStep_Keeps DEF StreamStep
<1> QED BY <1>2, <1>3

(* What Commit does: the number is committed, or another handler was         *)
(* faster.                                                                   *)
LEMMA Commit_Effect ==
    ASSUME IInv, NEW p \in posts, Commit(p)
    PROVE  /\ TypeOK' /\ UNCHANGED <<rec, daemon, faults>>
           /\ p.stage = "committing" /\ p.token \in Channels /\ Opened(p.token)
           /\ \/ /\ chan[p.token].state = "ready"
                 /\ Extended(chan'[p.token].out, chan[p.token].out, p.after)
              \/ chan'[p.token].out = chan[p.token].out
           /\ \/ /\ p.next = chan[p.token].seen + 1 /\ UNCHANGED reply
                 /\ ChannelStep(p.token, chan[p.token].state, p.next, chan[p.token].answered)
                 /\ \E q : /\ Moved(p, q) /\ q.stage = "handling" /\ q.next = p.next + 1
                           /\ q.wasReady = p.wasReady /\ q.after = <<>>
              \/ /\ Refused(p)
                 /\ ChannelStep(p.token, chan[p.token].state, chan[p.token].seen,
                                chan[p.token].answered)
<1> DEFINE t == p.token
<1>1. p.stage = "committing" /\ t \in Channels /\ Opened(t) /\ p.next \in Nat
  BY Handled DEF Commit
<1>2. chan \in [Channels -> ChannelState] /\ p.after \in Seq(MessageType)
  BY PostTyped DEF IInv, TypeOK
<1>3. PICK sent : sent = TrySend(chan, t, p.after)
  OBVIOUS
<1>4. /\ sent \in [Channels -> ChannelState]
      /\ \A x \in Channels : x # t => sent[x] = chan[x]
      /\ sent[t].sid = chan[t].sid /\ sent[t].state = chan[t].state
      /\ sent[t].seen = chan[t].seen /\ sent[t].expected = chan[t].expected
      /\ sent[t].answered = chan[t].answered
      /\ \/ chan[t].state = "ready" /\ Extended(sent[t].out, chan[t].out, p.after)
         \/ sent[t].out = chan[t].out
  BY <1>1, <1>2, <1>3, Sends
<1>5. UNCHANGED <<rec, daemon, faults>>
  BY DEF Commit, daemon
<1>6. CASE Classify(chan[t].seen, p.next) = "new"
  <2>1. chan' = [sent EXCEPT ![t].seen = p.next] /\ UNCHANGED reply
    BY <1>3, <1>6 DEF Commit
  <2>2. /\ ChannelStep(t, chan[t].state, p.next, chan[t].answered)
        /\ chan'[t].out = sent[t].out
    BY <1>1, <1>4, <2>1 DEF ChannelStep, ChannelState
  <2>3. PICK q : /\ q = [p EXCEPT !.stage = "handling", !.next = @ + 1, !.after = <<>>]
                 /\ posts' = (posts \ {p}) \cup {q}
    BY <1>6 DEF Commit
  <2>4. /\ Moved(p, q) /\ q.stage = "handling" /\ q.next = p.next + 1
        /\ q.wasReady = p.wasReady /\ q.after = <<>>
    <3>1. p \in PostState /\ p.next + 1 \in Nat /\ <<>> \in Seq(MessageType)
      BY <1>1, PostTyped DEF IInv
    <3> QED BY <2>3, <3>1 DEF Moved, PostState
  <2>5. TypeOK'
    BY <1>5, <2>1, <2>2, <2>4, MovedTyped DEF IInv, TypeOK, ChannelStep
  <2>6. p.next = chan[t].seen + 1
    <3>1. chan[t].seen \in Nat
      BY <1>1, ChannelTyped DEF IInv
    <3> QED BY <1>1, <1>6, <3>1 DEF Classify
  <2> QED BY <1>1, <1>4, <1>5, <2>1, <2>2, <2>4, <2>5, <2>6
<1>7. CASE Classify(chan[t].seen, p.next) # "new"
  <2>1. chan' = sent /\ Refused(p)
    BY <1>3, <1>7 DEF Commit, Refused, Replied
  <2>2. ChannelStep(t, chan[t].state, chan[t].seen, chan[t].answered)
    BY <1>4, <2>1 DEF ChannelStep
  <2>3. TypeOK'
    <3>1. posts' \subseteq PostState /\ reply' \in ReplyState
      BY <2>1, RefusalTyped DEF IInv, TypeOK, Refused
    <3> QED BY <1>4, <1>5, <2>1, <3>1 DEF IInv, TypeOK, daemon
  <2> QED BY <1>1, <1>4, <1>5, <2>1, <2>2, <2>3
<1> QED BY <1>6, <1>7

(* Commit keeps the invariant: both handlers of one message end well. *)
LEMMA Commit_Keeps ==
    ASSUME IInv, NEW p \in posts, Commit(p)
    PROVE  IInv'
<1> DEFINE t == p.token
           s == chan[t].state
<1>1. /\ TypeOK' /\ UNCHANGED <<rec, daemon, faults>>
      /\ p.stage = "committing" /\ t \in Channels /\ Opened(t)
      /\ \/ s = "ready" /\ Extended(chan'[t].out, chan[t].out, p.after)
         \/ chan'[t].out = chan[t].out
  BY Commit_Effect
<1>2. PICK seen \in Nat :
         /\ ChannelStep(t, s, seen, chan[t].answered)
         /\ \/ /\ seen = p.next /\ seen = chan[t].seen + 1 /\ UNCHANGED reply
               /\ \E q : /\ Moved(p, q) /\ q.stage = "handling" /\ q.next = p.next + 1
                         /\ q.wasReady = p.wasReady /\ q.after = <<>>
            \/ Refused(p) /\ seen = chan[t].seen
  BY <1>1, Commit_Effect, PostTyped, ChannelTyped DEF IInv
<1>3. /\ chan[t].out \in Batch /\ chan'[t].out \in Batch /\ chan[t].seen \in Nat
      /\ s \in {"none", "probing", "ready", "closed"} /\ p.after \in Seq(MessageType)
      /\ LastSeq(p.batch) \in Nat /\ p.next \in Nat /\ p.batch.acked \in Nat
  BY <1>1, ChannelTyped, PostTyped DEF IInv, TypeOK, ChannelState
<1>4. Later(chan'[t].out, chan[t].out) /\ chan'[t].out.acked = chan[t].out.acked
  <2>1. CASE chan'[t].out = chan[t].out
    BY <1>3, <2>1, LaterSelf
  <2>2. CASE Extended(chan'[t].out, chan[t].out, p.after)
    BY <1>3, <2>2, ExtendedLater DEF Extended
  <2> QED BY <1>1, <2>1, <2>2
<1>5. Staged(p) /\ 2 <= p.next /\ p.next <= LastSeq(p.batch) /\ p.next <= chan[t].seen + 1
  BY <1>1 DEF IInv, StageShape, Staged
<1>6. chan[t].seen >= 1 /\ seen >= chan[t].seen
  BY <1>2, <1>3, <1>5
<1>7. s # "probing" /\ (Open(t) => s = "ready")
  BY <1>1, <1>6 DEF IInv, ChannelShape, Open
<1>8. \A x \in Channels : GoesOn(x)
  <2>1. CASE Open(t)
    BY <1>1, <1>2, <1>4, <1>6, <1>7, <2>1, StepGoesOn
  <2>2. CASE ~Open(t)
    <3>1. s = "closed"
      BY <1>1, <1>3, <1>7, <2>2, Numbers DEF Open, Opened
    <3>2. chan[t].out = NothingSent /\ chan'[t].out = NothingSent
      BY <1>1, <3>1 DEF IInv, ChannelShape
    <3>3. ~Open(t)' /\ Opened(t)'
      BY <1>1, <1>2, <3>1 DEF ChannelStep, Open, Opened
    <3>4. GoesOn(t)
      BY <1>1, <1>2, <1>6, <3>2, <3>3 DEF GoesOn, ChannelStep
    <3> QED BY <1>2, <3>4, KeptGoesOn DEF ChannelStep
  <2> QED BY <2>1, <2>2
<1>9. PostsFrom /\ ReplyFrom
  <2>1. CASE Refused(p)
    BY <2>1, RefusedFrom
  <2>2. CASE ~Refused(p)
    BY <1>1, <1>2, <2>2, MovedFrom, Numbers DEF ReplyFrom
  <2> QED BY <2>1, <2>2
<1>10. WorkerStep /\ RecordsOn
  BY <1>1, <1>8, <1>9, QuietRecords DEF WorkerStep
<1>11. StageShape'
  <2>1. CASE Refused(p)
    <3>1. \A q \in posts' : Staged(q)'
      BY <1>10, <2>1, StagedFrom DEF Refused
    <3> QED BY <3>1 DEF StageShape
  <2>2. CASE ~Refused(p)
    <3>1. seen = p.next /\ seen = chan[t].seen + 1
      BY <1>2, <2>2
    <3>2. PICK q : /\ Moved(p, q) /\ q.stage = "handling" /\ q.next = p.next + 1
                   /\ q.wasReady = p.wasReady /\ q.after = <<>>
      BY <1>2, <2>2
    <3>3. q.token = t /\ q.batch = p.batch /\ chan'[t].seen = p.next
      BY <1>2, <3>1, <3>2 DEF Moved, ChannelStep
    <3>4. q.batch.acked < q.next /\ q.next <= chan'[t].seen + 1 /\ chan'[t].seen >= 1
      BY <1>1, <1>3, <1>5, <3>2, <3>3 DEF Staged
    <3>5. LastSeq(q.batch) >= 1 /\ Open(t)' => chan'[t].out.acked >= 2
      <4>1. Open(t)' => Open(t)
        BY <1>1, <1>8 DEF GoesOn
      <4> QED BY <1>1, <1>4, <1>5, <3>3, <4>1 DEF Staged
    <3>6. Staged(q)'
      BY <3>2, <3>3, <3>4, <3>5 DEF Staged
    <3> QED BY <1>10, <3>2, <3>6, MovedStages
  <2> QED BY <2>1, <2>2
<1>12. ASSUME NEW o \in Channels, NEW n \in Nat, Sent(o, n)
       PROVE  /\ n >= 3
              /\ \E c \in Calls : /\ MessageAt(chan'[o].out, n) = ResultAck(c)
                                  /\ rec'[c].status = "settled"
  <2>1. \A x \in Channels : x # t => chan'[x] = chan[x]
    BY <1>2 DEF ChannelStep
  <2>2. s = "ready" /\ Extended(chan'[t].out, chan[t].out, p.after)
    <3>1. chan'[t].out # chan[t].out
      BY <1>12, <2>1, NothingIsSent DEF IInv
    <3> QED BY <1>1, <3>1
  <2>3. /\ n >= 3 /\ n - LastSeq(chan[t].out) \in 1 .. Len(p.after)
        /\ MessageAt(chan'[o].out, n) = p.after[n - LastSeq(chan[t].out)]
    BY <1>1, <1>3, <1>12, <2>1, <2>2, SentMessages
  <2>4. p.after # <<>>
    BY <2>3
  <2>5. PICK c \in Calls : p.after = <<ResultAck(c)>> /\ rec[c].status = "settled"
    BY <1>5, <2>4 DEF Staged
  <2>6. n - LastSeq(chan[t].out) = 1
    BY <2>3, <2>5
  <2> QED BY <1>1, <2>3, <2>5, <2>6
<1>13. SaysOn /\ CallsFresh
  <2>1. SaysOn
    BY <1>12 DEF SaysOn, WorkerSays
  <2>2. CallsFresh
    <3>1. ASSUME NEW o \in Channels, NEW c \in Calls, NEW n \in Nat PROVE ~NewCall(o, c, n)
      BY <1>12, ToolCallsDiffer DEF NewCall
    <3> QED BY <3>1 DEF CallsFresh
  <2> QED BY <2>1, <2>2
<1>14. ChannelShape'
  <2>1. /\ chan'[t].state = s /\ chan'[t].seen >= 1 /\ s # "probing"
        /\ s = "ready" => chan'[t].out.acked >= 2
        /\ s = "closed" => chan'[t].out = NothingSent
    BY <1>1, <1>2, <1>3, <1>4, <1>6, <1>7 DEF ChannelStep, IInv, ChannelShape
  <2> QED BY <1>2, <2>1 DEF IInv, ChannelShape, ChannelStep
<1>15. Owners'
  <2>1. \A o \in Channels : Open(o) => Open(o)'
    BY <1>2 DEF Open, ChannelStep
  <2>2. \A c \in Calls : rec[c].owner \in Channels \cup {None}
    BY DEF IInv, TypeOK, Record, None
  <2> QED BY <1>1, <2>1, <2>2 DEF IInv, Owners
<1>16. Reported
  BY <1>2 DEF Reported, ChannelStep
<1>17. ASSUME link.token # None
       PROVE  /\ chan'[link.token].out.acked <= link.seen
              /\ chan'[link.token].seen <= LastSeq(link.out)
  <2>1. link.token \in Channels /\ LastSeq(link.out) \in Nat
    BY <1>17, LinkTyped DEF IInv
  <2>2. CASE link.token # t
    BY <1>2, <1>17, <2>1, <2>2 DEF ChannelStep, IInv, Ends
  <2>3. CASE link.token = t
    <3>1. LastSeq(p.batch) <= LastSeq(link.out)
      BY <1>17, <2>3 DEF IInv, PostShape
    <3>2. chan[t].out.acked <= link.seen /\ chan[t].seen <= LastSeq(link.out)
      BY <1>17, <2>3 DEF IInv, Ends
    <3>3. seen = p.next \/ seen = chan[t].seen
      BY <1>2
    <3> QED BY <1>2, <1>3, <1>4, <1>5, <2>1, <2>3, <3>1, <3>2, <3>3 DEF ChannelStep
  <2> QED BY <2>2, <2>3
<1> QED BY <1>1, <1>10, <1>11, <1>13, <1>14, <1>15, <1>16, <1>17, WorkerStep_Keeps DEF StreamStep

(* A call that was never dispatched was never sent. *)
LEMMA NewUnread ==
    ASSUME IInv, NEW c \in Calls, rec[c].status = "new", NEW k \in Nat
    PROVE  ~Unread(c, k)
<1>1. ASSUME NEW b \in Batch, NEW ids, WorkerStream(b, ids, rec), Holds(b, k, ToolCall(c))
      PROVE  FALSE
  <2>1. Has(b, k) /\ MessageAt(b, k) = ToolCall(c)
    BY <1>1 DEF Holds
  <2>2. k \in Nat \ {0}
    <3>1. b.acked \in Nat /\ b.acked < k
      BY <2>1, BatchTyped DEF Has
    <3> QED BY <3>1
  <2>3. WorkerSays(k, ToolCall(c), ids, rec)
    BY <1>1, <2>1 DEF WorkerStream
  <2>4. ToolCall(c).type = "tool_call"
    BY DEF ToolCall
  <2>5. \E d \in Calls : ToolCall(c) = ToolCall(d) /\ rec[d].status # "new"
    BY <2>2, <2>3, <2>4, WorkerMessages
  <2> QED BY <2>5, ToolCallsDiffer
<1>2. ASSUME link.token # None, Holds(chan[link.token].out, k, ToolCall(c)) PROVE FALSE
  <2>1. link.token \in Channels
    BY <1>2, LinkTyped DEF IInv
  <2>2. chan[link.token].out \in Batch
    BY <2>1, ChannelTyped DEF IInv
  <2> QED BY <1>1, <1>2, <2>1, <2>2 DEF IInv, WorkerStreams
<1>3. ASSUME Answers, Holds(reply.batch, k, ToolCall(c)) PROVE FALSE
  BY <1>1, <1>3, ReplyTyped DEF IInv, WorkerStreams
<1> QED BY <1>2, <1>3 DEF Unread

(* Dispatch keeps the invariant: the call was never sent before. *)
LEMMA Dispatch_Keeps ==
    ASSUME IInv, NEW c \in Calls, NEW t \in Channels, Dispatch(c, t)
    PROVE  IInv'
<1> DEFINE ms == <<ToolCall(c)>>
<1>1. /\ rec[c].status = "new" /\ chan[t].state = "ready"
      /\ rec' = [rec EXCEPT ![c] = Registered(c, t, ThisInstance)]
      /\ UNCHANGED <<posts, reply, daemon, faults>>
  BY DEF Dispatch, daemon
<1>2. ms \in Seq(MessageType) /\ Len(ms) = 1 /\ ms[1] = ToolCall(c)
  BY MessagesTyped
<1>3. chan' = TrySend(chan, t, ms)
  BY DEF Dispatch
<1> HIDE DEF ms
<1>4. /\ chan' \in [Channels -> ChannelState]
      /\ ChannelStep(t, "ready", chan[t].seen, chan[t].answered)
      /\ Extended(chan'[t].out, chan[t].out, ms)
  <2>1. chan \in [Channels -> ChannelState]
    BY DEF IInv, TypeOK
  <2> QED BY <1>1, <1>2, <1>3, <2>1, Sends DEF ChannelStep
<1>5. /\ rec' \in [Calls -> Record] /\ \A d \in Calls : d # c => rec'[d] = rec[d]
      /\ rec'[c].status = "pending" /\ rec'[c].outcome = "none"
      /\ rec'[c].instance = ThisInstance /\ rec'[c].owner = t
  <2>1. Timeout[c] \in Nat /\ ThisInstance \in Instances
    BY Numbers, RecordsAssumption
  <2>2. PICK r \in Record : /\ r = Registered(c, t, ThisInstance) /\ r.status = "pending"
                            /\ r.outcome = "none" /\ r.instance = ThisInstance /\ r.owner = t
    <3>1. Registered(c, t, ThisInstance) \in Record
      BY <2>1 DEF Registered, NewRecord, Record, Outcomes
    <3> QED BY <3>1 DEF Registered, NewRecord
  <2>3. rec \in [Calls -> Record]
    BY DEF IInv, TypeOK
  <2> QED BY <1>1, <2>2, <2>3
<1>6. TypeOK'
  BY <1>1, <1>4, <1>5 DEF IInv, TypeOK, daemon
<1>7. /\ chan[t].out \in Batch /\ chan'[t].out \in Batch /\ chan[t].seen \in Nat /\ Open(t)
  BY <1>1, <1>6, ChannelTyped, Numbers DEF IInv, TypeOK, ChannelState, Open
<1>8. Later(chan'[t].out, chan[t].out) /\ chan'[t].out.acked = chan[t].out.acked
  BY <1>2, <1>4, <1>7, ExtendedLater DEF Extended
<1>9. \A x \in Channels : GoesOn(x)
  BY <1>4, <1>7, <1>8, StepGoesOn
<1>10. WorkerStep
  <2>1. PostsFrom
    BY <1>1 DEF PostsFrom, IInv, Tokens, OneAtATime
  <2> QED BY <1>1, <1>6, <1>9, <2>1 DEF WorkerStep, ReplyFrom
<1>11. RecordsOn
  BY <1>1, <1>5 DEF IInv, RunsOK, RecordsOn
<1>12. \A x \in Channels : x # t => chan'[x] = chan[x]
  BY <1>4 DEF ChannelStep
<1>13. ASSUME NEW o \in Channels, NEW n \in Nat, Sent(o, n)
       PROVE  /\ o = t /\ n >= 3 /\ n = LastSeq(chan[t].out) + 1
              /\ MessageAt(chan'[o].out, n) = ToolCall(c)
  <2>1. /\ o = t /\ n >= 3 /\ n - LastSeq(chan[t].out) \in 1 .. Len(ms)
        /\ MessageAt(chan'[o].out, n) = ms[n - LastSeq(chan[t].out)]
    BY <1>1, <1>2, <1>4, <1>12, <1>13, SentMessages
  <2>2. LastSeq(chan[t].out) \in Nat
    BY <1>7, BatchTyped
  <2>3. n - LastSeq(chan[t].out) = 1
    BY <1>2, <2>1, <2>2
  <2> QED BY <1>2, <2>1, <2>2, <2>3
<1>14. SaysOn
  BY <1>5, <1>13 DEF SaysOn, WorkerSays
<1>15. CallsFresh
  <2> SUFFICES ASSUME NEW o \in Channels, NEW d \in Calls, NEW n \in Nat, NewCall(o, d, n)
        PROVE  /\ Open(o) /\ (rec[d].status = "new" \/ chan'[o].answered.known)
               /\ started[d] = 0 /\ \A k \in Nat : ~Unread(d, k)
               /\ rec'[d].outcome # "not_received"
               /\ d \in chan[o].expected => chan'[o].answered.known
               /\ \A k \in Nat : NewCall(o, d, k) => n = k
    BY DEF CallsFresh
  <2>1. o = t /\ d = c /\ n = LastSeq(chan[t].out) + 1
    BY <1>13, ToolCallsDiffer DEF NewCall
  <2>2. \A k \in Nat : NewCall(o, d, k) => n = k
    BY <1>13, <2>1 DEF NewCall
  <2>3. \A k \in Nat : ~Unread(c, k)
    BY <1>1, NewUnread
  <2>4. started[c] = 0 /\ c \notin chan[t].expected
    BY <1>1 DEF IInv, RunsOK
  <2> QED BY <1>1, <1>5, <1>7, <2>1, <2>2, <2>3, <2>4
<1>16. StageShape'
  <2>1. \A q \in posts : Staged(q)'
    BY <1>10, <1>11, StagedFrom
  <2> QED BY <1>1, <2>1 DEF StageShape
<1>17. ChannelShape'
  <2>1. /\ chan'[t].state = "ready" /\ chan'[t].seen >= 1 /\ chan'[t].out.acked >= 2
    BY <1>1, <1>4, <1>8 DEF ChannelStep, IInv, ChannelShape
  <2> QED BY <1>12, <2>1 DEF IInv, ChannelShape
<1>18. Owners'
  <2>1. \A o \in Channels : Open(o) => Open(o)'
    BY <1>1, <1>4, <1>12 DEF Open, ChannelStep
  <2>2. \A d \in Calls : rec[d].owner \in Channels \cup {None}
    BY DEF IInv, TypeOK, Record, None
  <2>3. Open(t)'
    BY <1>7, <2>1
  <2> QED BY <1>5, <2>1, <2>2, <2>3 DEF IInv, Owners, Open
<1>19. Reported
  BY <1>4 DEF Reported, ChannelStep
<1>20. link.token # None => /\ chan'[link.token].out.acked <= link.seen
                            /\ chan'[link.token].seen <= LastSeq(link.out)
  <2>1. link.token # None => link.token \in Channels
    BY LinkTyped DEF IInv
  <2> QED BY <1>4, <1>8, <1>12, <2>1 DEF ChannelStep, IInv, Ends
<1>21. \A d \in Calls : rec[d].status = "new" /\ rec'[d].status # "new"
                          => rec'[d].status = "pending"
  BY <1>5
<1> QED BY <1>10, <1>11, <1>14, <1>15, <1>16, <1>17, <1>18, <1>19, <1>20, <1>21,
           WorkerStep_Keeps DEF StreamStep

(* CancelRequest keeps the invariant. *)
LEMMA CancelRequest_Keeps ==
    ASSUME IInv, NEW c \in Calls, CancelRequest(c)
    PROVE  IInv'
<1> DEFINE ms == <<CancelCall(c)>>
           t == rec[c].owner
<1>1. /\ rec[c].status = "pending" /\ rec' = SettleAll(rec, {c}, "cancelled")
      /\ UNCHANGED <<posts, reply, daemon, faults>>
  BY DEF CancelRequest, daemon, Pending
<1>2. ms \in Seq(MessageType) /\ Len(ms) = 1 /\ ms[1] = CancelCall(c)
  BY MessagesTyped
<1>3. chan' = TrySend(chan, t, ms) /\ chan \in [Channels -> ChannelState]
  BY DEF CancelRequest, IInv, TypeOK
<1> HIDE DEF ms
<1>4. t \in Channels \cup {None} /\ rec \in [Calls -> Record]
  BY DEF IInv, TypeOK, Record, None
<1>5. /\ rec' \in [Calls -> Record] /\ \A d \in Calls : d # c => rec'[d] = rec[d]
      /\ rec'[c].status = "settled" /\ rec'[c].outcome = "cancelled"
  <2>1. "cancelled" \in Outcomes /\ None \in Channels \cup {None} /\ rec[c] \in Record
    BY <1>4 DEF Outcomes, Failures
  <2>2. /\ Settled(rec[c], "cancelled", None) \in Record
        /\ Settled(rec[c], "cancelled", None).status = "settled"
        /\ Settled(rec[c], "cancelled", None).outcome = "cancelled"
    BY <2>1, RecordOps
  <2>3. rec'[c] = Settled(rec[c], "cancelled", None)
        /\ rec' = [d \in Calls |-> IF d = c THEN Settled(rec[c], "cancelled", None) ELSE rec[d]]
    BY <1>1 DEF SettleAll, Pending, None
  <2> QED BY <1>4, <2>2, <2>3
<1>6. RecordsKept(rec') /\ SettledBy(rec', {}) /\ OwnersKept(rec')
  BY <1>1, <1>5 DEF RecordsKept, SettledBy, OwnersKept
<1>7. RecordsOn
  BY <1>6, KeptRecordsOn
<1>8. PostsFrom /\ ReplyFrom
  BY <1>1 DEF PostsFrom, ReplyFrom, IInv, Tokens, OneAtATime
<1>9. \A d \in Calls : rec[d].status = "new" /\ rec'[d].status # "new" => rec'[d].status = "pending"
  BY <1>1, <1>5
<1>10. CASE t = None \/ chan[t].state # "ready"
  <2>1. UNCHANGED chan
    BY <1>3, <1>10 DEF TrySend
  <2>2. TypeOK'
    BY <1>1, <1>5, <2>1 DEF IInv, TypeOK, daemon
  <2>3. WorkerStep
    BY <1>1, <1>8, <2>1, <2>2, KeptGoesOn DEF WorkerStep
  <2>4. SaysOn /\ CallsFresh
    BY <2>1, NothingIsSent, QuietStreams DEF IInv
  <2>5. StageShape'
    <3>1. \A q \in posts : Staged(q)'
      BY <1>7, <2>3, StagedFrom
    <3> QED BY <1>1, <3>1 DEF StageShape
  <2>6. Owners' /\ ChannelShape' /\ Reported
    BY <1>6, <2>1, KeptOwners DEF Open, IInv, ChannelShape, Reported
  <2>7. link.token # None => /\ chan'[link.token].out.acked <= link.seen
                             /\ chan'[link.token].seen <= LastSeq(link.out)
    BY <2>1 DEF IInv, Ends
  <2> QED BY <1>7, <1>9, <2>3, <2>4, <2>5, <2>6, <2>7, WorkerStep_Keeps DEF StreamStep
<1>11. CASE t # None /\ chan[t].state = "ready"
  <2>1. t \in Channels
    BY <1>4, <1>11
  <2>2. /\ chan' \in [Channels -> ChannelState]
        /\ ChannelStep(t, "ready", chan[t].seen, chan[t].answered)
        /\ Extended(chan'[t].out, chan[t].out, ms)
    <3>1. PICK o \in Channels : o = t
      BY <2>1
    <3>2. chan[o].state = "ready" /\ chan' = TrySend(chan, o, ms)
      BY <1>3, <1>11, <3>1
    <3>3. /\ chan' \in [Channels -> ChannelState]
          /\ ChannelStep(o, "ready", chan[o].seen, chan[o].answered)
          /\ Extended(chan'[o].out, chan[o].out, ms)
      BY <1>2, <1>3, <3>2, Sends DEF ChannelStep
    <3> QED BY <3>1, <3>3
  <2> HIDE DEF t
  <2>3. TypeOK'
    BY <1>1, <1>5, <2>2 DEF IInv, TypeOK, daemon
  <2>4. /\ chan[t].out \in Batch /\ chan'[t].out \in Batch /\ chan[t].seen \in Nat /\ Open(t)
    BY <1>11, <2>1, <2>3, ChannelTyped, Numbers DEF IInv, TypeOK, ChannelState, Open
  <2>5. Later(chan'[t].out, chan[t].out) /\ chan'[t].out.acked = chan[t].out.acked
    BY <1>2, <2>2, <2>4, ExtendedLater DEF Extended
  <2>6. \A x \in Channels : GoesOn(x)
    BY <2>1, <2>2, <2>4, <2>5, StepGoesOn
  <2>7. WorkerStep
    BY <1>1, <1>8, <2>3, <2>6 DEF WorkerStep
  <2>8. \A x \in Channels : x # t => chan'[x] = chan[x]
    BY <2>2 DEF ChannelStep
  <2>9. ASSUME NEW o \in Channels, NEW n \in Nat, Sent(o, n)
        PROVE  n >= 3 /\ MessageAt(chan'[o].out, n) = CancelCall(c)
    <3>1. /\ o = t /\ n >= 3 /\ n - LastSeq(chan[t].out) \in 1 .. Len(ms)
          /\ MessageAt(chan'[o].out, n) = ms[n - LastSeq(chan[t].out)]
      BY <1>2, <1>11, <2>1, <2>2, <2>8, <2>9, SentMessages
    <3>2. n - LastSeq(chan[t].out) = 1
      BY <1>2, <3>1
    <3> QED BY <1>2, <3>1, <3>2
  <2>10. SaysOn
    BY <1>5, <2>9 DEF SaysOn, WorkerSays
  <2>11. CallsFresh
    <3>1. ASSUME NEW o \in Channels, NEW d \in Calls, NEW n \in Nat PROVE ~NewCall(o, d, n)
      BY <2>9, ToolCallsDiffer DEF NewCall
    <3> QED BY <3>1 DEF CallsFresh
  <2>12. StageShape'
    <3>1. \A q \in posts : Staged(q)'
      BY <1>7, <2>7, StagedFrom
    <3> QED BY <1>1, <3>1 DEF StageShape
  <2>13. ChannelShape'
    <3>1. /\ chan'[t].state = "ready" /\ chan'[t].seen >= 1 /\ chan'[t].out.acked >= 2
      BY <1>11, <2>1, <2>2, <2>5 DEF ChannelStep, IInv, ChannelShape
    <3> QED BY <2>8, <3>1 DEF IInv, ChannelShape
  <2>14. Owners'
    <3>1. \A o \in Channels : Open(o) => Open(o)'
      BY <1>11, <2>2, <2>8 DEF Open, ChannelStep
    <3> QED BY <1>6, <3>1, KeptOwners
  <2>15. Reported
    BY <2>2 DEF Reported, ChannelStep
  <2>16. link.token # None => /\ chan'[link.token].out.acked <= link.seen
                              /\ chan'[link.token].seen <= LastSeq(link.out)
    <3>1. link.token # None => link.token \in Channels
      BY LinkTyped DEF IInv
    <3> QED BY <2>2, <2>5, <2>8, <3>1 DEF ChannelStep, IInv, Ends
  <2> QED BY <1>7, <1>9, <2>7, <2>10, <2>11, <2>12, <2>13, <2>14, <2>15, <2>16,
             WorkerStep_Keeps DEF StreamStep
<1> QED BY <1>10, <1>11

(* The calls of lost channels. *)
LEMMA AfterLoss ==
    ASSUME IInv, NEW S \in SUBSET Channels
    PROVE  /\ RecordsKept(CallsAfterLoss(S)) /\ SettledBy(CallsAfterLoss(S), {})
           /\ \A c \in Calls : CallsAfterLoss(S)[c].status = "pending" =>
                \/ CallsAfterLoss(S)[c].owner = None
                \/ rec[c].owner \notin S /\ CallsAfterLoss(S)[c].owner = rec[c].owner
<1> DEFINE R == CallsAfterLoss(S)
<1>1. ASSUME NEW c \in Calls
      PROVE  /\ R[c] \in Record
             /\ \/ R[c].status = rec[c].status
                \/ rec[c].status = "pending" /\ R[c].status = "settled"
             /\ R[c].status # "settled" =>
                  R[c].instance = rec[c].instance /\ R[c].outcome = rec[c].outcome
             /\ R[c].outcome = "not_received" => rec[c].outcome = "not_received"
             /\ R[c].status = "pending" =>
                  \/ R[c].owner = None
                  \/ rec[c].owner \notin S /\ R[c].owner = rec[c].owner
  <2>1. rec[c] \in Record /\ "disconnected" \in Outcomes /\ None \in Channels \cup {None}
    BY DEF IInv, TypeOK, Outcomes, Failures
  <2>2. CASE rec[c].status = "pending" /\ rec[c].owner \in S
    <3>1. R[c] = Detached(rec[c]) \/ R[c] = Settled(rec[c], "disconnected", None)
      BY <2>2 DEF CallsAfterLoss, Pending
    <3>2. CASE R[c] = Detached(rec[c])
      <4>1. /\ Detached(rec[c]) \in Record /\ Detached(rec[c]).status = rec[c].status
            /\ Detached(rec[c]).owner = None /\ Detached(rec[c]).instance = rec[c].instance
            /\ Detached(rec[c]).outcome = rec[c].outcome
        BY <2>1, RecordOps
      <4> HIDE DEF R
      <4> QED BY <3>2, <4>1
    <3>3. CASE R[c] = Settled(rec[c], "disconnected", None)
      <4>1. /\ Settled(rec[c], "disconnected", None) \in Record
            /\ Settled(rec[c], "disconnected", None).status = "settled"
            /\ Settled(rec[c], "disconnected", None).outcome = "disconnected"
        BY <2>1, RecordOps
      <4> HIDE DEF R
      <4> QED BY <2>2, <3>3, <4>1
    <3> QED BY <3>1, <3>2, <3>3
  <2>3. CASE ~(rec[c].status = "pending" /\ rec[c].owner \in S)
    <3>1. R[c] = rec[c]
      BY <2>3 DEF CallsAfterLoss, Pending
    <3> HIDE DEF R
    <3> QED BY <2>1, <2>3, <3>1
  <2> QED BY <2>2, <2>3
<1>2. R \in [Calls -> Record]
  BY <1>1 DEF CallsAfterLoss
<1> HIDE DEF R
<1>3. RecordsKept(R) /\ SettledBy(R, {})
  BY <1>1, <1>2 DEF RecordsKept, SettledBy
<1> QED BY <1>1, <1>3 DEF R

(* Reclaim keeps the invariant: the calls of the channel are detached or     *)
(* rejected.                                                                 *)
LEMMA Reclaim_Keeps ==
    ASSUME IInv, NEW t \in Channels, Reclaim(t)
    PROVE  IInv'
<1>1. /\ Open(t) /\ rec' = CallsAfterLoss({t}) /\ chan' = ClosedChannels({t})
      /\ UNCHANGED <<posts, reply, daemon>> /\ faults < MaxFaults /\ faults' = faults + 1
  BY DEF Reclaim, daemon
<1>2. /\ RecordsKept(rec') /\ SettledBy(rec', {})
      /\ \A c \in Calls : rec'[c].status = "pending" =>
           rec'[c].owner = None \/ (rec[c].owner \notin {t} /\ rec'[c].owner = rec[c].owner)
  <2>1. {t} \in SUBSET Channels
    OBVIOUS
  <2> QED BY <1>1, <2>1, AfterLoss
<1>3. /\ chan' \in [Channels -> ChannelState]
      /\ \A x \in Channels : x # t => chan'[x] = chan[x]
      /\ chan'[t].state = "closed" /\ chan'[t].out = NothingSent /\ chan'[t].seen = chan[t].seen
      /\ chan'[t].sid = chan[t].sid /\ chan'[t].expected = chan[t].expected
      /\ chan'[t].answered = chan[t].answered
  <2>1. chan \in [Channels -> ChannelState] /\ NothingSent \in Batch
    BY NothingSentEffect DEF IInv, TypeOK
  <2> QED BY <1>1, <2>1, ZenonT(60) DEF ClosedChannels, ChannelState
<1>4. TypeOK'
  <2>1. faults' \in 0 .. MaxFaults
    BY <1>1, HttpAssumption DEF IInv, TypeOK
  <2> QED BY <1>1, <1>2, <1>3, <2>1 DEF IInv, TypeOK, RecordsKept, daemon
<1>5. \A x \in Channels : GoesOn(x)
  <2>1. GoesOn(t)
    <3>1. ~Open(t)' /\ Opened(t) /\ Opened(t)'
      BY <1>1, <1>3 DEF Open, Opened
    <3>2. chan[t].seen \in Nat /\ chan'[t].out.acked = 0
      BY <1>3, ChannelTyped, NothingSentEffect DEF IInv
    <3>3. chan'[t].seen >= chan[t].seen
      BY <1>3, <3>2
    <3> QED BY <1>3, <3>1, <3>2, <3>3 DEF GoesOn
  <2> QED BY <1>3, <2>1, KeptGoesOn
<1>6. WorkerStep
  <2>1. PostsFrom /\ ReplyFrom
    BY <1>1 DEF PostsFrom, ReplyFrom, IInv, Tokens, OneAtATime
  <2> QED BY <1>1, <1>4, <1>5, <2>1 DEF WorkerStep
<1>7. RecordsOn
  BY <1>2, KeptRecordsOn
<1>8. SaysOn /\ CallsFresh
  <2>1. \A o \in Channels : chan'[o].out = chan[o].out \/ chan'[o].out = NothingSent
    BY <1>3
  <2> QED BY <2>1, NothingIsSent, QuietStreams DEF IInv
<1>9. StageShape'
  <2>1. \A q \in posts : Staged(q)'
    BY <1>6, <1>7, StagedFrom
  <2> QED BY <1>1, <2>1 DEF StageShape
<1>10. ChannelShape'
  <2>1. chan[t].answered.known => chan[t].seen >= 1
    BY DEF IInv, ChannelShape
  <2> QED BY <1>3, <2>1 DEF IInv, ChannelShape
<1>11. Owners'
  <2>1. ASSUME NEW c \in Calls, rec'[c].status = "pending"
        PROVE  rec'[c].instance = ThisInstance /\ (rec'[c].owner # None => Open(rec[c].owner)'
                                                   /\ rec'[c].owner = rec[c].owner)
    <3>1. rec[c].status = "pending" /\ rec'[c].instance = rec[c].instance
      BY <1>2, <2>1 DEF RecordsKept
    <3>2. rec[c].owner \in Channels \cup {None}
      BY DEF IInv, TypeOK, Record, None
    <3>3. rec'[c].owner # None => rec'[c].owner = rec[c].owner /\ rec[c].owner # t
      BY <1>2, <2>1
    <3>4. rec[c].owner # None => Open(rec[c].owner)
      BY <3>1 DEF IInv, Owners
    <3>5. rec'[c].owner # None => chan'[rec[c].owner] = chan[rec[c].owner]
      BY <1>3, <3>2, <3>3
    <3> QED BY <3>1, <3>3, <3>4, <3>5 DEF IInv, Owners, Open
  <2> QED BY <2>1 DEF Owners
<1>12. Reported
  BY <1>3 DEF Reported
<1>13. ASSUME link.token # None
       PROVE  /\ chan'[link.token].out.acked <= link.seen
              /\ chan'[link.token].seen <= LastSeq(link.out)
  <2>1. link.token \in Channels /\ link.seen \in Nat
    BY <1>13, LinkTyped DEF IInv
  <2>2. chan[link.token].out.acked <= link.seen /\ chan[link.token].seen <= LastSeq(link.out)
    BY <1>13 DEF IInv, Ends
  <2>3. NothingSent.acked = 0
    BY NothingSentEffect
  <2> QED BY <1>3, <2>1, <2>2, <2>3
<1>14. \A c \in Calls : rec[c].status = "new" /\ rec'[c].status # "new"
                          => rec'[c].status = "pending"
  BY <1>2 DEF RecordsKept
<1> QED BY <1>6, <1>7, <1>8, <1>9, <1>10, <1>11, <1>12,
           <1>13, <1>14, WorkerStep_Keeps DEF StreamStep

-----------------------------------------------------------------------------
(* Polls that fail, with and without a new session. *)
SameButLive(q, p) ==
    /\ q.sid = p.sid /\ q.token = p.token /\ q.ack = p.ack /\ q.batch = p.batch
    /\ q.stage = p.stage /\ q.next = p.next /\ q.wasReady = p.wasReady /\ q.after = p.after

(* Polls given up are the polls there were. *)
LEMMA GivenUpFrom ==
    ASSUME IInv, posts' = GivenUp
    PROVE  /\ posts' \subseteq PostState
           /\ \A q \in posts' : ~q.live /\ \E p \in posts : SameButLive(q, p)
<1> SUFFICES ASSUME NEW q \in posts'
             PROVE  q \in PostState /\ ~q.live /\ \E p \in posts : SameButLive(q, p)
  OBVIOUS
<1>1. PICK p \in posts : q = [p EXCEPT !.live = FALSE]
  BY DEF GivenUp
<1>2. p \in PostState
  BY PostTyped DEF IInv
<1> QED BY <1>1, <1>2 DEF PostState, SameButLive

(* The daemon hears no more of its polls. *)
LEMMA GivenUp_Keeps ==
    ASSUME IInv, TypeOK', \A q \in posts' : ~q.live /\ \E p \in posts : SameButLive(q, p),
           reply' = NoReply, UNCHANGED <<rec, chan, daemon>>
    PROVE  IInv'
<1>1. PostsFrom /\ ReplyFrom
  <2>1. ASSUME NEW q \in posts'
        PROVE  \E p \in posts :
                  /\ q.sid = p.sid /\ q.token = p.token /\ q.ack = p.ack /\ q.batch = p.batch
                  /\ q.live => p.live
                  /\ q.stage # "sent" => p.token # None
    <3>1. PICK p \in posts : SameButLive(q, p) /\ ~q.live
      OBVIOUS
    <3> QED BY <3>1 DEF SameButLive, IInv, Tokens
  <2> QED BY <2>1, ValuesTyped DEF PostsFrom, ReplyFrom
<1>2. WorkerStep /\ RecordsOn /\ (StageShape' => IInv')
  BY <1>1, StillStep
<1>3. ASSUME NEW q \in posts' PROVE Staged(q)'
  <2>1. PICK p \in posts : SameButLive(q, p)
    OBVIOUS
  <2> QED BY <1>2, <2>1, StagedFrom DEF SameButLive
<1> QED BY <1>2, <1>3 DEF StageShape

(* A new session keeps the invariant: no channel bears its number. *)
LEMMA Reset_Keeps ==
    ASSUME IInv, \A q \in posts' : ~q.live /\ q \in PostState /\ \E p \in posts : SameButLive(q, p),
           reply' = NoReply, ResetSession, faults' \in 0 .. MaxFaults,
           UNCHANGED <<rec, chan, local, started, violation>>
    PROVE  IInv'
<1>1. sid' = sid + 1 /\ sid' \in Sessions /\ link' = NewLink
  BY DEF ResetSession
<1>2. TypeOK'
  BY <1>1, ValuesTyped DEF IInv, TypeOK
<1>3. /\ link'.token = None /\ link'.seen = 0 /\ link'.out = NothingSent /\ ~Answers'
      /\ reply'.kind = "none" /\ ~link'.localReady /\ ~link'.ready /\ ~link'.resume.known
      /\ link'.resume.ids = {}
  BY <1>1, ValuesTyped DEF Answers
<1>4. \A o \in Channels : Opened(o) => chan[o].sid \in 1 .. sid
  BY DEF IInv, Tokens
<1>5. sid \in Nat /\ None \notin Channels /\ 0 \notin 1 .. sid
  BY LinkTyped, Numbers DEF IInv
<1>6. \A o \in Channels : chan[o].sid # sid'
  <2>1. \A o \in Channels : Opened(o) \/ chan[o].sid = 0
    BY ValuesTyped DEF IInv, Ordered
  <2> QED BY <1>1, <1>4, <1>5, <2>1
<1>7. Ordered' /\ ChannelShape' /\ Owners' /\ NoProtocolViolation'
  BY DEF IInv, Ordered, ChannelShape, Owners, NoProtocolViolation, Opened, Open
<1>8. Tokens'
  <2>1. \A o \in Channels : Opened(o)' => chan'[o].sid \in 1 .. sid'
    BY <1>1, <1>4, <1>5 DEF Opened
  <2>2. ASSUME NEW q \in posts'
        PROVE  /\ q.sid <= sid'
               /\ q.token # None => Opened(q.token)' /\ chan'[q.token].sid = q.sid
               /\ q.stage # "sent" => q.token # None
    <3>1. PICK p \in posts : SameButLive(q, p)
      OBVIOUS
    <3>2. p.sid \in Nat /\ p.sid <= sid
      BY PostTyped DEF IInv, Tokens
    <3>3. p.sid <= sid'
      BY <1>1, <1>5, <3>2
    <3> QED BY <3>1, <3>3 DEF SameButLive, IInv, Tokens, Opened
  <2> QED BY <1>3, <2>1, <2>2 DEF Tokens
<1>9. OneAtATime' /\ Unlearned'
  BY <1>6 DEF OneAtATime, Unlearned
<1>10. LinkShape'
  BY <1>1, <1>3 DEF LinkShape
<1>11. WorkerStreams' /\ ReplyShape' /\ Ends'
  BY <1>3 DEF IInv, WorkerStreams, ReplyShape, Ends
<1>12. DaemonStreams'
  <2>1. ASSUME NEW q \in posts', q.token # None
        PROVE  DaemonStream(q.batch, chan[q.token].expected, started)
    <3>1. PICK p \in posts : SameButLive(q, p)
      OBVIOUS
    <3> QED BY <2>1, <3>1 DEF SameButLive, IInv, DaemonStreams
  <2> QED BY <1>3, <2>1 DEF DaemonStreams
<1>13. PostShape'
  <2>1. ASSUME NEW q \in posts'
        PROVE  /\ q.token = None => q.batch = NothingSent
               /\ q.token # None =>
                    /\ q.batch.acked <= chan[q.token].seen
                    /\ LastSeq(q.batch) >= 1 => q.ack >= 2
    <3>1. PICK p \in posts : SameButLive(q, p)
      OBVIOUS
    <3> QED BY <3>1 DEF SameButLive, IInv, PostShape
  <2> QED BY <1>3, <2>1 DEF PostShape
<1>14. StageShape'
  <2>1. ASSUME NEW q \in posts' PROVE Staged(q)'
    <3>1. PICK p \in posts : SameButLive(q, p)
      OBVIOUS
    <3> QED BY <3>1 DEF SameButLive, IInv, StageShape, Staged, Open
  <2> QED BY <2>1 DEF StageShape
<1>15. OneReport'
  <2>1. ASSUME NEW q \in posts', q.token # None, Has(q.batch, 2)
        PROVE  /\ \A r \in posts' : r.token = q.token /\ Has(r.batch, 2) =>
                     MessageAt(r.batch, 2) = MessageAt(q.batch, 2)
               /\ chan[q.token].answered.known =>
                     MessageAt(q.batch, 2) = ResumeAck(chan[q.token].answered.ids)
    <3>1. PICK p \in posts : SameButLive(q, p)
      OBVIOUS
    <3> QED BY <2>1, <3>1 DEF SameButLive, IInv, OneReport
  <2> QED BY <1>3, <2>1 DEF OneReport
<1>16. \A c \in Calls, n \in Nat : ~Unread(c, n)'
  BY <1>3 DEF Unread
<1>17. MissingOK'
  <2> SUFFICES ASSUME NEW o \in Channels, NEW c \in Calls, Open(o)', ~chan'[o].answered.known,
                      Named(o, c)', rec'[c].status = "pending"
               PROVE  started'[c] = 0 /\ \A n \in Nat : ~Unread(c, n)'
    BY DEF MissingOK
  <2>1. PICK q \in posts' : q.token = o /\ Has(q.batch, 2) /\ c \in MessageAt(q.batch, 2).ids
    BY <1>3, <1>5 DEF Named
  <2>2. PICK p \in posts : SameButLive(q, p)
    OBVIOUS
  <2>3. Named(o, c)
    BY <2>1, <2>2 DEF Named, SameButLive
  <2> QED BY <1>16, <2>3 DEF IInv, MissingOK, Open
<1>18. SentOnce'
  BY <1>3, <1>16 DEF IInv, SentOnce
<1>19. RunsOK'
  BY <1>6 DEF IInv, RunsOK
<1> QED BY <1>2, <1>7, <1>8, <1>9, <1>10, <1>11, <1>12, <1>13, <1>14, <1>15, <1>17, <1>18, <1>19
        DEF IInv

(* No poll is live while a response is on its way. *)
LEMMA SameSame ==
    ASSUME IInv, reply # NoReply, posts' = posts
    PROVE  \A q \in posts' : ~q.live /\ q \in PostState /\ \E p \in posts : SameButLive(q, p)
<1>1. \A q \in posts : ~q.live /\ q \in PostState
  BY PostTyped DEF IInv, OneAtATime
<1>2. \A q \in posts : SameButLive(q, q)
  BY DEF SameButLive
<1> QED BY <1>1, <1>2

(* Faults stay within their bound. *)
LEMMA OneMoreFault ==
    ASSUME TypeOK, faults < MaxFaults, faults' = faults + 1
    PROVE  faults' \in 0 .. MaxFaults
BY HttpAssumption DEF TypeOK

(* Failed keeps the invariant. *)
LEMMA Failed_Keeps ==
    ASSUME IInv, Failed
    PROVE  IInv'
<1>1. reply.kind = "failed" /\ reply' = NoReply /\ UNCHANGED <<rec, chan, posts, daemon, faults>>
  BY DEF Failed, daemon
<1>2. reply # NoReply
  BY <1>1, ValuesTyped
<1>3. TypeOK'
  BY <1>1, ValuesTyped DEF IInv, TypeOK, daemon
<1> QED BY <1>1, <1>2, <1>3, SameSame, GivenUp_Keeps

(* PollFails keeps the invariant. *)
LEMMA PollFails_Keeps ==
    ASSUME IInv, PollFails
    PROVE  IInv'
<1>1. /\ posts' = GivenUp /\ reply' = NoReply /\ faults' \in 0 .. MaxFaults
      /\ UNCHANGED <<rec, chan, local, started, violation>>
  BY OneMoreFault DEF PollFails, IInv
<1>2. /\ posts' \subseteq PostState
      /\ \A q \in posts' : ~q.live /\ \E p \in posts : SameButLive(q, p)
  BY <1>1, GivenUpFrom
<1>3. CASE UNCHANGED <<sid, link>>
  <2>1. TypeOK'
    BY <1>1, <1>2, <1>3, ValuesTyped DEF IInv, TypeOK
  <2> QED BY <1>1, <1>2, <1>3, <2>1, GivenUp_Keeps DEF daemon
<1>4. CASE ResetSession
  BY <1>1, <1>2, <1>4, Reset_Keeps
<1> QED BY <1>3, <1>4 DEF PollFails

(* ResponseGarbled keeps the invariant. *)
LEMMA ResponseGarbled_Keeps ==
    ASSUME IInv, ResponseGarbled
    PROVE  IInv'
<1>1. /\ reply # NoReply /\ posts' = posts /\ reply' = NoReply /\ ResetSession
      /\ faults' \in 0 .. MaxFaults /\ UNCHANGED <<rec, chan, local, started, violation>>
  BY OneMoreFault, ValuesTyped DEF ResponseGarbled, IInv
<1> QED BY <1>1, SameSame, Reset_Keeps

(* Interrupt keeps the invariant. *)
LEMMA Interrupt_Keeps ==
    ASSUME IInv, Interrupt
    PROVE  IInv'
<1>1. /\ posts' = GivenUp /\ reply' = NoReply /\ ResetSession
      /\ faults' \in 0 .. MaxFaults /\ UNCHANGED <<rec, chan, local, started, violation>>
  BY OneMoreFault DEF Interrupt, IInv
<1> QED BY <1>1, GivenUpFrom, Reset_Keeps

(* Conflict keeps the invariant. *)
LEMMA Conflict_Keeps ==
    ASSUME IInv, Conflict
    PROVE  IInv'
<1>1. /\ reply # NoReply /\ posts' = posts /\ reply' = NoReply /\ ResetSession
      /\ faults' = faults /\ UNCHANGED <<rec, chan, local, started, violation>>
  BY ValuesTyped DEF Conflict
<1>2. faults' \in 0 .. MaxFaults
  BY <1>1 DEF IInv, TypeOK
<1> QED BY <1>1, <1>2, SameSame, Reset_Keeps

-----------------------------------------------------------------------------
(* The response of a poll somebody waits for. *)
LEMMA Answered_Keeps ==
    ASSUME IInv, NEW p \in posts, p.live, p.token \in Channels, posts' = posts \ {p},
           reply' = [kind |-> "ok", phase |-> Phase(p), token |-> p.token,
                     ack |-> chan[p.token].seen, batch |-> chan[p.token].out],
           p.wasReady => chan[p.token].seen >= 1, Opened(p.token),
           UNCHANGED <<rec, chan, daemon, faults>>
    PROVE  IInv'
<1> DEFINE t == p.token
<1>1. /\ sid' = sid /\ link' = link /\ local' = local /\ started' = started
      /\ violation' = violation /\ posts' \subseteq posts
  BY DEF daemon
<1>2. /\ p.sid = sid /\ t = link.token /\ reply = NoReply /\ \A q \in posts : q.live => p = q
  BY DEF IInv, OneAtATime
<1>3. /\ chan[t].out \in Batch /\ chan[t].seen \in Nat /\ Phase(p) \in {"probing", "ready"}
      /\ chan[t].state \in {"none", "probing", "ready", "closed"} /\ t # None
  BY ChannelTyped, Numbers DEF IInv, Phase
<1>4. /\ reply'.kind = "ok" /\ reply'.phase = Phase(p) /\ reply'.token = t
      /\ reply'.ack = chan[t].seen /\ reply'.batch = chan[t].out /\ reply' \in ReplyState
      /\ Answers' /\ ~Answers
  BY <1>2, <1>3, ValuesTyped DEF ReplyState, Answers
<1>5. TypeOK'
  BY <1>1, <1>4 DEF IInv, TypeOK
<1>6. Ordered' /\ ChannelShape' /\ Owners' /\ NoProtocolViolation' /\ LinkShape' /\ RunsOK' /\ Ends'
  BY <1>1 DEF IInv, Ordered, ChannelShape, Owners, NoProtocolViolation, Opened, Open, LinkShape,
              RunsOK, Ends
<1>7. OneAtATime'
  BY <1>1, <1>2 DEF OneAtATime
<1>8. Tokens'
  <2>1. chan[t].sid = sid /\ Opened(t)
    BY <1>2, <1>3 DEF IInv, Tokens
  <2>2. reply' # NoReply
    BY <1>4, ValuesTyped
  <2> QED BY <1>1, <1>2, <1>3, <1>4, <2>1, <2>2 DEF IInv, Tokens, Opened
<1>9. Unlearned'
  BY <1>1 DEF IInv, Unlearned
<1>10. WorkerStreams'
  BY <1>3, <1>4 DEF IInv, WorkerStreams
<1>11. DaemonStreams' /\ PostShape' /\ OneReport'
  BY <1>1 DEF IInv, DaemonStreams, PostShape, OneReport
<1>12. StageShape'
  BY <1>1 DEF IInv, StageShape, Staged, Open
<1>13. ReplyShape'
  <2>1. chan[t].out.acked <= link.seen
    BY <1>2, <1>3 DEF IInv, Ends
  <2>2. LastSeq(chan[t].out) >= 3 => Phase(p) = "ready"
    <3>1. chan[t].state = "closed" \/ chan[t].state = "none" => LastSeq(chan[t].out) = 0
      BY NothingSentEffect DEF IInv, ChannelShape, Opened
    <3>2. chan[t].state = "probing" => LastSeq(chan[t].out) = 2
      BY DEF IInv, ChannelShape
    <3> QED BY <1>3, <3>1, <3>2 DEF Phase
  <2>3. Phase(p) = "ready" => chan[t].seen >= 1
    BY DEF IInv, ChannelShape, Phase
  <2>4. LastSeq(chan[t].out) <= LastSeq(chan[t].out) /\ SameStream(chan[t].out, chan[t].out)
        /\ chan[t].seen <= chan[t].seen
    BY <1>3, BatchTyped DEF SameStream
  <2> QED BY <1>1, <1>4, <2>1, <2>2, <2>3, <2>4 DEF ReplyShape
<1>14. \A c \in Calls, n \in Nat : Unread(c, n)' => Unread(c, n)
  BY <1>1, <1>2, <1>3, <1>4 DEF Unread
<1>15. MissingOK'
  <2>1. \A o \in Channels, c \in Calls : Named(o, c)' => Named(o, c)
    BY <1>1 DEF Named
  <2> QED BY <1>1, <1>14, <2>1 DEF IInv, MissingOK, Open
<1>16. SentOnce'
  BY <1>1, <1>4, <1>14 DEF IInv, SentOnce
<1> QED BY <1>5, <1>6, <1>7, <1>8, <1>9, <1>10, <1>11, <1>12, <1>13, <1>15, <1>16 DEF IInv

(* Respond keeps the invariant: the response agrees with the stream. *)
LEMMA Respond_Keeps ==
    ASSUME IInv, NEW p \in posts, Respond(p)
    PROVE  IInv'
<1>1. /\ p.stage = "handling" /\ posts' = posts \ {p} /\ UNCHANGED <<rec, chan, daemon, faults>>
      /\ reply' = Replied(p, [kind |-> "ok", phase |-> Phase(p), token |-> p.token,
                              ack |-> chan[p.token].seen, batch |-> chan[p.token].out])
  BY DEF Respond, daemon
<1>2. p.token \in Channels /\ Opened(p.token) /\ (p.wasReady => chan[p.token].seen >= 1)
  BY <1>1, Handled DEF IInv, StageShape, Staged
<1>3. CASE p.live
  BY <1>1, <1>2, <1>3, Answered_Keeps DEF Replied
<1>4. CASE ~p.live
  <2>1. reply' = reply
    BY <1>1, <1>4 DEF Replied
  <2>2. TypeOK'
    BY <1>1, <2>1 DEF IInv, TypeOK, daemon
  <2>3. Refused(p)
    BY <1>1, <1>4, <2>1 DEF Refused
  <2> QED BY <1>1, <2>2, <2>3, Refused_Keeps
<1> QED BY <1>3, <1>4

-----------------------------------------------------------------------------
(* The first poll of a session.  What a new channel offers. *)
Offers(out, ids) ==
    /\ out \in Batch /\ out.acked = 0 /\ LastSeq(out) = 2
    /\ MessageAt(out, 1) = Resume(ids) /\ MessageAt(out, 2) = ReadyAck

OpensAs(p, o, ids, out) ==
    /\ o \in Channels /\ ~Opened(o) /\ ids \subseteq Calls /\ Offers(out, ids)
    /\ p.token = None /\ posts' = posts \ {p} /\ UNCHANGED <<daemon, faults>>
    /\ chan' \in [Channels -> ChannelState]
    /\ chan'[o] = [NewChannel EXCEPT !.state = "probing", !.sid = p.sid, !.out = out,
                                     !.expected = ids]
    /\ \A x \in Channels : x # o =>
         /\ ~Open(x)' /\ (x < o => Opened(x)) /\ (Opened(x)' <=> Opened(x))
         /\ chan'[x].sid = chan[x].sid /\ chan'[x].seen = chan[x].seen
         /\ chan'[x].expected = chan[x].expected /\ chan'[x].answered = chan[x].answered
         /\ \/ chan'[x] = chan[x]
            \/ chan'[x].state = "closed" /\ chan'[x].out = NothingSent
    /\ RecordsKept(rec') /\ SettledBy(rec', {})
    /\ \A c \in Calls :
         /\ rec'[c].status = "pending" =>
              c \in ids /\ rec'[c].owner = o /\ rec'[c].instance = ThisInstance
         /\ c \in ids => rec'[c].status = "pending"
    /\ reply' = IF p.live
                THEN [kind |-> "ok", phase |-> "probing", token |-> o, ack |-> 0, batch |-> out]
                ELSE reply

(* The channels were opened in order. *)
LEMMA NextChannel ==
    ASSUME IInv, NEW o, o = Cardinality({x \in Channels : chan[x].state # "none"}) + 1,
           o \in Channels
    PROVE  ~Opened(o) /\ \A x \in Channels : x < o => Opened(x)
<1> DEFINE S == {x \in Channels : chan[x].state # "none"}
           N == Cardinality(Channels)
<1>1. N \in Nat /\ Channels = 1 .. N /\ IsFiniteSet(Channels)
  BY HttpAssumption, FS_CardinalityType
<1>2. IsFiniteSet(S) /\ Cardinality(S) \in Nat
  BY <1>1, FS_Subset, FS_CardinalityType
<1>3. \A x, y \in Channels : x \in S /\ y < x => y \in S
  BY DEF IInv, Ordered, Opened
<1>4. PICK k \in Nat : k = Cardinality(S) /\ o = k + 1
  BY <1>2
<1>5. o \notin S
  <2> SUFFICES ASSUME o \in S PROVE FALSE
    OBVIOUS
  <2>1. 1 .. o \subseteq S
    <3> SUFFICES ASSUME NEW i \in 1 .. o PROVE i \in S
      OBVIOUS
    <3>1. o \in 1 .. N /\ o \in S
      BY <1>1
    <3> HIDE DEF S
    <3>2. i \in 1 .. N /\ (i = o \/ i < o)
      BY <1>1, <3>1
    <3> QED BY <1>1, <1>3, <3>1, <3>2
  <2>2. Cardinality(1 .. o) = o
    BY <1>4, FS_Interval
  <2>3. Cardinality(1 .. o) <= Cardinality(S)
    BY <1>2, <2>1, FS_Subset
  <2> QED BY <1>4, <2>2, <2>3
<1>6. ASSUME NEW x \in Channels, x < o, x \notin S PROVE FALSE
  <2>1. x \in Nat /\ x >= 1 /\ x - 1 \in Nat
    BY <1>1
  <2>2. S \subseteq 1 .. (x - 1)
    BY <1>1, <1>3, <1>6, <2>1
  <2>3. IsFiniteSet(1 .. (x - 1)) /\ Cardinality(1 .. (x - 1)) = x - 1
    BY <2>1, FS_Interval
  <2>4. Cardinality(S) <= x - 1
    BY <2>2, <2>3, FS_Subset
  <2> QED BY <1>4, <1>6, <2>1, <2>4
<1> QED BY <1>5, <1>6 DEF Opened

(* What OpenChannel does. *)
LEMMA OpenChannel_Effect ==
    ASSUME IInv, NEW p \in posts, OpenChannel(p)
    PROVE  p.stage = "sent" /\ \E o, ids, out : OpensAs(p, o, ids, out)
<1> DEFINE previous == {x \in Channels : Open(x)}
           kept == CallsAfterLoss(previous)
<1>1. PICK o : o = Cardinality({x \in Channels : chan[x].state # "none"}) + 1
  OBVIOUS
<1>2. PICK ids : ids = ReboundCalls(kept, ThisInstance, o)
  OBVIOUS
<1>3. PICK out : out = Enqueued(NothingSent, <<Resume(ids), ReadyAck>>)
  OBVIOUS
<1>4. /\ p.stage = "sent" /\ p.token = None
      /\ o \in Channels
      /\ chan' = [ClosedChannels(previous) EXCEPT
                    ![o] = [NewChannel EXCEPT !.state = "probing", !.sid = p.sid,
                                              !.out = out, !.expected = ids]]
      /\ rec' = RebindInstance(kept, ThisInstance, o)
      /\ posts' = posts \ {p}
      /\ reply' = Replied(p, [kind |-> "ok", phase |-> "probing", token |-> o,
                              ack |-> 0, batch |-> out])
      /\ UNCHANGED <<daemon, faults>>
  BY <1>1, <1>2, <1>3 DEF OpenChannel, daemon
<1>5. ~Opened(o) /\ \A x \in Channels : x < o => Opened(x)
  BY <1>1, <1>4, NextChannel
<1>6. /\ RecordsKept(kept) /\ SettledBy(kept, {})
      /\ \A c \in Calls : kept[c].status = "pending" =>
           \/ kept[c].owner = None
           \/ rec[c].owner \notin previous /\ kept[c].owner = rec[c].owner
  <2>1. previous \in SUBSET Channels
    OBVIOUS
  <2> QED BY <2>1, AfterLoss
<1> HIDE DEF kept
<1>7. ASSUME NEW c \in Calls, kept[c].status = "pending"
      PROVE  kept[c].owner = None /\ kept[c].instance = ThisInstance
  <2>1. rec[c].status = "pending" /\ kept[c].instance = rec[c].instance
    BY <1>6, <1>7 DEF RecordsKept
  <2>2. rec[c].instance = ThisInstance /\ (rec[c].owner # None => Open(rec[c].owner))
    BY <2>1 DEF IInv, Owners
  <2>3. rec[c].owner \in Channels \cup {None}
    BY DEF IInv, TypeOK, Record, None
  <2> QED BY <1>6, <1>7, <2>1, <2>2, <2>3
<1>8. ids = {c \in Calls : kept[c].status = "pending"}
  BY <1>2, <1>4, <1>7, Numbers DEF ReboundCalls, Pending
<1>9. ASSUME NEW c \in Calls
      PROVE  /\ rec'[c] \in Record /\ rec'[c].status = kept[c].status
             /\ rec'[c].outcome = kept[c].outcome /\ rec'[c].instance = kept[c].instance
             /\ c \in ids => rec'[c].owner = o
  <2>1. rec'[c] = IF c \in ids THEN Rebound(kept[c], o) ELSE kept[c]
    BY <1>2, <1>4 DEF RebindInstance
  <2>2. kept[c] \in Record /\ o \in Channels \cup {None}
    BY <1>4, <1>6 DEF RecordsKept
  <2>3. /\ Rebound(kept[c], o) \in Record /\ Rebound(kept[c], o).status = kept[c].status
        /\ Rebound(kept[c], o).owner = o /\ Rebound(kept[c], o).instance = kept[c].instance
        /\ Rebound(kept[c], o).outcome = kept[c].outcome
    BY <2>2, RecordOps
  <2> QED BY <2>1, <2>2, <2>3
<1>10. RecordsKept(rec') /\ SettledBy(rec', {})
  <2>1. rec' \in [Calls -> Record]
    BY <1>4, <1>9 DEF RebindInstance
  <2> QED BY <1>6, <1>9, <2>1 DEF RecordsKept, SettledBy
<1>11. \A c \in Calls :
         /\ rec'[c].status = "pending" =>
              c \in ids /\ rec'[c].owner = o /\ rec'[c].instance = ThisInstance
         /\ c \in ids => rec'[c].status = "pending"
  BY <1>7, <1>8, <1>9
<1>12. Offers(out, ids)
  <2> DEFINE ms == <<Resume(ids), ReadyAck>>
  <2>1. ms \in Seq(MessageType) /\ Len(ms) = 2 /\ ms[1] = Resume(ids) /\ ms[2] = ReadyAck
    <3>1. Resume(ids) \in MessageType /\ ReadyAck \in MessageType
      BY <1>8, MessagesTyped
    <3> QED BY <3>1
  <2>2. out = Enqueued(NothingSent, ms)
    BY <1>3
  <2> HIDE DEF ms
  <2>3. out \in Batch /\ Extended(out, NothingSent, ms)
    BY <2>1, <2>2, Extends, NothingSentEffect
  <2>4. out.acked = 0 /\ LastSeq(out) = 2
    BY <2>1, <2>3, NothingSentEffect DEF Extended
  <2>5. ASSUME NEW n \in {1, 2} PROVE MessageAt(out, n) = ms[n]
    <3>1. n \in Nat /\ Has(out, n) /\ ~Has(NothingSent, n)
      BY <2>4, NothingSentEffect DEF Has
    <3>2. n - LastSeq(NothingSent) = n
      BY <3>1, NothingSentEffect
    <3> QED BY <2>3, <3>1, <3>2 DEF Extended
  <2> QED BY <2>1, <2>3, <2>4, <2>5 DEF Offers
<1>13. chan \in [Channels -> ChannelState] /\ NothingSent \in Batch /\ ids \subseteq Calls
       /\ p.sid \in Sessions /\ NewChannel \in ChannelState
  BY <1>8, PostTyped, NothingSentEffect, ValuesTyped DEF IInv, TypeOK
<1>14. PICK new : new = [NewChannel EXCEPT !.state = "probing", !.sid = p.sid, !.out = out,
                                           !.expected = ids]
  OBVIOUS
<1>15. new \in ChannelState
  BY <1>12, <1>13, <1>14 DEF ChannelState, Offers
<1>16. /\ chan' \in [Channels -> ChannelState] /\ chan'[o] = new
       /\ \A x \in Channels : x # o =>
            chan'[x] = IF x \in previous
                       THEN [chan[x] EXCEPT !.state = "closed", !.out = NothingSent] ELSE chan[x]
  <2>1. chan' = [ClosedChannels(previous) EXCEPT ![o] = new]
    BY <1>4, <1>14
  <2>2. ASSUME NEW x \in Channels
        PROVE  ClosedChannels(previous)[x] \in ChannelState
    BY <1>13 DEF ClosedChannels, ChannelState
  <2>3. ClosedChannels(previous) \in [Channels -> ChannelState]
    BY <2>2 DEF ClosedChannels
  <2>4. \A x \in Channels : ClosedChannels(previous)[x] =
            IF x \in previous THEN [chan[x] EXCEPT !.state = "closed", !.out = NothingSent]
            ELSE chan[x]
    BY DEF ClosedChannels
  <2> QED BY <1>4, <1>15, <2>1, <2>3, <2>4
<1>17. ASSUME NEW x \in Channels, x # o
       PROVE  /\ ~Open(x)' /\ (x < o => Opened(x)) /\ (Opened(x)' <=> Opened(x))
              /\ chan'[x].sid = chan[x].sid /\ chan'[x].seen = chan[x].seen
              /\ chan'[x].expected = chan[x].expected /\ chan'[x].answered = chan[x].answered
              /\ \/ chan'[x] = chan[x]
                 \/ chan'[x].state = "closed" /\ chan'[x].out = NothingSent
  <2>1. CASE Open(x)
    <3>1. chan'[x] = [chan[x] EXCEPT !.state = "closed", !.out = NothingSent]
      BY <1>16, <1>17, <2>1
    <3>2. chan[x] \in ChannelState
      BY <1>13
    <3> QED BY <1>5, <2>1, <3>1, <3>2 DEF ChannelState, Open, Opened
  <2>2. CASE ~Open(x)
    <3>1. chan'[x] = chan[x]
      BY <1>16, <1>17, <2>2
    <3> QED BY <1>5, <2>2, <3>1 DEF Open, Opened
  <2> QED BY <2>1, <2>2
<1>18. OpensAs(p, o, ids, out)
  BY <1>4, <1>5, <1>10, <1>11, <1>12, <1>13, <1>14, <1>16, <1>17 DEF OpensAs, Replied
<1> QED BY <1>4, <1>18

(* OpenChannel keeps the invariant: a session has one channel, and the new   *)
(* one takes over every pending call.                                        *)
LEMMA OpenChannel_Keeps ==
    ASSUME IInv, NEW p \in posts, OpenChannel(p)
    PROVE  IInv'
<1>1. PICK o, ids, out : OpensAs(p, o, ids, out)
  BY OpenChannel_Effect
<1>2. /\ o \in Channels /\ ~Opened(o) /\ ids \subseteq Calls
      /\ p.token = None /\ posts' = posts \ {p} /\ posts' \subseteq posts
      /\ sid' = sid /\ link' = link /\ local' = local /\ started' = started
      /\ violation' = violation /\ faults' = faults
  BY <1>1 DEF OpensAs, daemon
<1>3. /\ out \in Batch /\ out.acked = 0 /\ LastSeq(out) = 2
      /\ MessageAt(out, 1) = Resume(ids) /\ MessageAt(out, 2) = ReadyAck
  BY <1>1 DEF OpensAs, Offers
<1>4. /\ chan' \in [Channels -> ChannelState]
      /\ chan'[o].state = "probing" /\ chan'[o].sid = p.sid /\ chan'[o].out = out
      /\ chan'[o].seen = 0 /\ chan'[o].expected = ids /\ ~chan'[o].answered.known
  <2>1. chan'[o] = [NewChannel EXCEPT !.state = "probing", !.sid = p.sid, !.out = out,
                                      !.expected = ids]
    BY <1>1 DEF OpensAs
  <2> QED BY <1>1, <2>1, ValuesTyped DEF OpensAs, ChannelState
<1>5. \A x \in Channels : x # o =>
         /\ ~Open(x)' /\ (x < o => Opened(x)) /\ (Opened(x)' <=> Opened(x))
         /\ chan'[x].sid = chan[x].sid /\ chan'[x].seen = chan[x].seen
         /\ chan'[x].expected = chan[x].expected /\ chan'[x].answered = chan[x].answered
         /\ \/ chan'[x] = chan[x]
            \/ chan'[x].state = "closed" /\ chan'[x].out = NothingSent
  BY <1>1 DEF OpensAs
<1>6. /\ RecordsKept(rec') /\ SettledBy(rec', {})
      /\ \A c \in Calls :
           /\ rec'[c].status = "pending" =>
                c \in ids /\ rec'[c].owner = o /\ rec'[c].instance = ThisInstance
           /\ c \in ids => rec'[c].status = "pending"
  BY <1>1 DEF OpensAs
<1>7. reply' = IF p.live
               THEN [kind |-> "ok", phase |-> "probing", token |-> o, ack |-> 0, batch |-> out]
               ELSE reply
  BY <1>1 DEF OpensAs
<1>8. RecordsOn
  BY <1>6, KeptRecordsOn
<1>9. \A n, m, i : WorkerSays(n, m, i, rec) => WorkerSays(n, m, i, rec')
  BY <1>8 DEF RecordsOn, WorkerSays
<1>10. o \in Nat \ {0} /\ o # None /\ Open(o)' /\ Opened(o)' /\ chan[o] = NewChannel
  BY <1>2, <1>4, Numbers DEF Open, Opened, IInv, Ordered
<1>11. \A q \in posts : q.token # o
  BY <1>2, <1>10 DEF IInv, Tokens
<1>12. link.token # o
  BY <1>2, <1>10 DEF IInv, Tokens
<1>13. Answers => reply.token # o
  BY <1>2, <1>10 DEF IInv, Tokens
<1>14. p.live => /\ p.sid = sid /\ link.token = None /\ reply = NoReply
                 /\ \A q \in posts : q.live => p = q
  BY <1>2 DEF IInv, OneAtATime
<1>15. /\ p.live => /\ reply'.kind = "ok" /\ reply'.phase = "probing" /\ reply'.token = o
                    /\ reply'.ack = 0 /\ reply'.batch = out /\ Answers'
       /\ ~p.live => reply' = reply /\ (Answers' <=> Answers)
       /\ reply' \in ReplyState
  <2>1. p.live => reply' \in ReplyState
    BY <1>2, <1>3, <1>7 DEF ReplyState
  <2>2. ~p.live => reply' \in ReplyState
    BY <1>7 DEF IInv, TypeOK
  <2> QED BY <1>7, <2>1, <2>2 DEF Answers
<1>16. TypeOK'
  BY <1>2, <1>4, <1>6, <1>15 DEF IInv, TypeOK, RecordsKept
<1>17. p.sid \in Sessions /\ p.sid \in 1 .. sid /\ sid \in Nat
  BY PostTyped, LinkTyped, Numbers DEF IInv, Tokens
<1>18. p.live \in BOOLEAN
  BY PostTyped DEF IInv
<1>19. link.token \in Channels \cup {None} /\ (Answers => reply.token \in Channels)
  BY LinkTyped, ReplyTyped DEF IInv, Tokens
<1>20. \A q \in posts : q.token \in Channels \cup {None}
  BY PostTyped DEF IInv
<1>21. Ordered'
  <2>1. ASSUME NEW x \in Channels, Opened(x)', NEW y \in Channels, y < x
        PROVE  Opened(y)' /\ ~Open(y)'
    <3>1. y # o
      <4>1. x = o \/ Opened(x)
        BY <1>5, <2>1
      <4>2. x = o => y # o
        BY <1>10, <2>1
      <4>3. Opened(x) => Opened(y)
        BY <2>1 DEF IInv, Ordered
      <4> QED BY <1>2, <4>1, <4>2, <4>3
    <3> QED BY <1>5, <2>1, <3>1 DEF IInv, Ordered
  <2>2. ASSUME NEW x \in Channels, ~Opened(x)' PROVE chan'[x] = NewChannel
    <3>1. x # o /\ ~Opened(x)
      BY <1>5, <1>10, <2>2
    <3>2. chan'[x] = chan[x]
      BY <1>5, <2>2, <3>1 DEF Opened
    <3> QED BY <3>1, <3>2 DEF IInv, Ordered
  <2> QED BY <2>1, <2>2 DEF Ordered
<1>22. Tokens'
  <2>1. \A x \in Channels : Opened(x)' => chan'[x].sid \in 1 .. sid'
    BY <1>2, <1>4, <1>5, <1>17 DEF IInv, Tokens
  <2>2. ASSUME NEW q \in posts'
        PROVE  /\ q.sid <= sid'
               /\ q.token # None => Opened(q.token)' /\ chan'[q.token].sid = q.sid
               /\ q.stage # "sent" => q.token # None
    BY <1>2, <1>5, <1>11, <1>20 DEF IInv, Tokens
  <2>3. link'.token # None => Opened(link.token)' /\ chan'[link'.token].sid = sid'
    BY <1>2, <1>5, <1>12, <1>19 DEF IInv, Tokens
  <2>4. /\ Answers' => /\ reply'.token # None /\ Opened(reply.token)'
                       /\ chan'[reply'.token].sid = sid'
                       /\ link'.token # None => reply'.token = link'.token
        /\ reply'.kind = "reading" => link'.token # None
        /\ reply'.kind = "none" <=> reply' = NoReply
    <3>1. CASE p.live
      BY <1>2, <1>4, <1>10, <1>14, <1>15, <3>1, ValuesTyped
    <3>2. CASE ~p.live
      BY <1>2, <1>5, <1>13, <1>15, <1>19, <3>2 DEF IInv, Tokens
    <3> QED BY <3>1, <3>2
  <2> QED BY <2>1, <2>2, <2>3, <2>4 DEF Tokens
<1>23. OneAtATime'
  BY <1>2, <1>14, <1>15, <1>18 DEF IInv, OneAtATime
<1>24. Unlearned'
  <2> SUFFICES ASSUME NEW x \in Channels, chan'[x].sid = sid', link'.token # x
               PROVE  /\ chan'[x].seen = 0 /\ chan'[x].out.acked = 0
                      /\ \A q \in posts' : q.token # x
    BY DEF Unlearned
  <2>1. CASE x = o
    BY <1>2, <1>3, <1>4, <1>11, <2>1
  <2>2. CASE x # o
    BY <1>2, <1>5, <2>2, NothingSentEffect DEF IInv, Unlearned
  <2> QED BY <2>1, <2>2
<1>25. LinkShape' /\ NoProtocolViolation'
  BY <1>2 DEF IInv, LinkShape, NoProtocolViolation
<1>26. ChannelShape'
  <2>1. \A x \in Channels : chan[x].answered.known => chan[x].seen >= 1
    BY DEF IInv, ChannelShape
  <2> QED BY <1>3, <1>4, <1>5, <2>1 DEF IInv, ChannelShape
<1>27. WorkerStream(out, ids, rec')
  <2> SUFFICES ASSUME NEW n \in Nat, Has(out, n)
               PROVE  WorkerSays(n, MessageAt(out, n), ids, rec')
    BY DEF WorkerStream
  <2>1. n = 1 \/ n = 2
    BY <1>3 DEF Has
  <2> QED BY <1>3, <2>1 DEF WorkerSays
<1>28. WorkerStreams'
  <2>1. ASSUME NEW x \in Channels PROVE WorkerStream(chan'[x].out, chan'[x].expected, rec')
    <3>1. CASE x = o
      BY <1>4, <1>27, <3>1
    <3>2. CASE x # o
      <4>1. WorkerStream(chan[x].out, chan[x].expected, rec)
        BY DEF IInv, WorkerStreams
      <4>2. WorkerStream(NothingSent, chan[x].expected, rec')
        BY NothingSentEffect DEF WorkerStream
      <4> QED BY <1>5, <1>9, <3>2, <4>1, <4>2 DEF WorkerStream
    <3> QED BY <3>1, <3>2
  <2>2. ASSUME Answers' PROVE WorkerStream(reply'.batch, chan'[reply'.token].expected, rec')
    <3>1. CASE p.live
      BY <1>4, <1>15, <1>27, <3>1
    <3>2. CASE ~p.live
      <4>1. Answers /\ reply' = reply /\ reply.token \in Channels /\ reply.token # o
        BY <1>13, <1>15, <1>19, <2>2, <3>2
      <4>2. WorkerStream(reply.batch, chan[reply.token].expected, rec)
        BY <4>1 DEF IInv, WorkerStreams
      <4> QED BY <1>5, <1>9, <4>1, <4>2 DEF WorkerStream
    <3> QED BY <3>1, <3>2
  <2> QED BY <2>1, <2>2 DEF WorkerStreams
<1>29. DaemonStreams'
  BY <1>2, <1>5, <1>11, <1>12, <1>19, <1>20 DEF IInv, DaemonStreams
<1>30. ReplyShape'
  <2> SUFFICES ASSUME Answers'
             PROVE  /\ reply'.ack <= chan'[reply'.token].seen /\ reply'.batch.acked <= link'.seen
                    /\ LastSeq(reply'.batch) >= 3 => reply'.phase = "ready"
                    /\ reply'.phase = "ready" => chan'[reply'.token].seen >= 1
                    /\ reply'.kind = "reading" /\ reply'.phase = "ready" => link'.ready
                    /\ Open(reply.token)' =>
                         /\ LastSeq(reply'.batch) <= LastSeq(chan'[reply'.token].out)
                         /\ SameStream(reply'.batch, chan'[reply'.token].out)
    BY DEF ReplyShape
  <2>1. CASE p.live
    <3>1. link.seen \in Nat
      BY LinkTyped DEF IInv
    <3> QED BY <1>2, <1>3, <1>4, <1>15, <2>1, <3>1 DEF SameStream
  <2>2. CASE ~p.live
    <3>1. Answers /\ reply' = reply /\ reply.token \in Channels /\ reply.token # o
      BY <1>13, <1>15, <1>19, <2>2
    <3> QED BY <1>2, <1>5, <3>1 DEF IInv, ReplyShape
  <2> QED BY <2>1, <2>2
<1>31. PostShape'
  BY <1>2, <1>5, <1>11, <1>20 DEF IInv, PostShape
<1>32. StageShape'
  <2>1. ASSUME NEW q \in posts' PROVE Staged(q)'
    <3>1. Staged(q) /\ q.token # o /\ q.token \in Channels \cup {None}
          /\ (q.stage # "sent" => q.token \in Channels)
      BY <1>2, <1>11, <1>20 DEF IInv, StageShape, Tokens
    <3>2. \A c \in Calls : rec[c].status = "settled" => rec'[c].status = "settled"
      BY <1>8 DEF RecordsOn
    <3> QED BY <1>5, <3>1, <3>2 DEF Staged
  <2> QED BY <2>1 DEF StageShape
<1>33. Ends'
  <2>1. link.seen \in Nat /\ NothingSent.acked = 0
    BY LinkTyped, NothingSentEffect DEF IInv
  <2> QED BY <1>2, <1>5, <1>12, <1>19, <2>1 DEF IInv, Ends
<1>34. OneReport'
  BY <1>2, <1>5, <1>11, <1>12, <1>19, <1>20 DEF IInv, OneReport
<1>35. MissingOK'
  <2>1. \A c \in Calls : ~Named(o, c)'
    BY <1>2, <1>11, <1>12 DEF Named
  <2> QED BY <1>5, <2>1 DEF MissingOK
<1>36. \A n \in Nat, c \in Calls : ~Holds(out, n, ToolCall(c))
  <2> SUFFICES ASSUME NEW n \in Nat, NEW c \in Calls, Holds(out, n, ToolCall(c)) PROVE FALSE
    OBVIOUS
  <2>1. n = 1 \/ n = 2
    BY <1>3 DEF Holds, Has
  <2>2. MessageAt(out, n) = ToolCall(c)
    BY DEF Holds
  <2>3. /\ ToolCall(c).type = "tool_call" /\ Resume(ids).type = "resume_calls"
        /\ ReadyAck.type = "ready_ack"
    BY DEF ToolCall, Resume, ReadyAck
  <2> QED BY <1>3, <2>1, <2>2, <2>3
<1>37. \A n \in Nat, c \in Calls : ~Holds(NothingSent, n, ToolCall(c))
  BY NothingSentEffect DEF Holds
<1>38. ASSUME NEW c \in Calls, NEW n \in Nat, Unread(c, n)' PROVE Unread(c, n)
  <2>1. CASE link'.token # None /\ Holds(chan'[link'.token].out, n, ToolCall(c))
    <3>1. link.token \in Channels /\ link.token # o
      BY <1>2, <1>12, <1>19, <2>1
    <3>2. chan'[link.token] = chan[link.token]
      BY <1>2, <1>5, <1>37, <2>1, <3>1
    <3> QED BY <1>2, <1>38, <2>1, <3>2 DEF Unread
  <2>2. CASE Answers' /\ Holds(reply'.batch, n, ToolCall(c))
    <3>1. ~p.live
      BY <1>15, <1>36, <2>2
    <3> QED BY <1>2, <1>15, <1>38, <2>2, <3>1 DEF Unread
  <2> QED BY <1>38, <2>1, <2>2 DEF Unread
<1>39. SentOnce'
  <2> SUFFICES ASSUME NEW c \in Calls
    PROVE  /\ \A n, k \in Nat : Unread(c, n)' /\ Unread(c, k)' => n = k
           /\ started'[c] > 0 => \A n \in Nat : ~Unread(c, n)'
           /\ rec'[c].outcome = "not_received" => \A n \in Nat : ~Unread(c, n)'
           /\ \A x \in Channels, n \in Nat :
                Holds(chan'[x].out, n, ToolCall(c)) /\ c \in chan'[x].expected =>
                   chan'[x].answered.known
           /\ Answers' /\ c \in chan'[reply'.token].expected =>
                \A n \in Nat : Holds(reply'.batch, n, ToolCall(c)) =>
                                  chan'[reply'.token].answered.known
    BY DEF SentOnce
  <2>1. \A n, k \in Nat : Unread(c, n)' /\ Unread(c, k)' => n = k
    BY <1>38 DEF IInv, SentOnce
  <2>2. started'[c] > 0 => \A n \in Nat : ~Unread(c, n)'
    BY <1>2, <1>38 DEF IInv, SentOnce
  <2>3. rec'[c].outcome = "not_received" => \A n \in Nat : ~Unread(c, n)'
    BY <1>6, <1>38 DEF IInv, SentOnce, SettledBy
  <2>4. ASSUME NEW x \in Channels, NEW n \in Nat, Holds(chan'[x].out, n, ToolCall(c)),
               c \in chan'[x].expected
        PROVE  chan'[x].answered.known
    <3>1. x # o /\ chan'[x].out # NothingSent
      BY <1>4, <1>36, <1>37, <2>4
    <3>2. chan'[x] = chan[x]
      BY <1>5, <3>1
    <3> QED BY <2>4, <3>2 DEF IInv, SentOnce
  <2>5. ASSUME Answers', c \in chan'[reply'.token].expected, NEW n \in Nat,
               Holds(reply'.batch, n, ToolCall(c))
        PROVE  chan'[reply'.token].answered.known
    <3>1. ~p.live
      BY <1>15, <1>36, <2>5
    <3>2. Answers /\ reply' = reply /\ reply.token \in Channels /\ reply.token # o
      BY <1>13, <1>15, <1>19, <2>5, <3>1
    <3> QED BY <1>5, <2>5, <3>2 DEF IInv, SentOnce
  <2> QED BY <2>1, <2>2, <2>3, <2>4, <2>5
<1>40. RunsOK'
  <2> SUFFICES ASSUME NEW c \in Calls
    PROVE  /\ rec'[c].status = "new" =>
                started'[c] = 0 /\ \A x \in Channels : c \notin chan'[x].expected
           /\ local'[c] # "none" => started'[c] > 0
           /\ started'[c] <= 1
           /\ rec'[c].outcome = "not_received" => rec'[c].status = "settled" /\ started'[c] = 0
           /\ rec'[c].status = "pending" /\ started'[c] > 0 =>
                /\ local'[c] \in {"active", "retained"}
                /\ link'.seen = 0 => \A x \in Channels :
                      Opened(x)' /\ chan'[x].sid = sid' => c \in chan'[x].expected
    BY DEF RunsOK
  <2>1. rec'[c].status = "new" =>
          started'[c] = 0 /\ \A x \in Channels : c \notin chan'[x].expected
    <3>1. rec'[c].status = "new" => rec[c].status = "new" /\ c \notin ids
      BY <1>6, <1>8 DEF RecordsOn
    <3> QED BY <1>2, <1>4, <1>5, <3>1 DEF IInv, RunsOK
  <2>2. (local'[c] # "none" => started'[c] > 0) /\ started'[c] <= 1
    BY <1>2 DEF IInv, RunsOK
  <2>3. rec'[c].outcome = "not_received" => rec'[c].status = "settled" /\ started'[c] = 0
    BY <1>2, <1>6, <1>8 DEF IInv, RunsOK, SettledBy, RecordsOn
  <2>4. ASSUME rec'[c].status = "pending", started'[c] > 0
        PROVE  /\ local'[c] \in {"active", "retained"}
               /\ link'.seen = 0 => \A x \in Channels :
                     Opened(x)' /\ chan'[x].sid = sid' => c \in chan'[x].expected
    <3>1. rec[c].status = "pending" /\ c \in ids
      BY <1>6, <2>4 DEF RecordsKept
    <3>2. /\ local[c] \in {"active", "retained"}
          /\ link.seen = 0 => \A x \in Channels :
                Opened(x) /\ chan[x].sid = sid => c \in chan[x].expected
      BY <1>2, <2>4, <3>1 DEF IInv, RunsOK
    <3> QED BY <1>2, <1>4, <1>5, <3>1, <3>2
  <2> QED BY <2>1, <2>2, <2>3, <2>4
<1>41. Owners'
  BY <1>6, <1>10 DEF Owners, Open
<1> QED BY <1>16, <1>21, <1>22, <1>23, <1>24, <1>25, <1>26, <1>28, <1>29, <1>30, <1>31, <1>32,
           <1>33, <1>34, <1>35, <1>39, <1>40, <1>41 DEF IInv

-----------------------------------------------------------------------------
(* The steps of the daemon. *)
LEMMA Poll_Keeps ==
    ASSUME IInv, Poll
    PROVE  IInv'
<1> DEFINE t == link.token
<1>1. PICK q : /\ q = [sid |-> sid, token |-> t, ack |-> link.seen, batch |-> link.out,
                       live |-> TRUE, stage |-> "sent", next |-> 0, wasReady |-> FALSE,
                       after |-> <<>>]
               /\ posts' = posts \cup {q}
  BY DEF Poll
<1>2. /\ q \in PostState /\ q.sid = sid /\ q.token = t /\ q.ack = link.seen
      /\ q.batch = link.out /\ q.live /\ q.stage = "sent" /\ q.after = <<>>
  BY <1>1, LinkTyped DEF IInv, PostState
<1>3. /\ reply = NoReply /\ ~Answers /\ \A p \in posts : ~p.live
      /\ UNCHANGED <<rec, chan, reply, sid, link, local, started, violation, faults>>
  BY ValuesTyped DEF Poll, InFlight, Answers
<1>4. TypeOK'
  BY <1>1, <1>2, <1>3 DEF IInv, TypeOK
<1>5. /\ Ordered' /\ ChannelShape' /\ Owners' /\ NoProtocolViolation' /\ LinkShape' /\ RunsOK'
      /\ Ends' /\ ReplyShape' /\ WorkerStreams' /\ SentOnce'
  BY <1>3 DEF IInv, Ordered, ChannelShape, Owners, NoProtocolViolation, Opened, Open, LinkShape,
              RunsOK, Ends, ReplyShape, WorkerStreams, SentOnce, Unread, Answers
<1>6. Tokens' /\ OneAtATime' /\ Unlearned'
  <2>1. sid <= sid
    BY LinkTyped DEF IInv
  <2>2. Tokens'
    BY <1>1, <1>2, <1>3, <2>1 DEF IInv, Tokens, Opened, Answers
  <2> QED BY <1>1, <1>2, <1>3, <2>2 DEF IInv, OneAtATime, Unlearned
<1>7. DaemonStreams'
  BY <1>1, <1>2, <1>3 DEF IInv, DaemonStreams
<1>8. PostShape'
  <2>1. t = None => link.out = NothingSent
    BY ValuesTyped DEF IInv, LinkShape
  <2>2. t # None => link.out.acked <= chan[t].seen
    BY DEF IInv, Ends
  <2>3. LastSeq(link.out) >= 1 => link.seen >= 2
    BY NothingSentEffect DEF IInv, LinkShape
  <2>4. link.seen <= link.seen /\ LastSeq(link.out) <= LastSeq(link.out)
        /\ SameStream(link.out, link.out)
    BY LinkTyped DEF IInv, SameStream
  <2> QED BY <1>1, <1>2, <1>3, <2>1, <2>2, <2>3, <2>4 DEF IInv, PostShape
<1>9. StageShape'
  BY <1>1, <1>2, <1>3 DEF IInv, StageShape, Staged, Open
<1>10. OneReport'
  <2>1. ASSUME NEW r \in posts, r.token = t, t # None, Has(r.batch, 2), Has(link.out, 2)
        PROVE  MessageAt(r.batch, 2) = MessageAt(link.out, 2)
    BY <2>1 DEF IInv, PostShape, SameStream
  <2> QED BY <1>1, <1>2, <1>3, <2>1 DEF IInv, OneReport
<1>11. MissingOK'
  <2>1. \A o \in Channels, c \in Calls : Named(o, c)' => Named(o, c)
    BY <1>1, <1>2, <1>3 DEF Named
  <2> QED BY <1>3, <2>1 DEF IInv, MissingOK, Unread, Open, Answers
<1> QED BY <1>4, <1>5, <1>6, <1>7, <1>8, <1>9, <1>10, <1>11 DEF IInv

(* A step that keeps the token, and goes on in both streams. *)
LinkStep ==
    /\ IInv /\ TypeOK' /\ UNCHANGED <<rec, chan, posts, sid, violation>>
    /\ reply' = reply \/ reply' = NoReply
    /\ link'.token = link.token /\ link'.seen >= link.seen /\ link'.ready = link.ready
    /\ Later(link'.out, link.out) /\ link'.out.acked = link.out.acked

(* The messages it enqueues. *)
Added(n) == Has(link'.out, n) /\ n > LastSeq(link.out)

(* The daemon has nothing more to read. *)
LEMMA LinkUnread ==
    ASSUME LinkStep, NEW c \in Calls, NEW n \in Nat, Unread(c, n)'
    PROVE  Unread(c, n) /\ n > link'.seen
<1>1. link.seen \in Nat /\ link'.seen \in Nat
  BY DEF LinkStep, IInv, TypeOK, LinkState
<1>2. n > link'.seen
  BY DEF Unread
<1>3. n > link.seen
  BY <1>1, <1>2 DEF LinkStep
<1>4. Answers' => Answers /\ reply' = reply
  BY ValuesTyped DEF LinkStep, Answers
<1> QED BY <1>2, <1>3, <1>4 DEF LinkStep, Unread

(* The invariant after a step of the daemon within its session. *)
LEMMA LinkStep_Keeps ==
    ASSUME LinkStep, LinkShape', MissingOK', SentOnce', RunsOK',
           \A c \in Calls : started[c] > 0 => started'[c] > 0,
           link.token # None =>
             /\ link'.resume.ids \subseteq chan[link.token].expected
             /\ \A n \in Nat : Added(n) =>
                  DaemonSays(n, MessageAt(link'.out, n), chan[link.token].expected, started')
             /\ Has(link'.out, 2) => Has(link.out, 2) \/ ~chan[link.token].answered.known
    PROVE  IInv'
<1> DEFINE t == link.token
<1>1. /\ IInv /\ TypeOK' /\ rec' = rec /\ chan' = chan /\ posts' = posts /\ sid' = sid
      /\ violation' = violation /\ (reply' = reply \/ reply' = NoReply)
      /\ link'.token = t /\ link'.ready = link.ready
      /\ link'.seen >= link.seen /\ link'.out.acked = link.out.acked
      /\ Later(link'.out, link.out)
  BY DEF LinkStep
<1>2. /\ link.seen \in Nat /\ link'.seen \in Nat /\ link.out \in Batch /\ link'.out \in Batch
      /\ t \in Channels \cup {None}
  BY <1>1 DEF IInv, TypeOK, LinkState
<1>3. LastSeq(link.out) \in Nat /\ LastSeq(link'.out) \in Nat /\ LastSeq(link'.out) >= LastSeq(link.out)
  BY <1>1, <1>2, BatchTyped DEF Later
<1>4. /\ Answers' => Answers /\ reply' = reply
      /\ reply' # reply => reply' = NoReply /\ reply'.kind = "none"
  BY <1>1, ValuesTyped DEF Answers
<1>5. Ordered' /\ ChannelShape' /\ Owners' /\ NoProtocolViolation'
  BY <1>1 DEF IInv, Ordered, ChannelShape, Owners, NoProtocolViolation, Opened, Open
<1>6. Tokens'
  BY <1>1, <1>4 DEF IInv, Tokens, Opened
<1>7. OneAtATime' /\ Unlearned'
  BY <1>1 DEF IInv, OneAtATime, Unlearned
<1>8. WorkerStreams'
  BY <1>1, <1>4 DEF IInv, WorkerStreams
<1>9. DaemonStreams'
  <2>1. \A n, m, ids : DaemonSays(n, m, ids, started) => DaemonSays(n, m, ids, started')
    BY DEF DaemonSays
  <2>2. ASSUME t # None PROVE DaemonStream(link'.out, chan[t].expected, started')
    <3> SUFFICES ASSUME NEW n \in Nat, Has(link'.out, n)
                 PROVE  DaemonSays(n, MessageAt(link'.out, n), chan[t].expected, started')
      BY DEF DaemonStream
    <3>1. CASE n > LastSeq(link.out)
      BY <2>2, <3>1 DEF Added
    <3>2. CASE n <= LastSeq(link.out)
      <4>1. Has(link.out, n) /\ MessageAt(link'.out, n) = MessageAt(link.out, n)
        BY <1>1, <3>2 DEF Later
      <4> QED BY <1>1, <2>1, <2>2, <4>1 DEF IInv, DaemonStreams, DaemonStream
    <3> QED BY <1>3, <3>1, <3>2
  <2>3. \A p \in posts : p.token # None => DaemonStream(p.batch, chan[p.token].expected, started')
    BY <1>1, <2>1 DEF IInv, DaemonStreams, DaemonStream
  <2> QED BY <1>1, <2>2, <2>3 DEF DaemonStreams
<1>10. ReplyShape'
  <2> SUFFICES ASSUME Answers' PROVE ReplyShape'
    BY DEF ReplyShape
  <2>1. reply.batch.acked \in Nat
    BY <1>1, ReplyTyped DEF IInv
  <2> QED BY <1>1, <1>2, <1>4, <2>1 DEF IInv, ReplyShape, Open
<1>11. PostShape'
  <2>1. ASSUME NEW p \in posts, p.token # None, p.token = t
        PROVE  /\ p.ack <= link'.seen /\ LastSeq(p.batch) <= LastSeq(link'.out)
               /\ SameStream(p.batch, link'.out)
    <3>1. p.ack \in Nat /\ LastSeq(p.batch) \in Nat
      BY <1>1, PostTyped DEF IInv
    <3>2. /\ p.ack <= link.seen /\ LastSeq(p.batch) <= LastSeq(link.out)
          /\ SameStream(p.batch, link.out)
      BY <1>1, <2>1 DEF IInv, PostShape
    <3>3. ASSUME NEW n \in Nat, Has(p.batch, n), Has(link'.out, n)
          PROVE  MessageAt(p.batch, n) = MessageAt(link'.out, n)
      <4>1. n <= LastSeq(link.out)
        BY <1>3, <3>1, <3>2, <3>3 DEF Has
      <4> QED BY <1>1, <3>2, <3>3, <4>1 DEF Later, SameStream
    <3> QED BY <1>1, <1>2, <1>3, <3>1, <3>2, <3>3 DEF SameStream
  <2> QED BY <1>1, <2>1 DEF IInv, PostShape
<1>12. StageShape'
  BY <1>1 DEF IInv, StageShape, Staged, Open
<1>13. Ends'
  <2> SUFFICES ASSUME t # None
               PROVE  /\ chan[t].out.acked <= link'.seen /\ link'.out.acked <= chan[t].seen
                      /\ chan[t].seen <= LastSeq(link'.out)
    BY <1>1 DEF Ends
  <2>1. chan[t].out.acked \in Nat /\ chan[t].seen \in Nat
    BY <1>1, <1>2, ChannelTyped DEF IInv
  <2> QED BY <1>1, <1>2, <1>3, <2>1 DEF IInv, Ends
<1>14. OneReport'
  <2>1. ASSUME t # None, Has(link'.out, 2), chan[t].answered.known
        PROVE  MessageAt(link'.out, 2) = ResumeAck(chan[t].answered.ids)
    <3>1. Has(link.out, 2)
      BY <2>1
    <3>2. MessageAt(link'.out, 2) = MessageAt(link.out, 2)
      BY <1>1, <2>1, <3>1 DEF Later, Has
    <3> QED BY <1>1, <2>1, <3>1, <3>2 DEF IInv, OneReport
  <2> QED BY <1>1, <2>1 DEF IInv, OneReport
<1> QED BY <1>1, <1>5, <1>6, <1>7, <1>8, <1>9, <1>10, <1>11, <1>12, <1>13, <1>14 DEF IInv

(* A step that starts nothing and names nothing new keeps MissingOK. *)
LEMMA MissingKept ==
    ASSUME LinkStep, started' = started,
           \A o \in Channels, c \in Calls : Named(o, c)' => Named(o, c)
    PROVE  MissingOK'
<1>1. chan' = chan /\ rec' = rec /\ MissingOK
  BY DEF LinkStep, IInv
<1> QED BY <1>1, LinkUnread DEF MissingOK, Open

(* A step that starts nothing keeps SentOnce. *)
LEMMA SentKept ==
    ASSUME LinkStep, started' = started
    PROVE  SentOnce'
<1>1. chan' = chan /\ rec' = rec /\ SentOnce /\ (Answers' => Answers /\ reply' = reply)
  BY ValuesTyped DEF LinkStep, IInv, Answers
<1> QED BY <1>1, LinkUnread DEF SentOnce

(* A batch to which nothing is added. *)
LEMMA NothingAdded ==
    ASSUME TypeOK, link'.out = link.out, NEW n \in Nat
    PROVE  ~Added(n)
<1>1. LastSeq(link.out) \in Nat
  BY LinkTyped
<1> QED BY <1>1 DEF Added, Has

(* EndResponse keeps the invariant: there is never a gap. *)
LEMMA EndResponse_Keeps ==
    ASSUME IInv, EndResponse
    PROVE  IInv'
<1>1. reply.kind = "reading" /\ Answers
  BY DEF EndResponse, Answers
<1>2. ~(link.seen < reply.batch.acked)
  <2>1. reply.batch.acked <= link.seen
    BY <1>1 DEF IInv, ReplyShape
  <2> QED BY <2>1, ReplyTyped, LinkTyped DEF IInv
<1>3. /\ reply' = NoReply
      /\ UNCHANGED <<rec, chan, posts, sid, link, local, started, violation, faults>>
  BY <1>2 DEF EndResponse
<1>4. TypeOK'
  BY <1>3, ValuesTyped DEF IInv, TypeOK
<1>5. LinkStep
  BY <1>3, <1>4, LinkTyped, LaterSelf DEF LinkStep, IInv
<1>6. MissingOK' /\ SentOnce'
  BY <1>3, <1>5, MissingKept, SentKept DEF Named
<1>7. LinkShape' /\ RunsOK'
  BY <1>3 DEF IInv, LinkShape, RunsOK, Opened
<1>8. \A n \in Nat : ~Added(n)
  BY <1>3, NothingAdded DEF IInv
<1>9. link.token # None => link'.resume.ids \subseteq chan[link.token].expected
  BY <1>3 DEF IInv, DaemonStreams
<1> QED BY <1>3, <1>5, <1>6, <1>7, <1>8, <1>9, LinkStep_Keeps

(* The message the daemon reads next is one the Worker sent it. *)
LEMMA ReadsNext ==
    ASSUME IInv, NEW type, Reads(type)
    PROVE  /\ link.token \in Channels /\ reply.token = link.token /\ Opened(link.token)
           /\ chan[link.token].sid = sid /\ reply.kind = "reading" /\ Answers
           /\ link.seen \in Nat /\ Has(reply.batch, link.seen + 1)
           /\ Read = MessageAt(reply.batch, link.seen + 1) /\ Read.type = type
           /\ WorkerSays(link.seen + 1, Read, chan[link.token].expected, rec)
           /\ link.seen + 1 >= 3 => link.ready
<1>1. reply.kind = "reading" /\ Answers
  BY DEF Reads, Answers
<1>2. /\ link.token # None /\ reply.token = link.token /\ Opened(reply.token)
      /\ chan[reply.token].sid = sid
  BY <1>1 DEF IInv, Tokens
<1>3. link.token \in Channels /\ link.seen \in Nat
  BY <1>2, LinkTyped DEF IInv
<1>4. reply.batch.acked \in Nat /\ LastSeq(reply.batch) \in Nat
  BY ReplyTyped DEF IInv
<1>5. Has(reply.batch, link.seen + 1) /\ Read.type = type
  BY <1>3, <1>4 DEF Reads, Read, Has
<1>6. WorkerSays(link.seen + 1, Read, chan[link.token].expected, rec)
  <2>1. WorkerStream(reply.batch, chan[link.token].expected, rec)
    BY <1>1, <1>2 DEF IInv, WorkerStreams
  <2> QED BY <1>3, <1>5, <2>1 DEF WorkerStream, Read
<1>7. link.seen + 1 >= 3 => link.ready
  <2>1. link.seen + 1 >= 3 => LastSeq(reply.batch) >= 3
    BY <1>3, <1>4, <1>5 DEF Has
  <2> QED BY <1>1, <2>1 DEF IInv, ReplyShape
<1> QED BY <1>1, <1>2, <1>3, <1>5, <1>6, <1>7 DEF Read

(* A daemon that resumes keeps what it runs or has the result of. *)
LEMMA DaemonResume_Keeps ==
    ASSUME IInv, DaemonResume
    PROVE  IInv'
<1> DEFINE t == link.token
           ids == chan[t].expected
<1>1. /\ t \in Channels /\ reply.token = t /\ Opened(t) /\ chan[t].sid = sid /\ Answers
      /\ link.seen \in Nat /\ WorkerSays(link.seen + 1, Read, ids, rec)
      /\ Read.type = "resume_calls"
  BY ReadsNext DEF DaemonResume
<1>2. link.seen = 0 /\ Read = Resume(ids) /\ Read.ids = ids
  <2>1. link.seen + 1 \in Nat \ {0}
    BY <1>1
  <2>2. link.seen + 1 = 1 /\ Read = Resume(ids)
    BY <1>1, <2>1, WorkerMessages
  <2> QED BY <1>1, <2>2 DEF Resume
<1>3. ~link.resume.known /\ ~link.localReady /\ ~link.ready /\ link.out = NothingSent
  BY <1>2 DEF IInv, LinkShape
<1>4. /\ link' = [link EXCEPT !.seen = @ + 1,
                     !.resume = [known |-> TRUE, ids |-> ProvenMissing(ids)]]
      /\ local' = [c \in Calls |->
             IF c \in ids THEN local[c] ELSE IF c \in Active THEN "suppressed" ELSE "none"]
      /\ violation' = violation
      /\ UNCHANGED <<rec, chan, posts, reply, sid, started, faults>>
  BY <1>2, <1>3 DEF DaemonResume, IInv, TypeOK
<1>5. ids \subseteq Calls /\ ProvenMissing(ids) \subseteq ids
  BY <1>1, ChannelTyped DEF IInv, ProvenMissing
<1>6. /\ link' \in LinkState /\ link'.token = t /\ link'.seen = 1 /\ ~link'.localReady
      /\ ~link'.ready /\ link'.out = link.out /\ link'.resume.known
      /\ link'.resume.ids = ProvenMissing(ids)
  <2>1. /\ link \in LinkState
        /\ [known |-> TRUE, ids |-> ProvenMissing(ids)] \in AnswerState
    BY <1>5 DEF IInv, TypeOK, AnswerState
  <2>2. PICK r \in AnswerState : r.known /\ r.ids = ProvenMissing(ids)
                                 /\ link' = [link EXCEPT !.seen = 1, !.resume = r]
    <3>1. link.seen + 1 = 1
      BY <1>2
    <3> QED BY <1>4, <2>1, <3>1, Zenon
  <2>3. link' \in LinkState
    BY <2>1, <2>2 DEF LinkState
  <2> QED BY <1>2, <1>3, <2>1, <2>2, <2>3 DEF LinkState
<1>7. TypeOK'
  <2>1. local' \in [Calls -> {"none", "active", "suppressed", "retained"}]
    BY <1>4 DEF IInv, TypeOK
  <2> QED BY <1>4, <1>6, <2>1 DEF IInv, TypeOK
<1>8. LinkStep
  BY <1>2, <1>3, <1>4, <1>6, <1>7, LinkTyped, LaterSelf DEF LinkStep, IInv
<1>9. LinkShape'
  BY <1>1, <1>3, <1>6, Numbers DEF LinkShape
<1>10. MissingOK'
  <2> SUFFICES ASSUME NEW o \in Channels, NEW c \in Calls, Open(o), ~chan[o].answered.known,
                      Named(o, c)', rec[c].status = "pending"
               PROVE  started[c] = 0 /\ \A n \in Nat : ~Unread(c, n)'
    BY <1>4 DEF MissingOK, Open
  <2>1. CASE Named(o, c)
    BY <1>8, <2>1, LinkUnread DEF IInv, MissingOK
  <2>2. CASE ~Named(o, c)
    <3>1. o = t /\ c \in ProvenMissing(ids)
      BY <1>4, <1>6, <2>2 DEF Named
    <3>2. local[c] \notin {"active", "retained"} /\ c \in ids
      BY <3>1 DEF ProvenMissing, Active, Retained
    <3>3. started[c] = 0
      BY <3>2 DEF IInv, RunsOK, TypeOK
    <3>4. ASSUME NEW n \in Nat, Unread(c, n) PROVE FALSE
      BY <1>1, <3>1, <3>2, <3>4 DEF IInv, SentOnce, Unread
    <3> QED BY <1>8, <3>3, <3>4, LinkUnread
  <2> QED BY <2>1, <2>2
<1>11. SentOnce'
  BY <1>4, <1>8, SentKept
<1>12. RunsOK'
  <2>1. ASSUME NEW c \in Calls, local'[c] # "none" PROVE local[c] # "none"
    BY <1>4, <2>1 DEF Active
  <2>2. ASSUME NEW c \in Calls, rec[c].status = "pending", started[c] > 0
        PROVE  local'[c] \in {"active", "retained"}
    <3>1. local[c] \in {"active", "retained"} /\ c \in ids
      BY <1>1, <1>2, <2>2 DEF IInv, RunsOK
    <3> QED BY <1>4, <3>1
  <2> QED BY <1>4, <1>6, <2>1, <2>2 DEF IInv, RunsOK
<1>13. \A n \in Nat : ~Added(n)
  BY <1>6, NothingAdded DEF IInv
<1> QED BY <1>4, <1>5, <1>6, <1>8, <1>9, <1>10, <1>11, <1>12, <1>13, LinkStep_Keeps

(* The proof of readiness follows the resume it answers. *)
LEMMA DaemonReady_Keeps ==
    ASSUME IInv, DaemonReady
    PROVE  IInv'
<1> DEFINE t == link.token
           ids == link.resume.ids
           proof == ReadinessProof(ids)
<1>1. /\ t \in Channels /\ link.seen \in Nat /\ Read.type = "ready_ack"
      /\ WorkerSays(link.seen + 1, Read, chan[t].expected, rec)
  BY ReadsNext DEF DaemonReady
<1>2. link.seen = 1
  <2>1. link.seen + 1 \in Nat \ {0}
    BY <1>1
  <2>2. link.seen + 1 = 2
    BY <1>1, <2>1, WorkerMessages
  <2> QED BY <1>1, <2>2
<1>3. link.resume.known /\ ~link.localReady /\ ~link.ready /\ link.out = NothingSent
  BY <1>2 DEF IInv, LinkShape
<1>4. /\ link' = [link EXCEPT !.seen = @ + 1, !.localReady = TRUE, !.resume = NoAnswer,
                              !.out = Enqueued(@, proof)]
      /\ violation' = violation
      /\ UNCHANGED <<rec, chan, posts, reply, sid, local, started, faults>>
  BY <1>3 DEF DaemonReady, IInv, TypeOK
<1>5. ids \subseteq Calls /\ (ids \subseteq chan[t].expected)
  BY <1>1, LinkTyped, Numbers DEF IInv, DaemonStreams
<1>6. proof \in Seq(MessageType) /\ Len(proof) = 2 /\ proof[1] = HttpsReady /\ proof[2] = ResumeAck(ids)
  BY <1>5, MessagesTyped DEF ReadinessProof
<1> HIDE DEF proof
<1>7. /\ link' \in LinkState /\ link'.token = t /\ link'.seen = 2 /\ link'.localReady
      /\ link'.ready = link.ready /\ link'.out = Enqueued(link.out, proof)
      /\ ~link'.resume.known /\ link'.resume.ids = {}
  <2>1. Enqueued(link.out, proof) \in Batch
    BY <1>3, <1>6, NothingSentEffect, Extends
  <2>2. link \in LinkState /\ NoAnswer \in AnswerState /\ ~NoAnswer.known /\ NoAnswer.ids = {}
    BY ValuesTyped DEF IInv, TypeOK
  <2>3. PICK b \in Batch : /\ b = Enqueued(link.out, proof)
                            /\ link' = [link EXCEPT !.seen = 2, !.localReady = TRUE,
                                                     !.resume = NoAnswer, !.out = b]
    <3>1. link.seen + 1 = 2
      BY <1>2
    <3> QED BY <1>4, <2>1, <3>1, Zenon
  <2>4. link' \in LinkState
    BY <2>2, <2>3 DEF LinkState
  <2> QED BY <2>2, <2>3, <2>4 DEF LinkState
<1>8. /\ link'.out \in Batch /\ link.out \in Batch /\ Extended(link'.out, link.out, proof)
      /\ link.out.acked = 0 /\ LastSeq(link.out) = 0
  BY <1>3, <1>6, <1>7, NothingSentEffect, Extends
<1>9. TypeOK'
  BY <1>4, <1>7 DEF IInv, TypeOK
<1>10. LinkStep
  <2>1. Later(link'.out, link.out)
    BY <1>6, <1>8, ExtendedLater
  <2>2. link'.out.acked = link.out.acked
    BY <1>8 DEF Extended
  <2> QED BY <1>2, <1>4, <1>7, <1>9, <2>1, <2>2 DEF LinkStep
<1>11. LastSeq(link'.out) = 2 /\ link'.out.acked = 0
  BY <1>6, <1>8 DEF Extended
<1>12. LinkShape'
  BY <1>1, <1>3, <1>7, <1>11, Numbers DEF LinkShape
<1>13. \A n \in Nat : Has(link'.out, n) =>
          n \in {1, 2} /\ MessageAt(link'.out, n) = proof[n] /\ ~Has(link.out, n)
  <2> SUFFICES ASSUME NEW n \in Nat, Has(link'.out, n)
               PROVE  n \in {1, 2} /\ MessageAt(link'.out, n) = proof[n] /\ ~Has(link.out, n)
    OBVIOUS
  <2>1. n \in {1, 2} /\ ~Has(link.out, n)
    BY <1>8, <1>11 DEF Has
  <2> QED BY <1>8, <2>1 DEF Extended
<1>14. MissingOK'
  <2>1. ASSUME NEW o \in Channels, NEW c \in Calls, Named(o, c)' PROVE Named(o, c)
    <3>1. CASE \E p \in posts' : p.token = o /\ Has(p.batch, 2) /\ c \in MessageAt(p.batch, 2).ids
      BY <1>4, <3>1 DEF Named
    <3>2. CASE link'.token = o /\ c \in link'.resume.ids
      BY <1>7, <3>2
    <3>3. CASE link'.token = o /\ Has(link'.out, 2) /\ c \in MessageAt(link'.out, 2).ids
      BY <1>6, <1>7, <1>13, <3>3 DEF Named, ResumeAck
    <3> QED BY <2>1, <3>1, <3>2, <3>3 DEF Named
  <2> QED BY <1>4, <1>10, <2>1, MissingKept
<1>15. SentOnce'
  BY <1>4, <1>10, SentKept
<1>16. RunsOK'
  BY <1>4, <1>7 DEF IInv, RunsOK
<1>17. ASSUME NEW n \in Nat, Added(n)
       PROVE  DaemonSays(n, MessageAt(link'.out, n), chan[t].expected, started')
  <2>1. n \in {1, 2} /\ MessageAt(link'.out, n) = proof[n]
    BY <1>13, <1>17 DEF Added
  <2> QED BY <1>5, <1>6, <2>1 DEF DaemonSays
<1>18. ~chan[t].answered.known
  <2>1. chan[t].seen \in Nat /\ chan[t].seen <= 0
    BY <1>1, <1>8, ChannelTyped, Numbers DEF IInv, Ends
  <2> QED BY <1>1, <2>1 DEF IInv, ChannelShape
<1> QED BY <1>4, <1>7, <1>10, <1>12, <1>14, <1>15, <1>16, <1>17, <1>18, LinkStep_Keeps

(* The daemon counts a message that comes after the handshake. *)
LEMMA SeenLinkStep ==
    ASSUME IInv, NEW type \in {"tool_call", "cancel_call", "tool_result_ack"}, Reads(type),
           link' = [link EXCEPT !.seen = @ + 1],
           local' \in [Calls -> {"none", "active", "suppressed", "retained"}],
           started' \in [Calls -> Nat],
           UNCHANGED <<rec, chan, posts, reply, sid, violation, faults>>
    PROVE  /\ LinkStep /\ link'.seen = link.seen + 1 /\ link'.seen # 0
           /\ link'.out = link.out /\ link'.resume = link.resume /\ LinkShape'
           /\ \A o \in Channels, c \in Calls : Named(o, c)' <=> Named(o, c)
<1>1. link.token \in Channels /\ link.seen \in Nat /\ link.seen + 1 >= 3
  <2>1. /\ link.token \in Channels /\ link.seen \in Nat /\ Read.type = type
        /\ WorkerSays(link.seen + 1, Read, chan[link.token].expected, rec)
    BY ReadsNext
  <2>2. link.seen + 1 \in Nat \ {0}
    BY <2>1
  <2> QED BY <2>1, <2>2, WorkerMessages
<1>2. /\ link' \in LinkState /\ link'.token = link.token /\ link'.seen = link.seen + 1
      /\ link'.localReady = link.localReady /\ link'.ready = link.ready /\ link'.out = link.out
      /\ link'.resume = link.resume
  BY <1>1 DEF IInv, TypeOK, LinkState
<1>3. TypeOK'
  BY <1>2 DEF IInv, TypeOK
<1>4. LinkStep
  BY <1>1, <1>2, <1>3, LinkTyped, LaterSelf DEF LinkStep, IInv
<1>5. LinkShape'
  BY <1>1, <1>2, Numbers DEF IInv, LinkShape
<1>6. \A o \in Channels, c \in Calls : Named(o, c)' <=> Named(o, c)
  BY <1>2 DEF Named
<1> QED BY <1>1, <1>2, <1>4, <1>5, <1>6

(* Counting a message keeps the invariant. *)
LEMMA SeenStep ==
    ASSUME IInv, NEW type \in {"tool_call", "cancel_call", "tool_result_ack"}, Reads(type),
           link' = [link EXCEPT !.seen = @ + 1],
           local' \in [Calls -> {"none", "active", "suppressed", "retained"}],
           started' \in [Calls -> Nat], \A c \in Calls : started[c] > 0 => started'[c] > 0,
           UNCHANGED <<rec, chan, posts, reply, sid, violation, faults>>,
           MissingOK', SentOnce', RunsOK'
    PROVE  IInv'
<1>1. LinkStep /\ LinkShape' /\ link'.out = link.out /\ link'.resume = link.resume
  BY SeenLinkStep
<1>2. \A n \in Nat : ~Added(n)
  BY <1>1, NothingAdded DEF IInv
<1> QED BY <1>1, <1>2, LinkStep_Keeps DEF IInv, DaemonStreams

(* A call the daemon reads has not run. *)
LEMMA DaemonToolCall_Keeps ==
    ASSUME IInv, DaemonToolCall
    PROVE  IInv'
<1> DEFINE n == link.seen + 1
<1>1. Reads("tool_call") /\ link' = [link EXCEPT !.seen = @ + 1]
      /\ UNCHANGED <<rec, chan, posts, reply, sid, faults>>
  BY DEF DaemonToolCall
<1>2. /\ Answers /\ Read.type = "tool_call" /\ Read = MessageAt(reply.batch, n) /\ n \in Nat \ {0}
      /\ Has(reply.batch, n) /\ link.seen \in Nat /\ (n >= 3 => link.ready)
      /\ WorkerSays(n, Read, chan[link.token].expected, rec)
  <2>1. link.seen \in Nat
    BY <1>1, ReadsNext
  <2> QED BY <1>1, <2>1, ReadsNext
<1>3. PICK c \in Calls : Read = ToolCall(c) /\ rec[c].status # "new" /\ link.ready
  BY <1>2, WorkerMessages
<1>4. Unread(c, n)
  BY <1>2, <1>3 DEF Unread, Holds
<1>5. started[c] = 0 /\ local[c] = "none" /\ rec[c].outcome # "not_received"
  BY <1>2, <1>4 DEF IInv, SentOnce, RunsOK, TypeOK
<1>6. /\ local' = [local EXCEPT ![c] = "active"] /\ started' = [started EXCEPT ![c] = @ + 1]
      /\ violation' = violation
  BY <1>3, <1>5 DEF DaemonToolCall, Active, ToolCall
<1>7. /\ local' \in [Calls -> {"none", "active", "suppressed", "retained"}]
      /\ started' \in [Calls -> Nat] /\ local'[c] = "active" /\ started'[c] = 1
      /\ \A d \in Calls : d # c => local'[d] = local[d] /\ started'[d] = started[d]
  BY <1>5, <1>6 DEF IInv, TypeOK
<1>8. /\ LinkStep /\ link'.seen = n /\ link'.seen # 0
      /\ \A o \in Channels, d \in Calls : Named(o, d)' <=> Named(o, d)
  BY <1>1, <1>6, <1>7, SeenLinkStep
<1>9. \A d \in Calls, k \in Nat : Unread(d, k)' => Unread(d, k) /\ k > n
  BY <1>8, LinkUnread
<1>10. \A k \in Nat : ~Unread(c, k)'
  <2> SUFFICES ASSUME NEW k \in Nat, Unread(c, k)' PROVE FALSE
    OBVIOUS
  <2>1. Unread(c, k) /\ k > n
    BY <1>9
  <2>2. k = n
    BY <1>2, <1>4, <2>1 DEF IInv, SentOnce
  <2> QED BY <1>2, <2>1, <2>2
<1>11. MissingOK'
  <2> SUFFICES ASSUME NEW o \in Channels, NEW d \in Calls, Open(o), ~chan[o].answered.known,
                      Named(o, d), rec[d].status = "pending"
               PROVE  started'[d] = 0 /\ \A k \in Nat : ~Unread(d, k)'
    BY <1>1, <1>8 DEF MissingOK, Open
  <2>1. started[d] = 0 /\ \A k \in Nat : ~Unread(d, k)
    BY DEF IInv, MissingOK
  <2>2. d # c
    BY <1>2, <1>4, <2>1
  <2> QED BY <1>7, <1>9, <2>1, <2>2
<1>12. SentOnce'
  <2>1. Answers' => Answers /\ reply' = reply
    BY <1>1 DEF Answers
  <2> QED BY <1>1, <1>7, <1>9, <1>10, <2>1 DEF IInv, SentOnce
<1>13. RunsOK'
  BY <1>1, <1>3, <1>5, <1>7, <1>8 DEF IInv, RunsOK
<1>14. \A d \in Calls : started[d] > 0 => started'[d] > 0
  BY <1>7
<1> QED BY <1>1, <1>6, <1>7, <1>11, <1>12, <1>13, <1>14, SeenStep

(* A settled call is given up, or its result is not needed any more. *)
LEMMA SettledStep ==
    ASSUME IInv, NEW type \in {"cancel_call", "tool_result_ack"}, Reads(type),
           link' = [link EXCEPT !.seen = @ + 1],
           NEW c \in Calls, rec[c].status = "settled",
           local' \in [Calls -> {"none", "active", "suppressed", "retained"}],
           \A d \in Calls : d # c => local'[d] = local[d],
           local'[c] # "none" => local[c] # "none",
           UNCHANGED <<rec, chan, posts, reply, sid, started, violation, faults>>
    PROVE  IInv'
<1>1. started' \in [Calls -> Nat]
  BY DEF IInv, TypeOK
<1>2. LinkStep /\ link'.seen # 0 /\ \A o \in Channels, d \in Calls : Named(o, d)' <=> Named(o, d)
  BY <1>1, SeenLinkStep
<1>3. MissingOK' /\ SentOnce'
  BY <1>2, MissingKept, SentKept
<1>4. RunsOK'
  BY <1>2 DEF IInv, RunsOK
<1> QED BY <1>1, <1>3, <1>4, SeenStep

(* DaemonCancel keeps the invariant: the call is settled. *)
LEMMA DaemonCancel_Keeps ==
    ASSUME IInv, DaemonCancel
    PROVE  IInv'
<1>1. Reads("cancel_call") /\ link' = [link EXCEPT !.seen = @ + 1]
      /\ UNCHANGED <<rec, chan, posts, reply, sid, started, faults>>
  BY DEF DaemonCancel
<1>2. PICK c \in Calls : Read = CancelCall(c) /\ rec[c].status = "settled" /\ link.ready
  <2>1. /\ link.seen \in Nat /\ Read.type = "cancel_call" /\ (link.seen + 1 >= 3 => link.ready)
        /\ WorkerSays(link.seen + 1, Read, chan[link.token].expected, rec)
    BY <1>1, ReadsNext
  <2>2. link.seen + 1 \in Nat \ {0}
    BY <2>1
  <2> QED BY <2>1, <2>2, WorkerMessages
<1>3. /\ local' = [local EXCEPT ![c] = IF c \in Active THEN "suppressed" ELSE "none"]
      /\ violation' = violation
  BY <1>2 DEF DaemonCancel, CancelCall, IInv, TypeOK
<1>4. /\ local' \in [Calls -> {"none", "active", "suppressed", "retained"}]
      /\ \A d \in Calls : d # c => local'[d] = local[d]
      /\ local'[c] # "none" => local[c] # "none"
  BY <1>3 DEF IInv, TypeOK, Active
<1> QED BY <1>1, <1>2, <1>3, <1>4, SettledStep

(* DaemonAck keeps the invariant: the result is no longer awaited. *)
LEMMA DaemonAck_Keeps ==
    ASSUME IInv, DaemonAck
    PROVE  IInv'
<1>1. Reads("tool_result_ack") /\ link' = [link EXCEPT !.seen = @ + 1]
      /\ UNCHANGED <<rec, chan, posts, reply, sid, started, faults>>
  BY DEF DaemonAck
<1>2. PICK c \in Calls : Read = ResultAck(c) /\ rec[c].status = "settled" /\ link.ready
  <2>1. /\ link.seen \in Nat /\ Read.type = "tool_result_ack" /\ (link.seen + 1 >= 3 => link.ready)
        /\ WorkerSays(link.seen + 1, Read, chan[link.token].expected, rec)
    BY <1>1, ReadsNext
  <2>2. link.seen + 1 \in Nat \ {0}
    BY <2>1
  <2> QED BY <2>1, <2>2, WorkerMessages
<1>3. /\ local' = [local EXCEPT ![c] = IF local[c] = "retained" THEN "none" ELSE local[c]]
      /\ violation' = violation
  BY <1>2 DEF DaemonAck, ResultAck, IInv, TypeOK
<1>4. /\ local' \in [Calls -> {"none", "active", "suppressed", "retained"}]
      /\ \A d \in Calls : d # c => local'[d] = local[d]
      /\ local'[c] # "none" => local[c] # "none"
  BY <1>3 DEF IInv, TypeOK
<1> QED BY <1>1, <1>2, <1>3, <1>4, SettledStep

(* The tool of a call ends. *)
LEMMA Finish_Keeps ==
    ASSUME IInv, NEW c \in Calls, Finish(c)
    PROVE  IInv'
<1> DEFINE t == link.token
           ms == <<Result(c)>>
<1>1. /\ UNCHANGED <<rec, chan, posts, reply, sid, started, violation, faults>>
      /\ local[c] \in {"active", "suppressed"}
  BY DEF Finish, Active
<1>2. started[c] > 0
  BY <1>1 DEF IInv, RunsOK
<1>3. /\ local' \in [Calls -> {"none", "active", "suppressed", "retained"}]
      /\ \A d \in Calls : d # c => local'[d] = local[d]
      /\ local[c] = "active" => local'[c] = "retained"
  BY <1>1 DEF Finish, AfterDelivery, IInv, TypeOK
<1>4. ms \in Seq(MessageType) /\ Len(ms) = 1 /\ ms[1] = Result(c)
  BY MessagesTyped
<1> HIDE DEF ms
<1>5. /\ link' \in LinkState /\ link'.token = t /\ link'.localReady = link.localReady
      /\ link'.ready = link.ready /\ link'.seen = link.seen /\ link'.resume = link.resume
      /\ \/ link'.out = link.out /\ link' = link
         \/ link.ready /\ Extended(link'.out, link.out, ms)
  <2>1. link' = link \/ (link.ready /\ link' = [link EXCEPT !.out = Enqueued(@, <<Result(c)>>)])
    BY DEF Finish
  <2>2. link.out \in Batch /\ link \in LinkState
    BY LinkTyped DEF IInv, TypeOK
  <2>3. PICK b \in Batch : b = Enqueued(link.out, ms) /\ Extended(b, link.out, ms)
    BY <1>4, <2>2, Extends
  <2>4. link' = link \/ (link.ready /\ link' = [link EXCEPT !.out = b])
    BY <2>1, <2>3, Zenon DEF ms
  <2> QED BY <2>2, <2>3, <2>4 DEF LinkState
<1>6. TypeOK'
  BY <1>1, <1>3, <1>5 DEF IInv, TypeOK
<1>7. /\ link.out \in Batch /\ link'.out \in Batch /\ link.seen \in Nat /\ t \in Channels \cup {None}
      /\ LastSeq(link.out) \in Nat /\ LastSeq(link'.out) \in Nat
  BY <1>5, LinkTyped, BatchTyped DEF IInv, LinkState
<1>8. Later(link'.out, link.out) /\ link'.out.acked = link.out.acked
  BY <1>4, <1>5, <1>7, LaterSelf, ExtendedLater DEF Extended
<1>9. LinkStep
  BY <1>1, <1>5, <1>6, <1>7, <1>8 DEF LinkStep
<1>10. link.ready => t # None /\ link.localReady /\ LastSeq(link.out) >= 2
  BY ValuesTyped DEF IInv, LinkShape
<1>11. LinkShape'
  <2>1. LastSeq(link'.out) >= LastSeq(link.out)
    BY <1>8 DEF Later
  <2> QED BY <1>5, <1>7, <1>10, <2>1 DEF IInv, LinkShape
<1>12. ASSUME NEW n \in Nat, Added(n)
       PROVE  n >= 3 /\ MessageAt(link'.out, n) = Result(c)
  <2>1. link.ready /\ Extended(link'.out, link.out, ms) /\ LastSeq(link.out) >= 2
    BY <1>1, <1>5, <1>10, <1>12, NothingAdded DEF IInv
  <2>2. ~Has(link.out, n) /\ Has(link'.out, n) /\ n > LastSeq(link.out)
    BY <1>7, <1>12 DEF Added, Has
  <2>3. n - LastSeq(link.out) \in 1 .. 1 /\ MessageAt(link'.out, n) = ms[n - LastSeq(link.out)]
    BY <1>4, <2>1, <2>2 DEF Extended
  <2> QED BY <1>4, <1>7, <2>1, <2>2, <2>3
<1>13. Has(link'.out, 2) => Has(link.out, 2) /\ MessageAt(link'.out, 2) = MessageAt(link.out, 2)
  <2>1. ASSUME Has(link'.out, 2) PROVE 2 <= LastSeq(link.out)
    BY <1>7, <1>12, <2>1 DEF Added
  <2> QED BY <1>8, <2>1 DEF Later
<1>14. MissingOK' /\ SentOnce'
  <2>1. \A o \in Channels, d \in Calls : Named(o, d)' => Named(o, d)
    BY <1>1, <1>5, <1>13 DEF Named
  <2> QED BY <1>1, <1>9, <2>1, MissingKept, SentKept
<1>15. RunsOK'
  <2>1. ASSUME NEW d \in Calls, local'[d] # "none" PROVE started[d] > 0
    BY <1>2, <1>3, <2>1 DEF IInv, RunsOK
  <2>2. ASSUME NEW d \in Calls, rec[d].status = "pending", started[d] > 0
        PROVE  local'[d] \in {"active", "retained"}
    <3>1. local[d] \in {"active", "retained"}
      BY <2>2 DEF IInv, RunsOK
    <3> QED BY <1>1, <1>3, <3>1
  <2> QED BY <1>1, <1>5, <2>1, <2>2 DEF IInv, RunsOK, Opened
<1>16. ASSUME NEW n \in Nat, Added(n)
       PROVE  DaemonSays(n, MessageAt(link'.out, n), chan[t].expected, started')
  BY <1>1, <1>2, <1>12, <1>16 DEF DaemonSays
<1>17. t # None => link'.resume.ids \subseteq chan[t].expected
  BY <1>5 DEF IInv, DaemonStreams
<1> QED BY <1>1, <1>9, <1>11, <1>13, <1>14, <1>15, <1>16, <1>17, LinkStep_Keeps

(* An answer is accepted: what it acknowledges is dropped, and a link that   *)
(* becomes ready sends its results ms again.                                 *)
Accepts(ms) ==
    /\ ms \in Seq(MessageType) /\ Later(link'.out, link.out)
    /\ \A i \in 1 .. Len(ms) : \E c \in Calls : ms[i] = Result(c) /\ started[c] > 0
    /\ \A n \in Nat : Added(n) =>
         link.localReady /\ \E i \in 1 .. Len(ms) : MessageAt(link'.out, n) = ms[i]

(* What Receive does: the acknowledgement is always acceptable. *)
LEMMA Receive_Effect ==
    ASSUME IInv, Receive
    PROVE  /\ reply.token \in Channels /\ link.token \in {None, reply.token}
           /\ reply' = [reply EXCEPT !.kind = "reading"] /\ reply.kind = "ok"
           /\ UNCHANGED <<rec, chan, posts, sid, local, started, violation, faults>>
           /\ link' \in LinkState /\ link'.token = reply.token /\ link'.seen = link.seen
           /\ link'.resume = link.resume /\ link'.localReady = link.localReady
           /\ link'.ready <=> link.ready \/ (reply.phase = "ready" /\ link.localReady)
           /\ ~link.localReady => link'.out = NothingSent
           /\ link'.out.acked \in {reply.ack, link.out.acked}
           /\ \E ms : Accepts(ms)
<1> DEFINE t == reply.token
           a == Acknowledged(link.out, reply.ack)
<1>1. /\ reply.kind = "ok" /\ Answers /\ t # None /\ Opened(t) /\ chan[t].sid = sid
      /\ link.token # None => t = link.token
  BY DEF Receive, Answers, IInv, Tokens
<1>2. /\ t \in Channels /\ reply.ack \in Nat /\ link.out \in Batch /\ link.seen \in Nat
      /\ LastSeq(link.out) \in Nat /\ link \in LinkState /\ chan[t].seen \in Nat
      /\ link.token \in {None, t} /\ link.out.acked \in Nat
  <2>1. t \in Channels
    BY <1>1, ReplyTyped DEF IInv
  <2> QED BY <1>1, <2>1, ReplyTyped, LinkTyped, ChannelTyped DEF IInv, TypeOK
<1>3. AckValid(link.out, reply.ack)
  <2>1. reply.ack <= chan[t].seen
    BY <1>1 DEF IInv, ReplyShape
  <2>2. chan[t].seen <= LastSeq(link.out)
    <3>1. CASE link.token = None
      <4>1. chan[t].seen = 0
        BY <1>1, <1>2, <3>1 DEF IInv, Unlearned
      <4> QED BY <1>2, <4>1
    <3>2. CASE link.token # None
      BY <1>1, <3>2 DEF IInv, Ends
    <3> QED BY <3>1, <3>2
  <2> QED BY <1>2, <2>1, <2>2 DEF AckValid
<1>4. a \in Batch /\ Trimmed(a, link.out) /\ a.acked \in {reply.ack, link.out.acked}
      /\ Later(a, link.out)
  BY <1>2, <1>3, Trims, TrimmedLater
<1>5. ~link.localReady => a = NothingSent /\ ~link.ready
  <2>1. ~link.localReady => link.out = NothingSent /\ ~link.ready
    BY DEF IInv, LinkShape
  <2>2. link.out = NothingSent => reply.ack <= link.out.acked
    BY <1>3, NothingSentEffect DEF AckValid
  <2> QED BY <2>1, <2>2 DEF Acknowledged
<1>6. /\ reply' = [reply EXCEPT !.kind = "reading"]
      /\ UNCHANGED <<rec, chan, posts, sid, local, started, violation, faults>>
  BY <1>3 DEF Receive
<1> DEFINE more == reply.phase = "ready" /\ link.localReady /\ ~link.ready
<1>7. CASE ~more
  <2>1. link' = [link EXCEPT !.out = a, !.token = t]
    BY <1>1, <1>2, <1>3, <1>7, Zenon DEF Receive
  <2>2. /\ link' \in LinkState /\ link'.token = t /\ link'.seen = link.seen
        /\ link'.resume = link.resume /\ link'.localReady = link.localReady
        /\ link'.ready = link.ready /\ link'.out = a
    <3> HIDE DEF a
    <3> QED BY <1>2, <1>4, <2>1 DEF LinkState
  <2>3. \A n \in Nat : ~Added(n)
    <3>1. LastSeq(a) = LastSeq(link.out)
      BY <1>4 DEF Trimmed
    <3> QED BY <1>2, <2>2, <3>1 DEF Added, Has
  <2>4. Accepts(<<>>)
    BY <1>4, <2>2, <2>3 DEF Accepts
  <2>5. link.ready \in BOOLEAN
    BY LinkTyped DEF IInv
  <2> HIDE DEF a
  <2> QED BY <1>1, <1>2, <1>4, <1>5, <1>6, <1>7, <2>2, <2>4, <2>5
<1>8. CASE more
  <2>1. PICK q \in Orders(Retained) :
          link' = [link EXCEPT !.out = Enqueued(a, [i \in DOMAIN q |-> Result(q[i])]),
                               !.token = t, !.ready = TRUE]
    <3>1. \E q \in Orders(Retained) :
            link' = [[link EXCEPT !.out = a, !.token = t]
                       EXCEPT !.ready = TRUE,
                              !.out = Enqueued(a, [i \in DOMAIN q |-> Result(q[i])])]
      BY <1>1, <1>2, <1>3, <1>8, Zenon DEF Receive
    <3> HIDE DEF a
    <3> QED BY <1>2, <3>1, ZenonT(60) DEF LinkState
  <2> DEFINE ms == [i \in DOMAIN q |-> Result(q[i])]
  <2>2. q \in Seq(Calls) /\ \A i \in 1 .. Len(q) : q[i] \in Retained
    BY OrdersTyped DEF Retained
  <2>3. /\ ms \in Seq(MessageType) /\ Len(ms) = Len(q)
        /\ \A i \in 1 .. Len(ms) : \E c \in Calls : ms[i] = Result(c) /\ started[c] > 0
    <3>1. \A i \in 1 .. Len(q) : q[i] \in Calls /\ Result(q[i]) \in MessageType
      BY <2>2, MessagesTyped
    <3>2. DOMAIN q = 1 .. Len(q) /\ Len(q) \in Nat
      BY <2>2
    <3>3. ms \in [1 .. Len(q) -> MessageType]
      BY <3>1, <3>2
    <3>4. ms \in Seq(MessageType) /\ Len(ms) = Len(q)
      BY <3>2, <3>3
    <3>5. \A c \in Retained : started[c] > 0
      BY DEF Retained, IInv, RunsOK
    <3> QED BY <2>2, <3>1, <3>2, <3>4, <3>5
  <2> HIDE DEF ms, a
  <2>4. PICK b \in Batch : b = Enqueued(a, ms) /\ Extended(b, a, ms)
    BY <1>4, <2>3, Extends
  <2>5. link' = [link EXCEPT !.out = b, !.token = t, !.ready = TRUE]
    BY <2>1, <2>4 DEF ms
  <2>6. /\ link' \in LinkState /\ link'.token = t /\ link'.seen = link.seen
        /\ link'.resume = link.resume /\ link'.localReady = link.localReady
        /\ link'.ready /\ link'.out = b
    BY <1>2, <2>5 DEF LinkState
  <2>7. LastSeq(a) = LastSeq(link.out) /\ a.acked >= link.out.acked /\ a.acked \in Nat
        /\ b.acked = a.acked /\ LastSeq(b) = LastSeq(link.out) + Len(ms) /\ Len(ms) \in Nat
    BY <1>4, <2>3, <2>4, BatchTyped DEF Trimmed, Extended
  <2>8. Later(b, link.out)
    <3>1. ASSUME NEW n \in Nat, Has(b, n), n <= LastSeq(link.out)
          PROVE  Has(link.out, n) /\ MessageAt(b, n) = MessageAt(link.out, n)
      <4>1. Has(a, n)
        BY <2>7, <3>1 DEF Has
      <4> QED BY <1>4, <2>4, <4>1 DEF Extended, Trimmed
    <3> QED BY <1>2, <2>7, <3>1 DEF Later
  <2>9. ASSUME NEW n \in Nat, Added(n)
        PROVE  \E i \in 1 .. Len(ms) : MessageAt(b, n) = ms[i]
    <3>1. Has(b, n) /\ ~Has(a, n)
      BY <1>2, <2>6, <2>7, <2>9 DEF Added, Has
    <3> QED BY <2>4, <3>1 DEF Extended
  <2>10. Accepts(ms)
    BY <1>8, <2>3, <2>6, <2>8, <2>9 DEF Accepts
  <2> QED BY <1>1, <1>2, <1>4, <1>6, <1>8, <2>6, <2>7, <2>10
<1> QED BY <1>7, <1>8

(* Receive keeps the invariant, of the first answer of a session too. *)
LEMMA Receive_Keeps ==
    ASSUME IInv, Receive
    PROVE  IInv'
<1> DEFINE t == reply.token
<1>1. /\ t \in Channels /\ link.token \in {None, t} /\ t # None
      /\ reply' = [reply EXCEPT !.kind = "reading"] /\ reply.kind = "ok"
      /\ UNCHANGED <<rec, chan, posts, sid, local, started, violation, faults>>
      /\ link' \in LinkState /\ link'.token = t /\ link'.seen = link.seen
      /\ link'.resume = link.resume /\ link'.localReady = link.localReady
      /\ link'.ready <=> link.ready \/ (reply.phase = "ready" /\ link.localReady)
      /\ ~link.localReady => link'.out = NothingSent
      /\ link'.out.acked \in {reply.ack, link.out.acked}
  BY Receive_Effect, Numbers
<1>2. PICK ms : Accepts(ms)
  BY Receive_Effect
<1>3. /\ link.out \in Batch /\ link'.out \in Batch /\ LastSeq(link.out) \in Nat
      /\ LastSeq(link'.out) \in Nat /\ link.seen \in Nat /\ Later(link'.out, link.out)
      /\ LastSeq(link'.out) >= LastSeq(link.out) /\ link.out.acked \in Nat
      /\ link'.out.acked >= link.out.acked
  BY <1>1, <1>2, LinkTyped, BatchTyped DEF IInv, LinkState, Accepts, Later
<1>4. /\ reply' \in ReplyState /\ reply'.kind = "reading" /\ reply'.phase = reply.phase
      /\ reply'.token = t /\ reply'.ack = reply.ack /\ reply'.batch = reply.batch
      /\ Answers /\ Answers'
  BY <1>1 DEF IInv, TypeOK, ReplyState, Answers
<1>5. /\ Opened(t) /\ chan[t].sid = sid
  BY <1>1, <1>4 DEF IInv, Tokens
<1>6. link.token = None =>
        /\ link.seen = 0 /\ ~link.localReady /\ ~link.ready /\ link.resume.ids = {}
        /\ chan[t].seen = 0 /\ chan[t].out.acked = 0 /\ \A p \in posts : p.token # t
  BY <1>1, <1>5, ValuesTyped DEF IInv, LinkShape, Unlearned
<1>7. ~link.localReady => /\ link.out = NothingSent /\ LastSeq(link.out) = 0 /\ ~link.ready
                          /\ link'.out.acked = 0 /\ LastSeq(link'.out) = 0
                          /\ \A n \in Nat : ~Has(link'.out, n)
  BY <1>1, NothingSentEffect DEF IInv, LinkShape
<1>8. ASSUME NEW n \in Nat, Added(n)
      PROVE  n >= 3 /\ \E c \in Calls : MessageAt(link'.out, n) = Result(c) /\ started[c] > 0
  <2>1. link.localReady /\ \E c \in Calls : MessageAt(link'.out, n) = Result(c) /\ started[c] > 0
    BY <1>2, <1>8 DEF Accepts
  <2>2. LastSeq(link.out) >= 2
    BY <2>1 DEF IInv, LinkShape
  <2> QED BY <1>3, <1>8, <2>1, <2>2 DEF Added
<1>9. ASSUME NEW n \in Nat, Has(link'.out, n), ~Added(n)
      PROVE  /\ Has(link.out, n) /\ MessageAt(link'.out, n) = MessageAt(link.out, n)
             /\ link.token = t
  <2>1. n <= LastSeq(link.out)
    BY <1>3, <1>9 DEF Added
  <2> QED BY <1>1, <1>3, <1>6, <1>7, <1>9, <2>1 DEF Later
<1>10. TypeOK'
  BY <1>1, <1>4 DEF IInv, TypeOK
<1>11. Ordered' /\ ChannelShape' /\ StageShape' /\ Owners' /\ NoProtocolViolation'
  BY <1>1 DEF IInv, Ordered, ChannelShape, StageShape, Staged, Owners, NoProtocolViolation,
              Opened, Open
<1>12. Tokens'
  BY <1>1, <1>4, <1>5, ValuesTyped DEF IInv, Tokens, Opened
<1>13. OneAtATime'
  <2>1. \A p \in posts : ~p.live
    BY <1>1, ValuesTyped DEF IInv, OneAtATime
  <2> QED BY <1>1, <2>1 DEF OneAtATime
<1>14. Unlearned'
  BY <1>1, Numbers DEF IInv, Unlearned
<1>15. LinkShape'
  BY <1>1, <1>3, <1>7 DEF IInv, LinkShape
<1>16. WorkerStreams'
  BY <1>1, <1>4 DEF IInv, WorkerStreams
<1>17. DaemonStreams'
  <2>1. DaemonStream(link'.out, chan[t].expected, started)
    <3> SUFFICES ASSUME NEW n \in Nat, Has(link'.out, n)
                 PROVE  DaemonSays(n, MessageAt(link'.out, n), chan[t].expected, started)
      BY DEF DaemonStream
    <3>1. CASE Added(n)
      BY <1>8, <3>1 DEF DaemonSays
    <3>2. CASE ~Added(n)
      BY <1>1, <1>9, <3>2 DEF IInv, DaemonStreams, DaemonStream
    <3> QED BY <3>1, <3>2
  <2>2. link'.resume.ids \subseteq chan[t].expected
    BY <1>1, <1>6 DEF IInv, DaemonStreams
  <2> QED BY <1>1, <2>1, <2>2 DEF IInv, DaemonStreams
<1>18. ReplyShape'
  <2>1. ASSUME reply.phase = "ready" PROVE link'.ready
    <3>1. chan[t].seen >= 1
      BY <1>4, <2>1 DEF IInv, ReplyShape
    <3>2. link.token = t
      BY <1>1, <1>6, <3>1
    <3>3. chan[t].seen <= LastSeq(link.out) /\ chan[t].seen \in Nat
      BY <1>1, <3>2, ChannelTyped DEF IInv, Ends
    <3>4. link.localReady
      BY <1>3, <1>7, <3>1, <3>3
    <3> QED BY <1>1, <2>1, <3>4
  <2> QED BY <1>1, <1>4, <2>1 DEF IInv, ReplyShape, Open
<1>19. PostShape'
  <2>1. ASSUME NEW p \in posts, p.token = t
        PROVE  /\ p.ack <= link'.seen /\ LastSeq(p.batch) <= LastSeq(link'.out)
               /\ SameStream(p.batch, link'.out)
    <3>1. p.ack \in Nat /\ LastSeq(p.batch) \in Nat
      BY PostTyped DEF IInv
    <3>2. link.token = t
      BY <1>1, <1>6, <2>1
    <3>3. /\ p.ack <= link.seen /\ LastSeq(p.batch) <= LastSeq(link.out)
          /\ SameStream(p.batch, link.out)
      BY <1>1, <2>1, <3>2 DEF IInv, PostShape
    <3>4. ASSUME NEW n \in Nat, Has(p.batch, n), Has(link'.out, n)
          PROVE  MessageAt(p.batch, n) = MessageAt(link'.out, n)
      <4>1. n <= LastSeq(link.out)
        BY <1>3, <3>1, <3>3, <3>4 DEF Has
      <4> QED BY <1>3, <3>3, <3>4, <4>1 DEF Later, SameStream
    <3> QED BY <1>1, <1>3, <3>1, <3>3, <3>4 DEF SameStream
  <2> QED BY <1>1, <2>1 DEF IInv, PostShape
<1>20. Ends'
  <2> SUFFICES /\ chan[t].out.acked <= link.seen /\ link'.out.acked <= chan[t].seen
               /\ chan[t].seen <= LastSeq(link'.out)
    BY <1>1 DEF Ends
  <2>1. chan[t].out.acked \in Nat /\ chan[t].seen \in Nat
    BY <1>1, ChannelTyped DEF IInv
  <2>2. CASE link.token = None
    BY <1>3, <1>6, <1>7, <2>1, <2>2
  <2>3. CASE link.token = t
    <3>1. /\ chan[t].out.acked <= link.seen /\ link.out.acked <= chan[t].seen
          /\ chan[t].seen <= LastSeq(link.out)
      BY <1>1, <2>3 DEF IInv, Ends
    <3>2. reply.ack <= chan[t].seen
      BY <1>4 DEF IInv, ReplyShape
    <3> QED BY <1>1, <1>3, <2>1, <3>1, <3>2
  <2> QED BY <1>1, <2>2, <2>3
<1>21. Has(link'.out, 2) => /\ Has(link.out, 2) /\ link.token = t
                            /\ MessageAt(link'.out, 2) = MessageAt(link.out, 2)
  BY <1>8, <1>9
<1>22. OneReport'
  BY <1>1, <1>21 DEF IInv, OneReport
<1>23. \A o \in Channels, c \in Calls : Named(o, c)' => Named(o, c)
  BY <1>1, <1>6, <1>21 DEF Named
<1>24. ASSUME NEW c \in Calls, NEW n \in Nat, Unread(c, n)' PROVE Unread(c, n)
  <2>1. n > link.seen /\ (Holds(chan[t].out, n, ToolCall(c)) \/ Holds(reply.batch, n, ToolCall(c)))
    <3>1. /\ n > link'.seen
          /\ Holds(chan'[link'.token].out, n, ToolCall(c)) \/ Holds(reply'.batch, n, ToolCall(c))
      BY <1>24 DEF Unread
    <3> QED BY <1>1, <1>4, <3>1
  <2>2. CASE Holds(reply.batch, n, ToolCall(c))
    BY <1>4, <2>1, <2>2 DEF Unread
  <2>3. CASE Holds(chan[t].out, n, ToolCall(c)) /\ link.token = t
    BY <1>1, <2>1, <2>3 DEF Unread
  <2>4. CASE Holds(chan[t].out, n, ToolCall(c)) /\ link.token = None
    <3>1. chan[t].state \in {"probing", "closed"} /\ chan[t].out # NothingSent
      <4>1. chan[t].state \in {"none", "probing", "ready", "closed"}
        BY <1>1, ChannelTyped DEF IInv
      <4>2. chan[t].state # "ready"
        BY <1>1, <1>6, <2>4 DEF IInv, ChannelShape
      <4>3. chan[t].out # NothingSent
        BY <2>4, NothingSentEffect DEF Holds
      <4> QED BY <1>5, <4>1, <4>2, <4>3 DEF Opened
    <3>2. n <= 2
      BY <1>1, <2>4, <3>1 DEF IInv, ChannelShape, Holds, Has
    <3>3. WorkerSays(n, ToolCall(c), chan[t].expected, rec)
      BY <1>1, <2>4 DEF IInv, WorkerStreams, WorkerStream, Holds
    <3>4. n \in Nat \ {0} /\ ToolCall(c).type = "tool_call"
      BY <1>3, <2>1 DEF ToolCall
    <3>5. n >= 3
      BY <3>3, <3>4, WorkerMessages
    <3> QED BY <3>2, <3>5
  <2> QED BY <1>1, <2>1, <2>2, <2>3, <2>4
<1>25. MissingOK'
  BY <1>1, <1>23, <1>24 DEF IInv, MissingOK, Open
<1>26. SentOnce'
  BY <1>1, <1>4, <1>24 DEF IInv, SentOnce
<1>27. RunsOK'
  BY <1>1 DEF IInv, RunsOK, Opened
<1> QED BY <1>10, <1>11, <1>12, <1>13, <1>14, <1>15, <1>16, <1>17, <1>18, <1>19, <1>20, <1>22,
           <1>25, <1>26, <1>27 DEF IInv

-----------------------------------------------------------------------------
(* The initial states. *)
LEMMA InitInvariant ==
    ASSUME Init
    PROVE  IInv
<1>1. 1 \in Sessions
  <2>1. Cardinality(Sessions) \in Nat
    BY HttpAssumption, FS_CardinalityType
  <2> QED BY <2>1, HttpAssumption
<1>2. /\ \A c \in Calls : rec[c] = NewRecord /\ local[c] = "none" /\ started[c] = 0
      /\ \A o \in Channels : chan[o] = NewChannel
      /\ posts = {} /\ reply = NoReply /\ link = NewLink /\ sid = 1 /\ violation = FALSE
  BY DEF Init
<1>3. NewRecord \in Record /\ NewRecord.status = "new" /\ NewRecord.outcome # "not_received"
  BY DEF NewRecord, Record, Outcomes
<1>4. TypeOK
  <2>1. rec \in [Calls -> Record] /\ chan \in [Channels -> ChannelState]
    BY <1>3, ValuesTyped DEF Init
  <2>2. posts \subseteq PostState /\ reply \in ReplyState /\ sid \in Sessions /\ link \in LinkState
    BY <1>1, ValuesTyped DEF Init
  <2>3. /\ local \in [Calls -> {"none", "active", "suppressed", "retained"}]
        /\ started \in [Calls -> Nat] /\ violation \in BOOLEAN
    BY DEF Init
  <2>4. faults \in 0 .. MaxFaults
    BY HttpAssumption DEF Init
  <2> QED BY <2>1, <2>2, <2>3, <2>4 DEF TypeOK
<1>5. /\ ~Answers /\ link.token = None /\ NoReply.kind = "none"
      /\ \A o \in Channels : ~Opened(o) /\ ~Open(o) /\ chan[o].sid = 0 /\ chan[o].out = NothingSent
                             /\ chan[o].seen = 0 /\ chan[o].expected = {}
                             /\ ~chan[o].answered.known
  BY <1>2, ValuesTyped DEF Answers, Opened, Open
<1>6. \A o \in Channels : chan[o].out.acked = 0 /\ \A n \in Nat : ~Has(chan[o].out, n)
  BY <1>5, NothingSentEffect
<1>7. Ordered /\ Tokens /\ OneAtATime /\ Unlearned
  BY <1>2, <1>5, <1>6 DEF Ordered, Tokens, OneAtATime, Unlearned
<1>8. LinkShape /\ ChannelShape
  BY <1>2, <1>5, ValuesTyped DEF LinkShape, ChannelShape, Opened
<1>9. WorkerStreams /\ DaemonStreams
  BY <1>2, <1>5, <1>6 DEF WorkerStreams, WorkerStream, DaemonStreams
<1>10. ReplyShape /\ PostShape /\ StageShape /\ Ends /\ OneReport
  BY <1>2, <1>5 DEF ReplyShape, PostShape, StageShape, Ends, OneReport
<1>11. \A c \in Calls, n \in Nat : ~Unread(c, n)
  BY <1>5 DEF Unread
<1>12. MissingOK /\ SentOnce /\ RunsOK /\ Owners /\ NoProtocolViolation
  BY <1>2, <1>3, <1>5, <1>6, <1>11
     DEF MissingOK, SentOnce, RunsOK, Owners, NoProtocolViolation, Holds
<1> QED BY <1>4, <1>7, <1>8, <1>9, <1>10, <1>12 DEF IInv

(* Every step keeps the invariant. *)
LEMMA StepKeeps ==
    ASSUME IInv, [Next]_vars
    PROVE  IInv'
<1>1. ASSUME NEW p \in posts, Handler(p) PROVE IInv'
  BY <1>1, OpenChannel_Keeps, Refuse_Keeps, Begin_Keeps, OutOfOrder_Keeps, Ready_Keeps,
     TakeResult_Keeps, TakeResumeAck_Keeps, Commit_Keeps, Respond_Keeps DEF Handler
<1>2. ASSUME Reading PROVE IInv'
  BY <1>2, EndResponse_Keeps, DaemonResume_Keeps, DaemonReady_Keeps, DaemonToolCall_Keeps,
     DaemonCancel_Keeps, DaemonAck_Keeps DEF Reading
<1>3. CASE Next
  BY <1>1, <1>2, <1>3, Reclaim_Keeps, Dispatch_Keeps, CancelRequest_Keeps, Poll_Keeps,
     PollFails_Keeps, ResponseGarbled_Keeps, Interrupt_Keeps, Conflict_Keeps, Failed_Keeps,
     Receive_Keeps, Finish_Keeps DEF Next
<1>4. CASE UNCHANGED vars
  <2>1. /\ rec' = rec /\ chan' = chan /\ posts' = posts /\ reply' = reply /\ sid' = sid
        /\ link' = link /\ local' = local /\ started' = started /\ violation' = violation
        /\ faults' = faults
    BY <1>4 DEF vars
  <2>2. TypeOK'
    BY <2>1 DEF IInv, TypeOK
  <2>3. PostsFrom /\ ReplyFrom
    BY <2>1, PostTyped DEF PostsFrom, ReplyFrom, IInv, OneAtATime, Tokens
  <2>4. StageShape'
    BY <2>1 DEF IInv, StageShape, Staged, Open
  <2> QED BY <2>1, <2>2, <2>3, <2>4, StillStep DEF daemon
<1> QED BY <1>3, <1>4

(* Under whatever is lost, repeated or overtaken, the invariant holds.       *)
THEOREM Invariance == Spec => []IInv
<1>1. Init => IInv
  BY InitInvariant
<1>2. IInv /\ [Next]_vars => IInv'
  BY StepKeeps
<1> QED BY <1>1, <1>2, PTL DEF Spec

(* Type correctness: every channel, poll, response and session is well       *)
(* formed in every reachable state.                                          *)
THEOREM TypeCorrect == Spec => []TypeOK
<1>1. IInv => TypeOK
  BY DEF IInv
<1> QED BY <1>1, Invariance, PTL

(* A batch of the stream out that carries nothing its receiver has to have.  *)
LEMMA CarriesStream ==
    ASSUME NEW b \in Batch, NEW out \in Batch, NEW seen \in Nat, b.acked <= seen,
           out.acked <= seen, LastSeq(b) <= LastSeq(out), SameStream(b, out)
    PROVE  Carries(b, out, seen)
<1>1. ASSUME NEW n \in seen + 1 .. LastSeq(b) PROVE MessageAt(b, n) = MessageAt(out, n)
  <2>1. n \in Nat /\ Has(b, n) /\ Has(out, n)
    BY BatchTyped DEF Has
  <2> QED BY <2>1 DEF SameStream
<1> QED BY <1>1 DEF Carries

(* The relay between daemon and Worker stays one: what either end still has  *)
(* to handle is what the other sent under that number, and neither rejects   *)
(* a message of the other (acceptDaemonSequence, RelayInboundSequence,       *)
(* invalidate, handleRelayProtocolViolation).                                *)
THEOREM RelayIsKept == Spec => []RelayKept
<1>1. ASSUME IInv PROVE RelayKept
  <2> DEFINE o == link.token
  <2> SUFFICES ASSUME Open(o)
               PROVE  /\ Carries(chan[o].out, chan[o].out, link.seen)
                      /\ Carries(link.out, link.out, chan[o].seen)
                      /\ reply.kind \in {"ok", "reading"} /\ reply.token = o =>
                            Carries(reply.batch, chan[o].out, link.seen)
                      /\ \A p \in posts : p.token = o /\ p.sid = sid =>
                            Carries(p.batch, link.out, chan[o].seen)
    BY <1>1 DEF IInv, RelayKept, StreamsAgree
  <2>1. o # None /\ o \in Channels /\ link.seen \in Nat /\ link.out \in Batch
    BY <1>1, LinkTyped DEF IInv, Open
  <2>2. chan[o].out \in Batch /\ chan[o].seen \in Nat
    BY <1>1, <2>1, ChannelTyped DEF IInv
  <2>3. chan[o].out.acked <= link.seen /\ link.out.acked <= chan[o].seen
    BY <1>1, <2>1 DEF IInv, Ends
  <2>4. \A b \in Batch : LastSeq(b) <= LastSeq(b) /\ SameStream(b, b)
    BY BatchTyped DEF SameStream
  <2>5. Carries(chan[o].out, chan[o].out, link.seen) /\ Carries(link.out, link.out, chan[o].seen)
    BY <2>1, <2>2, <2>3, <2>4, CarriesStream
  <2>6. ASSUME reply.kind \in {"ok", "reading"}, reply.token = o
        PROVE  Carries(reply.batch, chan[o].out, link.seen)
    <3>1. reply.batch \in Batch
      BY <1>1, ReplyTyped DEF IInv
    <3>2. /\ reply.batch.acked <= link.seen /\ LastSeq(reply.batch) <= LastSeq(chan[o].out)
          /\ SameStream(reply.batch, chan[o].out)
      BY <1>1, <2>6 DEF IInv, ReplyShape, Answers
    <3> QED BY <2>1, <2>2, <2>3, <3>1, <3>2, CarriesStream
  <2>7. ASSUME NEW p \in posts, p.token = o
        PROVE  Carries(p.batch, link.out, chan[o].seen)
    <3>1. p.batch \in Batch
      BY <1>1, PostTyped DEF IInv
    <3>2. /\ p.batch.acked <= chan[o].seen /\ LastSeq(p.batch) <= LastSeq(link.out)
          /\ SameStream(p.batch, link.out)
      BY <1>1, <2>1, <2>7 DEF IInv, PostShape
    <3> QED BY <2>1, <2>2, <2>3, <3>1, <3>2, CarriesStream
  <2> QED BY <2>5, <2>6, <2>7
<1>2. IInv => RelayKept
  BY <1>1
<1> QED BY <1>2, Invariance, PTL

(* A call runs once at most, never after its caller was told it was not      *)
(* received, and a result the Worker waits for is kept (handleRelayToolCall, *)
(* handleResumeCallsAck, reconcileRelayCalls).                               *)
THEOREM CallsSurviveFailures == Spec => []CallsSurvive
<1>1. IInv => CallsSurvive
  BY DEF IInv, RunsOK, CallsSurvive, AtMostOnceExecution, NotReceivedMeansNotExecuted,
         NoLostResult, Pending
<1> QED BY <1>1, Invariance, PTL

(* A pending call is held by no closed channel, and one channel at most is   *)
(* open (activate, detachDaemonChannelCalls, rebindInstance).                *)
THEOREM OwnersAreOpen == Spec => []OwnerIsOpen
<1>1. ASSUME IInv PROVE OwnerIsOpen
  <2>1. \A x, y \in Channels : Open(x) /\ Open(y) => x = y
    BY <1>1, OnlyOneOpen
  <2> QED BY <1>1, <2>1 DEF OwnerIsOpen, IInv, Owners, Pending
<1>2. IInv => OwnerIsOpen
  BY <1>1
<1> QED BY <1>2, Invariance, PTL
-----------------------------------------------------------------------------
(* Every step is one that CallDelivery allows to each call.  Besides what    *)
(* the invariant says, an answer needs a result, which only a call that was  *)
(* executed has; and nothing is sent to a channel that is not ready.         *)
OutcomesOK ==
    \A c \in Calls : /\ Told(rec[c]) = "answered" => started[c] > 0
                     /\ rec[c].outcome # "send_failed"

(* What a step may tell the caller of call c, whose record becomes s. *)
Moves(c, s) ==
    /\ s.outcome = "send_failed" => rec[c].outcome = "send_failed"
    /\ \/ Told(s) = Told(rec[c])
       \/ Told(rec[c]) = "unsent" /\ Told(s) = "waiting"
       \/ Told(rec[c]) = "waiting" /\ Told(s) \in {"not_received", "unknown"}
       \/ Told(rec[c]) = "waiting" /\ Told(s) = "answered" /\ started[c] > 0

(* The caller of a pending call waits, and of a settled one knows why. *)
LEMMA ToldStatus ==
    ASSUME NEW r
    PROVE  /\ r.status = "new" => Told(r) = "unsent"
           /\ r.status = "pending" => Told(r) = "waiting"
           /\ r.status = "settled" /\ r.outcome = "answered" => Told(r) = "answered"
           /\ r.status = "settled" /\ r.outcome = "not_received" => Told(r) = "not_received"
           /\ r.status = "settled" /\ r.outcome \in {"cancelled", "disconnected"}
                => Told(r) = "unknown"
<1>1. ASSUME r.status = "new" PROVE Told(r) = "unsent"
  BY <1>1 DEF Told
<1>2. ASSUME r.status = "pending" PROVE Told(r) = "waiting"
  BY <1>2 DEF Told
<1>3. ASSUME r.status = "settled", r.outcome = "answered" PROVE Told(r) = "answered"
  BY <1>3 DEF Told
<1>4. ASSUME r.status = "settled", r.outcome = "not_received" PROVE Told(r) = "not_received"
  BY <1>4 DEF Told
<1>5. ASSUME r.status = "settled", r.outcome \in {"cancelled", "disconnected"}
      PROVE  Told(r) = "unknown"
  BY <1>5 DEF Told
<1> QED BY <1>1, <1>2, <1>3, <1>4, <1>5

(* What losing the channels of S tells the callers. *)
LEMMA LossMoves ==
    ASSUME IInv, NEW S \in SUBSET Channels, NEW c \in Calls
    PROVE  Moves(c, CallsAfterLoss(S)[c])
<1> DEFINE s == CallsAfterLoss(S)[c]
<1>1. rec[c] \in Record /\ None \in Channels \cup {None} /\ "disconnected" \in Outcomes
  BY DEF IInv, TypeOK, Outcomes, Failures
<1>2. CASE c \in Pending(rec) /\ rec[c].owner \in S
  <2>1. rec[c].status = "pending" /\ s \in {Detached(rec[c]), Settled(rec[c], "disconnected", None)}
    BY <1>2 DEF CallsAfterLoss, Pending
  <2>2. \/ s.status = "pending" /\ s.outcome = rec[c].outcome
        \/ s.status = "settled" /\ s.outcome = "disconnected"
    BY <1>1, <2>1, RecordOps
  <2> HIDE DEF s
  <2>3. Told(s) = "waiting" \/ (Told(s) = "unknown" /\ s.outcome # "send_failed")
    BY <2>2, ToldStatus
  <2>4. Told(rec[c]) = "waiting" /\ (s.status = "pending" => s.outcome = rec[c].outcome)
    BY <2>1, <2>2, ToldStatus
  <2>5. Moves(c, s)
    BY <2>2, <2>3, <2>4 DEF Moves
  <2> QED BY <2>5 DEF s
<1>3. CASE ~(c \in Pending(rec) /\ rec[c].owner \in S)
  BY <1>3 DEF CallsAfterLoss, Moves
<1> QED BY <1>2, <1>3

LEMMA InvalidateMoves ==
    ASSUME IInv, NEW p \in posts, Invalidate(p), NEW c \in Calls
    PROVE  Moves(c, rec'[c])
<1>1. {p.token} \cap {o \in Channels : Open(o)} \in SUBSET Channels
  OBVIOUS
<1> QED BY <1>1, LossMoves DEF Invalidate

LEMMA OpenChannelMoves ==
    ASSUME IInv, NEW p \in posts, OpenChannel(p), NEW c \in Calls
    PROVE  Moves(c, rec'[c])
<1> DEFINE previous == {x \in Channels : Open(x)}
           kept     == CallsAfterLoss(previous)
<1>1. PICK o \in Channels : rec' = RebindInstance(kept, ThisInstance, o)
  BY DEF OpenChannel
<1>2. Moves(c, kept[c]) /\ kept[c] \in Record
  <2>1. previous \in SUBSET Channels
    OBVIOUS
  <2> HIDE DEF previous
  <2> QED BY <2>1, LossMoves, AfterLoss DEF RecordsKept
<1> HIDE DEF kept
<1>3. Told(rec'[c]) = Told(kept[c]) /\ rec'[c].outcome = kept[c].outcome
  <2>1. CASE c \in ReboundCalls(kept, ThisInstance, o)
    <3>1. kept[c].status = "pending" /\ rec'[c] = Rebound(kept[c], o)
      BY <1>1, <2>1 DEF RebindInstance, ReboundCalls, Pending
    <3>2. rec'[c].status = "pending" /\ rec'[c].outcome = kept[c].outcome
      <4>1. o \in Channels \cup {None}
        OBVIOUS
      <4>2. Rebound(kept[c], o).status = kept[c].status /\ Rebound(kept[c], o).outcome = kept[c].outcome
        BY <1>2, <4>1, RecordOps
      <4> QED BY <3>1, <4>2
    <3> QED BY <3>1, <3>2, ToldStatus
  <2>2. CASE c \notin ReboundCalls(kept, ThisInstance, o)
    BY <1>1, <2>2 DEF RebindInstance
  <2> QED BY <2>1, <2>2
<1> QED BY <1>2, <1>3 DEF Moves

(* A result settles a call that was executed. *)
LEMMA TakeResultMoves ==
    ASSUME IInv, NEW p \in posts, TakeResult(p), NEW d \in Calls
    PROVE  Moves(d, rec'[d])
<1>1. p.stage = "handling" /\ p.token \in Channels /\ Handles(p, "tool_result")
  BY Handled DEF TakeResult, Handles
<1>2. PICK c \in Calls : Message(p) = Result(c) /\ started[c] > 0
  BY <1>1, Handled, HandlesNext, DaemonMessages
<1>3. rec' = Answer(rec, c, p.token) /\ rec \in [Calls -> Record]
  BY <1>2 DEF TakeResult, Result, IInv, TypeOK
<1>4. CASE rec'[d] = rec[d]
  BY <1>4 DEF Moves
<1>5. CASE rec'[d] # rec[d]
  <2>1. d = c /\ rec[c].status = "pending" /\ rec'[c] = Settled(rec[c], "answered", p.token)
    BY <1>3, <1>5 DEF Answer, ResultOwnership, Pending
  <2>2. Settled(rec[c], "answered", p.token).status = "settled"
        /\ Settled(rec[c], "answered", p.token).outcome = "answered"
    <3>1. rec[c] \in Record /\ p.token \in Channels \cup {None} /\ "answered" \in Outcomes
      BY <1>1, <1>3 DEF Outcomes
    <3> QED BY <3>1, RecordOps
  <2> QED BY <1>2, <2>1, <2>2, ToldStatus DEF Moves
<1> QED BY <1>4, <1>5

LEMMA TakeResumeAckMoves ==
    ASSUME IInv, NEW p \in posts, TakeResumeAck(p), NEW c \in Calls
    PROVE  Moves(c, rec'[c])
<1> DEFINE t     == p.token
           ids   == Message(p).ids
           first == ~chan[t].answered.known
           owned == IF first THEN ids \cap OwnedBy(rec, t) ELSE {}
           fresh == {d \in owned : rec[d].redelivered = None}
<1>1. CASE Invalidate(p)
  BY <1>1, InvalidateMoves
<1>2. CASE ~Invalidate(p)
  <2>1. PICK spent \in SUBSET fresh :
          rec' = [d \in Calls |->
                    IF d \in fresh \ spent THEN [rec[d] EXCEPT !.redelivered = t]
                    ELSE IF d \in spent \/ (d \in owned /\ rec[d].redelivered # t)
                    THEN Settled(rec[d], "not_received", None)
                    ELSE rec[d]]
    BY <1>2 DEF TakeResumeAck
  <2>2. rec[c] \in Record /\ None \in Channels \cup {None} /\ "not_received" \in Outcomes
    BY DEF IInv, TypeOK, Outcomes, Failures
  <2>3. c \in owned => rec[c].status = "pending"
    BY DEF OwnedBy, Pending
  <2>4. fresh \subseteq owned
    OBVIOUS
  <2> HIDE DEF fresh, owned
  <2>5. CASE c \in fresh \ spent
    <3>1. PICK r \in Record : r = rec[c]
      BY <2>2
    <3>2. rec'[c] = [r EXCEPT !.redelivered = t]
      BY <2>1, <2>5, <3>1 DEF Record
    <3>3. rec'[c].status = r.status /\ rec'[c].outcome = r.outcome
      BY <3>2 DEF Record
    <3> QED BY <2>3, <2>4, <2>5, <3>1, <3>3, ToldStatus DEF Moves
  <2>6. CASE c \notin fresh \ spent /\ (c \in spent \/ (c \in owned /\ rec[c].redelivered # t))
    <3>1. rec'[c] = Settled(rec[c], "not_received", None) /\ rec[c].status = "pending"
      BY <2>1, <2>3, <2>4, <2>6
    <3>2. /\ Settled(rec[c], "not_received", None).status = "settled"
          /\ Settled(rec[c], "not_received", None).outcome = "not_received"
      BY <2>2, RecordOps
    <3> QED BY <3>1, <3>2, ToldStatus DEF Moves
  <2>7. CASE c \notin fresh \ spent /\ ~(c \in spent \/ (c \in owned /\ rec[c].redelivered # t))
    BY <2>1, <2>7 DEF Moves
  <2> QED BY <2>5, <2>6, <2>7
<1> QED BY <1>1, <1>2

LEMMA DispatchMoves ==
    ASSUME IInv, NEW d \in Calls, NEW o \in Channels, Dispatch(d, o), NEW c \in Calls
    PROVE  Moves(c, rec'[c])
<1>1. rec[d].status = "new" /\ rec' = [rec EXCEPT ![d] = Registered(d, o, ThisInstance)]
  BY DEF Dispatch
<1>2. /\ Registered(d, o, ThisInstance).status = "pending"
      /\ Registered(d, o, ThisInstance).outcome = "none"
  BY DEF Registered, NewRecord
<1>3. rec \in [Calls -> Record]
  BY DEF IInv, TypeOK
<1>4. IF c = d
      THEN rec'[c].status = "pending" /\ rec'[c].outcome = "none" /\ rec[c].status = "new"
      ELSE rec'[c] = rec[c]
  BY <1>1, <1>2, <1>3
<1> QED BY <1>4, ToldStatus DEF Moves

LEMMA CancelRequestMoves ==
    ASSUME IInv, NEW d \in Calls, CancelRequest(d), NEW c \in Calls
    PROVE  Moves(c, rec'[c])
<1>1. rec[d].status = "pending" /\ rec' = SettleAll(rec, {d}, "cancelled")
  BY DEF CancelRequest, Pending
<1>2. rec[c] \in Record /\ None \in Channels \cup {None} /\ "cancelled" \in Outcomes
  BY DEF IInv, TypeOK, Outcomes, Failures
<1>3. /\ Settled(rec[c], "cancelled", None).status = "settled"
      /\ Settled(rec[c], "cancelled", None).outcome = "cancelled"
  <2>1. \A x \in Outcomes : /\ Settled(rec[c], x, None).status = "settled"
                            /\ Settled(rec[c], x, None).outcome = x
    BY <1>2, RecordOps
  <2> QED BY <1>2, <2>1
<1>4. \/ rec'[c] = rec[c]
      \/ rec[c].status = "pending" /\ rec'[c] = Settled(rec[c], "cancelled", None)
  BY <1>1 DEF SettleAll, Pending, None
<1> QED BY <1>3, <1>4, ToldStatus DEF Moves

(* What any step tells the callers. *)
LEMMA StepMoves ==
    ASSUME IInv, [Next]_vars, NEW c \in Calls
    PROVE  Moves(c, rec'[c])
<1>1. ASSUME rec' = rec PROVE Moves(c, rec'[c])
  BY <1>1 DEF Moves
<1>2. ASSUME NEW p \in posts, Handler(p) PROVE Moves(c, rec'[c])
  <2>1. CASE Refuse(p) \/ Begin(p) \/ Commit(p) \/ Respond(p)
    BY <1>1, <2>1 DEF Refuse, Begin, Commit, Respond
  <2>2. CASE OutOfOrder(p) \/ Ready(p)
    BY <1>1, <2>2, InvalidateMoves DEF OutOfOrder, Ready
  <2> QED BY <1>2, <2>1, <2>2, OpenChannelMoves, TakeResultMoves, TakeResumeAckMoves DEF Handler
<1>3. ASSUME NEW o \in Channels, Reclaim(o) PROVE Moves(c, rec'[c])
  <2>1. {o} \in SUBSET Channels
    OBVIOUS
  <2> QED BY <1>3, <2>1, LossMoves DEF Reclaim
<1>4. CASE Poll \/ PollFails \/ ResponseGarbled \/ Interrupt \/ Conflict \/ Failed \/ Receive
  BY <1>1, <1>4 DEF Poll, PollFails, ResponseGarbled, Interrupt, Conflict, Failed, Receive
<1>5. CASE Reading
  BY <1>1, <1>5 DEF Reading, EndResponse, DaemonResume, DaemonReady, DaemonToolCall,
                    DaemonCancel, DaemonAck
<1>6. ASSUME NEW d \in Calls, Finish(d) PROVE Moves(c, rec'[c])
  BY <1>1, <1>6 DEF Finish
<1>7. CASE UNCHANGED vars
  BY <1>1, <1>7 DEF vars
<1> QED BY <1>2, <1>3, <1>4, <1>5, <1>6, <1>7, DispatchMoves, CancelRequestMoves DEF Next

(* Only reading a tool call executes one, and says nothing to any caller. *)
LEMMA StepRuns ==
    ASSUME IInv, [Next]_vars
    PROVE  \/ started' = started
           \/ /\ rec' = rec
              /\ \A c \in Calls : started'[c] \in {started[c], started[c] + 1}
<1>1. ASSUME NEW p \in posts, Handler(p) PROVE started' = started
  BY <1>1 DEF Handler, OpenChannel, Refuse, Begin, OutOfOrder, Ready, TakeResult, TakeResumeAck,
              Commit, Respond, Invalidate
<1>2. CASE DaemonToolCall
  <2>1. /\ rec' = rec
        /\ started' = started \/ started' = [started EXCEPT ![Read.id] = @ + 1]
    BY <1>2 DEF DaemonToolCall
  <2>2. started \in [Calls -> Nat]
    BY DEF IInv, TypeOK
  <2> QED BY <2>1, <2>2
<1>3. CASE Reading /\ ~DaemonToolCall
  BY <1>3 DEF Reading, EndResponse, DaemonResume, DaemonReady, DaemonCancel, DaemonAck
<1>4. CASE Poll \/ PollFails \/ ResponseGarbled \/ Interrupt \/ Conflict \/ Failed \/ Receive
  BY <1>4 DEF Poll, PollFails, ResponseGarbled, Interrupt, Conflict, Failed, Receive
<1>5. CASE \/ \E o \in Channels : Reclaim(o)
           \/ \E d \in Calls, o \in Channels : Dispatch(d, o)
           \/ \E d \in Calls : CancelRequest(d)
           \/ \E d \in Calls : Finish(d)
  BY <1>5 DEF Reclaim, Dispatch, CancelRequest, Finish
<1>6. CASE UNCHANGED vars
  BY <1>6 DEF vars
<1> QED BY <1>1, <1>2, <1>3, <1>4, <1>5, <1>6 DEF Next

(* What was told is true of what ran. *)
ToldTruly ==
    \A c \in Calls :
        /\ Told(rec[c]) \in Delivery!Told /\ started[c] \in {0, 1}
        /\ Told(rec[c]) \in {"unsent", "not_received"} => started[c] = 0
        /\ Told(rec[c]) = "answered" => started[c] = 1

(* The invariant says so. *)
LEMMA InvariantTellsTruly ==
    ASSUME IInv, OutcomesOK
    PROVE  ToldTruly
<1> SUFFICES ASSUME NEW c \in Calls
             PROVE  /\ Told(rec[c]) \in Delivery!Told /\ started[c] \in {0, 1}
                    /\ Told(rec[c]) \in {"unsent", "not_received"} => started[c] = 0
                    /\ Told(rec[c]) = "answered" => started[c] = 1
  BY DEF ToldTruly
<1>1. /\ rec[c] \in Record /\ started[c] \in Nat /\ started[c] <= 1
      /\ rec[c].status = "new" => started[c] = 0
      /\ rec[c].outcome = "not_received" => started[c] = 0
      /\ rec[c].outcome # "send_failed"
      /\ Told(rec[c]) = "answered" => started[c] > 0
  BY DEF IInv, TypeOK, RunsOK, OutcomesOK
<1>2. Told(rec[c]) \in {"unsent", "waiting", "answered", "not_received", "unknown"}
  BY DEF Told
<1>3. /\ Told(rec[c]) = "unsent" => rec[c].status = "new"
      /\ Told(rec[c]) = "not_received" => rec[c].outcome \in {"not_received", "send_failed"}
  BY DEF Told
<1> QED BY <1>1, <1>2, <1>3 DEF Delivery!Told

LEMMA OutcomesKept ==
    ASSUME IInv, OutcomesOK, [Next]_vars, IInv'
    PROVE  OutcomesOK'
<1> SUFFICES ASSUME NEW c \in Calls
             PROVE  /\ Told(rec'[c]) = "answered" => started'[c] > 0
                    /\ rec'[c].outcome # "send_failed"
  BY DEF OutcomesOK
<1>1. Moves(c, rec'[c])
  BY StepMoves
<1>2. started[c] \in Nat /\ started'[c] \in {started[c], started[c] + 1}
  BY StepRuns DEF IInv, TypeOK
<1> QED BY <1>1, <1>2 DEF Moves, OutcomesOK

(* The HTTPS fallback implements CallDelivery: over any number of failing    *)
(* polls, channels and sessions every call is executed once at most, is      *)
(* answered only from its execution, and is never executed once it was       *)
(* answered or reported as not received.                                     *)
THEOREM DeliversOnce == Spec => ImplementsDelivery
<1> DEFINE call == [c \in Calls |-> [told |-> Told(rec[c]), runs |-> started[c]]]
<1>1. Init => Delivery!Init /\ OutcomesOK
  <2>1. NewRecord.status = "new" /\ NewRecord.outcome = "none" /\ Told(NewRecord) = "unsent"
    BY DEF NewRecord, Told
  <2> QED BY <2>1 DEF Init, Delivery!Init, Delivery!Unsent, OutcomesOK
<1>2. IInv /\ OutcomesOK /\ [Next]_vars /\ IInv' => OutcomesOK'
  BY OutcomesKept
<1>3. ASSUME IInv, ToldTruly, ToldTruly', [Next]_vars
      PROVE  Delivery!Next
  <2>1. ASSUME NEW c \in Calls
        PROVE  /\ [told |-> Told(rec'[c]), runs |-> started'[c]] \in Delivery!Call
               /\ Delivery!CallStep([told |-> Told(rec[c]), runs |-> started[c]],
                                    [told |-> Told(rec'[c]), runs |-> started'[c]])
    <3>1. /\ Told(rec[c]) \in Delivery!Told /\ started[c] \in {0, 1}
          /\ Told(rec[c]) \in {"unsent", "not_received"} => started[c] = 0
          /\ Told(rec[c]) = "answered" => started[c] = 1
      BY <1>3 DEF ToldTruly
    <3>2. /\ Told(rec'[c]) \in Delivery!Told /\ started'[c] \in {0, 1}
          /\ Told(rec'[c]) \in {"unsent", "not_received"} => started'[c] = 0
          /\ Told(rec'[c]) = "answered" => started'[c] = 1
      BY <1>3 DEF ToldTruly
    <3>3. Moves(c, rec'[c])
      BY <1>3, StepMoves
    <3>4. \/ started'[c] = started[c]
          \/ rec'[c] = rec[c] /\ started'[c] = started[c] + 1
      BY <1>3, StepRuns
    <3> HIDE DEF Moves
    <3>5. CASE started'[c] = started[c]
      BY <3>1, <3>2, <3>3, <3>5
         DEF Moves, Delivery!Call, Delivery!Told, Delivery!CallStep, Delivery!Send, Delivery!Unsent,
             Delivery!Answer, Delivery!Disclaim, Delivery!GiveUp
    <3>6. CASE rec'[c] = rec[c] /\ started'[c] = started[c] + 1
      BY <3>1, <3>2, <3>6 DEF Delivery!Call, Delivery!Told, Delivery!CallStep, Delivery!Execute
    <3> QED BY <3>4, <3>5, <3>6
  <2>2. call' = [c \in Calls |-> [told |-> Told(rec'[c]), runs |-> started'[c]]]
    OBVIOUS
  <2>3. call' \in [Calls -> Delivery!Call]
    BY <2>1, <2>2
  <2>4. \A c \in Calls : Delivery!CallStep(call[c], call'[c])
    BY <2>1
  <2> QED BY <2>3, <2>4 DEF Delivery!Next
<1>4. IInv /\ OutcomesOK => ToldTruly
  BY InvariantTellsTruly
<1> QED BY <1>1, <1>2, <1>3, <1>4, Invariance, PTL DEF Spec, ImplementsDelivery, Delivery!Spec
=============================================================================
