--------------------------- MODULE RelaySequence ---------------------------
(* The two halves of the sequenced message streams the HTTPS fallback runs   *)
(* over its polls, one stream in each direction: RelayOutboundSequence and   *)
(* RelayInboundSequence on the daemon (daemon-http-relay-sequence.mjs) and   *)
(* their twins in DaemonHttpChannel (worker/daemon-http-channel.ts).         *)
(*                                                                           *)
(* A sender numbers its messages from 1 and keeps what is not acknowledged:  *)
(* msgs[i] has sequence number acked + i.  What a request or a response      *)
(* carries is such a record too, all that was unacknowledged when it was     *)
(* built (the byte limits of one envelope are not modelled).                 *)
EXTENDS Naturals, Sequences

NothingSent == [acked |-> 0, msgs |-> <<>>]

(* The number of the last message enqueued: next - 1, nextWorkerSeq - 1. *)
LastSeq(out) == out.acked + Len(out.msgs)

Enqueued(out, messages) == [out EXCEPT !.msgs = @ \o messages]

(* acknowledge and acknowledgeWorker return false for a number never used. *)
AckValid(out, n) == n <= LastSeq(out)

(* Dropping one message more than was acknowledged. *)
Fault_DropsOneMore(out, n) ==
    LET last == IF n < LastSeq(out) THEN n + 1 ELSE n
    IN  IF n <= out.acked THEN out
        ELSE [acked |-> last, msgs |-> SubSeq(out.msgs, last - out.acked + 1, Len(out.msgs))]

Acknowledged(out, n) ==
    IF n <= out.acked THEN out
    ELSE [acked |-> n, msgs |-> SubSeq(out.msgs, n - out.acked + 1, Len(out.msgs))]

(* The message of a batch with sequence number n. *)
MessageAt(batch, n) == batch.msgs[n - batch.acked]

(* classify and acceptDaemonSequence *)
Classify(seen, n) ==
    IF n <= seen THEN "duplicate" ELSE IF n = seen + 1 THEN "new" ELSE "gap"
=============================================================================
