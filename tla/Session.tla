------------------------------ MODULE Session -------------------------------
(***************************************************************************)
(* The life of one TCPSession of rpi/src, from the accept of TCPServer to  *)
(* the `delete this' of one of its handlers.  The thread that calls        *)
(* io.run() runs one handler at a time, so that a handler is a step; the   *)
(* operations it starts are completed by the system at any time, and a     *)
(* handler whose operation is complete waits for its turn.  Nothing keeps  *)
(* the session alive for the handlers that still wait when it is deleted.  *)
(*                                                                         *)
(* A request is a number; an answer or a stream update is the version of   *)
(* the buffer that it is sent from.  A write is put on the wire in two     *)
(* halves, since async_write may take several writes; no property is about *)
(* how answers and updates are mixed, so that each has a wire of its own.  *)
(***************************************************************************)
EXTENDS Integers, Sequences, SequencesExt

CONSTANTS
    MaxRequests,   \* bound: requests that the peer sends
    MaxUpdates     \* bound: updates that are streamed

ASSUME BoundsAssumption == MaxRequests \in Nat /\ MaxUpdates \in Nat

VARIABLES
    life,       \* of the session object
    peer,       \* the other end of the socket: up, or gone
    sent, taken,\* requests that the peer has sent, and that have been read
    read,       \* the outstanding async_read_some
    timer,      \* the outstanding async_wait of timer_
    writes,     \* the outstanding async_writes, oldest first
    streaming,  \* some of flags_ is set
    answers,    \* versions of send_buffer_ so far
    updates,    \* versions of stream_buffer_ so far
    wire,       \* the halves of answers and those of updates that are on the
                \* wire, oldest first: each is the version it was sent from
    hurried,    \* history: the peer has sent a request before it had the last answer
    streamed,   \* history: an update has been streamed
    misuse      \* the handler that has used the session after its deletion

socket == <<peer, sent, taken, hurried>>
object == <<life, streaming, answers, updates, streamed, misuse>>
vars   == <<socket, object, read, timer, writes, wire>>

(* An operation is outstanding until its handler has been called.          *)
Operation == {"pending", "ok", "error"}
Kind      == {"answer", "update"}

Write(k) == [kind |-> k, op |-> "pending", half |-> 0]

Init ==
    /\ life = "waiting" /\ peer = "up" /\ misuse = "no"
    /\ sent = 0 /\ taken = 0 /\ answers = 0 /\ updates = 0
    /\ read = "none" /\ timer = "none"
    /\ writes = <<>> /\ wire = [k \in Kind |-> <<>>]
    /\ streaming = FALSE /\ streamed = FALSE /\ hurried = FALSE

(* What a handler does that uses the session after its deletion is         *)
(* undefined: the model goes no further.                                   *)
Defined == misuse = "no"

-----------------------------------------------------------------------------
(* The peer and the system. *)

Request == /\ life = "open" /\ peer = "up" /\ sent < MaxRequests
           /\ sent' = sent + 1
           /\ hurried' = (hurried \/ Len(wire["answer"]) < 2 * sent)
           /\ UNCHANGED <<peer, taken, object, read, timer, writes, wire>>

Leave == /\ life = "open" /\ peer = "up"
         /\ peer' = "gone"
         /\ UNCHANGED <<sent, taken, hurried, object, read, timer, writes, wire>>

(* A read takes one request or several; only the first is ever answered. *)
Arrive == /\ Defined /\ read = "pending"
          /\ taken' \in taken + 1 .. sent
          /\ read' = "ok"
          /\ UNCHANGED <<peer, sent, hurried, object, timer, writes, wire>>

ReadFails == /\ Defined /\ read = "pending" /\ peer = "gone"
             /\ read' = "error"
             /\ UNCHANGED <<socket, object, timer, writes, wire>>

Expire == /\ Defined /\ timer = "pending"
          /\ timer' = "ok"
          /\ UNCHANGED <<socket, object, read, writes, wire>>

(* The version of the buffer that a write is made from. *)
Version(k) == IF k = "answer" THEN answers ELSE updates

PutHalf(i) ==
    LET w == writes[i] IN
    /\ Defined /\ w.op = "pending"
    /\ wire' = [wire EXCEPT ![w.kind] = Append(@, Version(w.kind))]
    /\ writes' = [writes EXCEPT ![i].half = @ + 1,
                                ![i].op = IF w.half = 1 THEN "ok" ELSE "pending"]
    /\ UNCHANGED <<socket, object, read, timer>>

WriteFails(i) ==
    /\ Defined /\ writes[i].op = "pending" /\ peer = "gone"
    /\ writes' = [writes EXCEPT ![i].op = "error"]
    /\ UNCHANGED <<socket, object, read, timer, wire>>

-----------------------------------------------------------------------------
(* The handlers. *)

(* handleAccept: start() begins to read and to wait for the timer.  When   *)
(* the accept fails the session is deleted, and there is no other.         *)
Accept == /\ life = "waiting"
          /\ life' = "open" /\ read' = "pending" /\ timer' = "pending"
          /\ UNCHANGED <<socket, streaming, answers, updates, streamed, misuse, writes, wire>>

AcceptFails == /\ life = "waiting"
               /\ life' = "deleted"
               /\ UNCHANGED <<socket, streaming, answers, updates, streamed, misuse,
                              read, timer, writes, wire>>

Aborted(op) == IF op = "pending" THEN "error" ELSE op

(* `delete this' in the handler h, whose operation no longer counts among  *)
(* the reads r and writes ws: what is still pending is aborted, what is    *)
(* complete stays complete.                                                *)
Delete(h, r, ws) ==
    IF life = "deleted"
      THEN /\ misuse' = h /\ read' = r /\ writes' = ws
           /\ UNCHANGED <<life, timer>>
      ELSE /\ life' = "deleted"
           /\ read' = Aborted(r)
           /\ timer' = Aborted(timer)
           /\ writes' = [i \in DOMAIN ws |-> [ws[i] EXCEPT !.op = Aborted(@)]]
           /\ UNCHANGED misuse

(* The body of a handler uses the session. *)
Uses(h) == misuse' = IF life = "deleted" THEN h ELSE misuse

(* Fault: the next request is read while this one is being answered. *)
HandleReadEagerly ==
    /\ Defined /\ read = "ok"
    /\ Uses("read")
    /\ read' = "pending"
    /\ answers' = answers + 1
    /\ writes' = Append(writes, Write("answer"))
    /\ streaming' \in BOOLEAN
    /\ UNCHANGED <<socket, life, updates, streamed, timer, wire>>

(* handleRead: the request is parsed, which may start or stop a stream,    *)
(* and the answer, if only an empty line, is sent.                         *)
HandleRead ==
    /\ Defined /\ read = "ok"
    /\ Uses("read")
    /\ read' = "none"
    /\ answers' = answers + 1
    /\ writes' = Append(writes, Write("answer"))
    /\ streaming' \in BOOLEAN
    /\ UNCHANGED <<socket, life, updates, streamed, timer, wire>>

HandleReadError ==
    /\ Defined /\ read = "error"
    /\ Delete("read", "none", writes)
    /\ UNCHANGED <<socket, streaming, answers, updates, streamed, wire>>

(* Fault: the session does not read again after an answer. *)
HandleWriteRests(i) ==
    /\ Defined /\ writes[i].kind = "answer" /\ writes[i].op = "ok"
    /\ Uses("write")
    /\ writes' = RemoveAt(writes, i)
    /\ UNCHANGED <<socket, life, streaming, answers, updates, streamed, read, timer, wire>>

(* handleWrite: the session reads again. *)
HandleWrite(i) ==
    /\ Defined /\ writes[i].kind = "answer" /\ writes[i].op = "ok"
    /\ Uses("write")
    /\ writes' = RemoveAt(writes, i)
    /\ read' = "pending"
    /\ UNCHANGED <<socket, life, streaming, answers, updates, streamed, timer, wire>>

(* Fault: an answer that cannot be sent is only reported. *)
ReportWriteError(i) ==
    /\ Defined /\ writes[i].op = "error"
    /\ writes' = RemoveAt(writes, i)
    /\ UNCHANGED <<socket, object, read, timer, wire>>

(* handleWrite and handleStreamWrite do the same with an error. *)
HandleWriteError(i) ==
    /\ Defined /\ writes[i].op = "error"
    /\ Delete("write", read, RemoveAt(writes, i))
    /\ UNCHANGED <<socket, streaming, answers, updates, streamed, wire>>

(* handleStreamWrite does not touch the session, deleted or not. *)
HandleStreamWrite(i) ==
    /\ Defined /\ writes[i].kind = "update" /\ writes[i].op = "ok"
    /\ writes' = RemoveAt(writes, i)
    /\ UNCHANGED <<socket, object, read, timer, wire>>

(* Fault: an update is sent from the buffer of the answers. *)
HandleTimerSharesBuffer ==
    /\ Defined /\ timer = "ok"
    /\ Uses("timer")
    /\ timer' = "pending"
    /\ \/ /\ streaming /\ updates < MaxUpdates
          /\ updates' = updates + 1 /\ answers' = answers + 1
          /\ writes' = Append(writes, Write("update"))
          /\ streamed' = TRUE
       \/ UNCHANGED <<answers, updates, writes, streamed>>
    /\ UNCHANGED <<socket, life, streaming, read, wire>>

(* handleTimer: whatever streamUpdate returns is sent, whether or not the  *)
(* writes before it are done, and the timer is started again.              *)
HandleTimer ==
    /\ Defined /\ timer = "ok"
    /\ Uses("timer")
    /\ timer' = "pending"
    /\ \/ /\ streaming /\ updates < MaxUpdates
          /\ updates' = updates + 1
          /\ writes' = Append(writes, Write("update"))
          /\ streamed' = TRUE
       \/ UNCHANGED <<updates, writes, streamed>>
    /\ UNCHANGED <<socket, life, streaming, answers, read, wire>>

(* With an error it does nothing. *)
HandleTimerError ==
    /\ Defined /\ timer = "error"
    /\ timer' = "none"
    /\ UNCHANGED <<socket, object, read, writes, wire>>

-----------------------------------------------------------------------------
Reads  == Arrive \/ ReadFails
Sends  == \E i \in DOMAIN writes : PutHalf(i) \/ WriteFails(i)
OnRead == HandleRead \/ HandleReadError
OnSent == \E i \in DOMAIN writes :
              HandleWrite(i) \/ HandleWriteError(i) \/ HandleStreamWrite(i)

Next ==
    \/ Request \/ Leave \/ Expire
    \/ Accept \/ AcceptFails
    \/ Reads \/ Sends \/ OnRead \/ OnSent
    \/ HandleTimer \/ HandleTimerError

Spec == Init /\ [][Next]_vars

(* The system completes what can be completed, and io.run() calls every    *)
(* handler that is ready; the peer and the timer owe nothing.              *)
FairSpec == Spec /\ WF_vars(Reads) /\ WF_vars(Sends) /\ WF_vars(OnRead) /\ WF_vars(OnSent)

-----------------------------------------------------------------------------
(* Properties. *)

TypeOK ==
    /\ life \in {"waiting", "open", "deleted"}
    /\ peer \in {"up", "gone"}
    /\ sent \in 0 .. MaxRequests /\ taken \in 0 .. sent
    /\ read \in Operation \cup {"none"} /\ timer \in Operation \cup {"none"}
    /\ writes \in Seq([kind : Kind, op : Operation, half : 0 .. 2])
    /\ streaming \in BOOLEAN /\ streamed \in BOOLEAN /\ hurried \in BOOLEAN
    /\ answers \in 0 .. taken /\ updates \in 0 .. MaxUpdates
    /\ wire \in [Kind -> Seq(Nat)]
    /\ misuse \in {"no", "read", "write", "timer"}

(* Every answer goes out once, whole and in the order of the requests, with *)
(* or without a stream: send_buffer_ is not written again before the answer *)
(* in it has been sent (handleRead, handleWrite).                           *)
AnswersInOrder ==
    \A i \in DOMAIN wire["answer"] : wire["answer"][i] = (i + 1) \div 2

(* As long as nothing has been streamed no handler deletes the session     *)
(* twice or uses it once deleted, but for that of a timer that had expired *)
(* already: reads and answers take turns, and cancelling is in time for    *)
(* every other operation (handleRead, handleWrite, ~TCPSession).           *)
OneOwner == misuse \in {"read", "write"} => streamed

(* A peer that waits for each answer before its next request has them all  *)
(* answered, whatever is streamed to it meanwhile; the requests of one that *)
(* does not may come in one read, which answers the first (handleRead).    *)
Answered ==
    \A k \in 1 .. MaxRequests :
        sent = k ~> (answers >= k \/ hurried \/ peer = "gone" \/ ~ Defined)

(* A session whose peer has gone is deleted, in whatever order the handlers *)
(* of its reads and writes are called (handleRead, handleWrite).            *)
Released == (peer = "gone") ~> (life = "deleted" \/ ~ Defined)
=============================================================================
