------------------------------- MODULE Client -------------------------------
(***************************************************************************)
(* The console client, rpi/src/client.cpp: actors that connect, read, send *)
(* a heartbeat, send what is typed and watch a deadline, all run by one    *)
(* io_service.  A handler is a step.  An operation of an actor is pending  *)
(* until the system completes it; its handler then waits for its turn,     *)
(* while the handlers of the others may close the socket under it.         *)
(*                                                                         *)
(* The text of the lines is left out, and of time there is only whether    *)
(* the deadline has passed.                                                *)
(***************************************************************************)
EXTENDS Integers, Sequences, SequencesExt

CONSTANTS
    Endpoints,    \* number of endpoints that the host resolves to
    MaxReceived,  \* bound: lines that the server sends
    MaxTyped      \* bound: lines that are typed

ASSUME EndpointsAssumption == Endpoints \in Nat /\ Endpoints > 0
ASSUME BoundsAssumption    == MaxReceived \in Nat /\ MaxTyped \in Nat

VARIABLES
    stopped,     \* stopped_
    socket,      \* socket_: closed, open, or connected
    endpoint,    \* the endpoint that is being tried, or was last
    deadline,    \* deadline_: set, passed, or at infinity
    ops,         \* the operation of each actor
    sends,       \* the outstanding writes of send_buffer_, oldest first
    received,    \* lines that the server has sent
    typed,       \* lines that have been typed
    established  \* history: handle_connect has taken up a connection

vars == <<stopped, socket, endpoint, deadline, ops, sends, received, typed, established>>

(* The heartbeat is an actor when it writes, "beat", and when it waits,    *)
(* "timer"; "watch" waits for the deadline.                                *)
OnSocket  == {"connect", "read", "beat"}
Actor     == OnSocket \cup {"timer", "watch", "console"}
Operation == {"none", "pending", "ok", "error"}

Aborted(op)    == IF op = "pending" THEN "error" ELSE op
Abort(o, some) == [a \in Actor |-> IF a \in some THEN Aborted(o[a]) ELSE o[a]]

(* An operation on a socket that is closed fails at once. *)
OnSocketNow(s) == IF s = "closed" THEN "error" ELSE "pending"

AbortSends(ws) == [i \in DOMAIN ws |-> Aborted(ws[i])]

Init ==
    /\ stopped = FALSE /\ established = FALSE
    /\ socket = "open" /\ endpoint = 1 /\ deadline = "set"
    /\ ops = [a \in Actor |->
                IF a \in {"connect", "watch", "console"} THEN "pending" ELSE "none"]
    /\ sends = <<>>
    /\ received = 0 /\ typed = 0

-----------------------------------------------------------------------------
(* What the system completes. *)

Complete(a, result) ==
    /\ ops[a] = "pending"
    /\ ops' = [ops EXCEPT ![a] = result]

Connected ==
    /\ Complete("connect", "ok")
    /\ socket' = "connected"
    /\ UNCHANGED <<stopped, endpoint, deadline, sends, received, typed, established>>

Refused ==
    /\ Complete("connect", "error")
    /\ UNCHANGED <<stopped, socket, endpoint, deadline, sends, received, typed, established>>

(* A line of the server, or the end of the connection. *)
Line ==
    /\ Complete("read", "ok") /\ received < MaxReceived
    /\ received' = received + 1
    /\ UNCHANGED <<stopped, socket, endpoint, deadline, sends, typed, established>>

Broken ==
    /\ \E a \in {"read", "beat"} : Complete(a, "error")
    /\ UNCHANGED <<stopped, socket, endpoint, deadline, sends, received, typed, established>>

(* The heartbeat is sent, or its time has come. *)
Beat ==
    /\ \E a \in {"beat", "timer"} : Complete(a, "ok")
    /\ UNCHANGED <<stopped, socket, endpoint, deadline, sends, received, typed, established>>

Type ==
    /\ typed < MaxTyped
    /\ Complete("console", "ok")
    /\ typed' = typed + 1
    /\ UNCHANGED <<stopped, socket, endpoint, deadline, sends, received, established>>

EndOfInput ==
    /\ Complete("console", "error")
    /\ UNCHANGED <<stopped, socket, endpoint, deadline, sends, received, typed, established>>

(* A write needs a connection to succeed, and may fail with or without.    *)
Send(i) ==
    /\ sends[i] = "pending"
    /\ \E r \in {"ok", "error"} :
         /\ r = "ok" => socket = "connected"
         /\ sends' = [sends EXCEPT ![i] = r]
    /\ UNCHANGED <<stopped, socket, endpoint, deadline, ops, received, typed, established>>

DeadlinePasses ==
    /\ deadline = "set"
    /\ deadline' = "passed"
    /\ ops' = [ops EXCEPT !["watch"] = IF @ = "pending" THEN "ok" ELSE @]
    /\ UNCHANGED <<stopped, socket, endpoint, sends, received, typed, established>>

-----------------------------------------------------------------------------
(* Steps that several handlers share.  o is what remains of the operations *)
(* when the handler comes to it.                                           *)

(* Fault: the socket stays open. *)
StopTimers(o, ws) ==
    /\ stopped' = TRUE
    /\ ops' = Abort(o, {"timer", "watch"})
    /\ sends' = ws
    /\ UNCHANGED <<socket, endpoint, deadline>>

(* stop() leaves the console alone. *)
Stop(o, ws) ==
    /\ stopped' = TRUE
    /\ socket' = "closed"
    /\ ops' = Abort(o, OnSocket \cup {"timer", "watch"})
    /\ sends' = AbortSends(ws)
    /\ UNCHANGED <<endpoint, deadline>>

(* start_connect, of the endpoint after this one; close() comes first if   *)
(* the socket is open.  Moving the deadline aborts the wait for it.        *)
TryNext(o) ==
    /\ endpoint' = endpoint + 1
    /\ sends' = AbortSends(sends)
    /\ IF endpoint < Endpoints
         THEN /\ socket' = "open" /\ deadline' = "set"
              /\ ops' = [Abort(o, OnSocket \cup {"watch"}) EXCEPT !["connect"] = "pending"]
              /\ UNCHANGED stopped
         ELSE /\ stopped' = TRUE /\ socket' = "closed"
              /\ ops' = Abort(o, OnSocket \cup {"timer", "watch"})
              /\ UNCHANGED deadline

(* Fault: the deadline is not moved. *)
StartReadOnly(o) ==
    /\ deadline' = "never"
    /\ ops' = [o EXCEPT !["read"] = OnSocketNow(socket)]

StartRead(o) ==
    /\ deadline' = "set"
    /\ ops' = [Abort(o, {"watch"}) EXCEPT !["read"] = OnSocketNow(socket)]

Done(a) == [ops EXCEPT ![a] = "none"]

Ready(a) == ops[a] \in {"ok", "error"}

(* A handler that finds the client stopped returns. *)
Return(a) ==
    /\ stopped
    /\ ops' = Done(a)
    /\ UNCHANGED <<stopped, socket, endpoint, deadline, sends>>

-----------------------------------------------------------------------------
(* The handlers. *)

(* Fault: the socket is taken to be open. *)
HandleConnectUnchecked ==
    /\ Ready("connect")
    /\ \/ Return("connect") /\ UNCHANGED established
       \/ ~stopped /\ ops["connect"] = "error" /\ TryNext(Done("connect")) /\ UNCHANGED established
       \/ /\ ~stopped /\ ops["connect"] = "ok"
          /\ StartRead([Done("connect") EXCEPT !["beat"] = OnSocketNow(socket)])
          /\ established' = (socket = "connected")
          /\ UNCHANGED <<stopped, socket, endpoint, sends>>
    /\ UNCHANGED <<received, typed>>

(* A socket that is closed by now timed out, whatever the result says. *)
HandleConnect ==
    /\ Ready("connect")
    /\ \/ Return("connect") /\ UNCHANGED established
       \/ /\ ~stopped
          /\ socket = "closed" \/ ops["connect"] = "error"
          /\ TryNext(Done("connect"))
          /\ UNCHANGED established
       \/ /\ ~stopped /\ socket # "closed" /\ ops["connect"] = "ok"
          /\ StartRead([Done("connect") EXCEPT !["beat"] = OnSocketNow(socket)])
          /\ established' = (socket = "connected")
          /\ UNCHANGED <<stopped, socket, endpoint, sends>>
    /\ UNCHANGED <<received, typed>>

HandleRead ==
    /\ Ready("read")
    /\ \/ Return("read")
       \/ /\ ~stopped /\ ops["read"] = "ok"
          /\ StartRead(Done("read"))
          /\ UNCHANGED <<stopped, socket, endpoint, sends>>
       \/ ~stopped /\ ops["read"] = "error" /\ Stop(Done("read"), sends)
    /\ UNCHANGED <<received, typed, established>>

(* start_write, when the timer has expired or was cancelled. *)
StartWrite ==
    /\ Ready("timer")
    /\ \/ Return("timer")
       \/ /\ ~stopped
          /\ ops' = [Done("timer") EXCEPT !["beat"] = OnSocketNow(socket)]
          /\ UNCHANGED <<stopped, socket, endpoint, deadline, sends>>
    /\ UNCHANGED <<received, typed, established>>

HandleWrite ==
    /\ Ready("beat")
    /\ \/ Return("beat")
       \/ /\ ~stopped /\ ops["beat"] = "ok"
          /\ ops' = [Done("beat") EXCEPT !["timer"] = "pending"]
          /\ UNCHANGED <<stopped, socket, endpoint, deadline, sends>>
       \/ ~stopped /\ ops["beat"] = "error" /\ Stop(Done("beat"), sends)
    /\ UNCHANGED <<received, typed, established>>

(* The result of the wait is not looked at: a deadline that was moved has  *)
(* not passed.  The new wait is over at once if the deadline has passed.   *)
CheckDeadline ==
    /\ Ready("watch")
    /\ \/ Return("watch")
       \/ /\ ~stopped /\ deadline = "passed"
          /\ socket' = "closed" /\ deadline' = "never"
          /\ ops' = [Abort(ops, OnSocket) EXCEPT !["watch"] = "pending"]
          /\ sends' = AbortSends(sends)
          /\ UNCHANGED <<stopped, endpoint>>
       \/ /\ ~stopped /\ deadline # "passed"
          /\ ops' = [ops EXCEPT !["watch"] = "pending"]
          /\ UNCHANGED <<stopped, socket, endpoint, deadline, sends>>
    /\ UNCHANGED <<received, typed, established>>

(* A line is sent at once, connected or not; an empty one is not sent. *)
HandleReadConsole ==
    /\ Ready("console")
    /\ \/ Return("console")
       \/ /\ ~stopped /\ ops["console"] = "ok"
          /\ ops' = [ops EXCEPT !["console"] = "pending"]
          /\ sends' \in {sends, Append(sends, OnSocketNow(socket))}
          /\ UNCHANGED <<stopped, socket, endpoint, deadline>>
       \/ ~stopped /\ ops["console"] = "error" /\ Stop(Done("console"), sends)
    /\ UNCHANGED <<received, typed, established>>

HandleSend(i) ==
    /\ sends[i] \in {"ok", "error"}
    /\ IF stopped \/ sends[i] = "ok"
         THEN /\ sends' = RemoveAt(sends, i)
              /\ UNCHANGED <<stopped, socket, endpoint, deadline, ops>>
         ELSE Stop(ops, RemoveAt(sends, i))
    /\ UNCHANGED <<received, typed, established>>

-----------------------------------------------------------------------------
System == \/ Connected \/ Refused \/ Line \/ Broken \/ Beat \/ Type \/ EndOfInput
          \/ DeadlinePasses \/ \E i \in DOMAIN sends : Send(i)

Handlers == \/ HandleConnect \/ HandleRead \/ StartWrite \/ HandleWrite
            \/ CheckDeadline \/ HandleReadConsole \/ \E i \in DOMAIN sends : HandleSend(i)

Next == System \/ Handlers

Spec == Init /\ [][Next]_vars

(* io_service::run() takes the handlers that are ready in turn, and time   *)
(* passes.  The network, the server and the user owe nothing.              *)
FairSpec ==
    /\ Spec
    /\ WF_vars(HandleConnect) /\ WF_vars(HandleRead) /\ WF_vars(StartWrite)
    /\ WF_vars(HandleWrite) /\ WF_vars(CheckDeadline) /\ WF_vars(HandleReadConsole)
    /\ WF_vars(\E i \in DOMAIN sends : HandleSend(i))
    /\ WF_vars(DeadlinePasses)

-----------------------------------------------------------------------------
(* Properties. *)

(* Types: the actors of a connection, those that read and send heartbeats, *)
(* never work beside the one that connects.                                *)
TypeOK ==
    /\ stopped \in BOOLEAN /\ established \in BOOLEAN
    /\ socket \in {"closed", "open", "connected"}
    /\ endpoint \in 1 .. Endpoints + 1
    /\ deadline \in {"set", "passed", "never"}
    /\ ops \in [Actor -> Operation]
    /\ ops["connect"] # "none" =>
         \A a \in {"read", "beat", "timer"} : ops[a] = "none"
    /\ sends \in Seq(Operation \ {"none"})
    /\ received \in 0 .. MaxReceived /\ typed \in 0 .. MaxTyped

(* As long as nothing is typed, a client that stops without ever having    *)
(* had a connection has tried every endpoint: no race of a connection with *)
(* its deadline skips one (handle_connect, check_deadline).                *)
TriesAll ==
    stopped /\ ~established /\ typed = 0 /\ ops["console"] = "pending"
      => endpoint > Endpoints

(* Once stopped, no actor starts an operation again, whichever handlers    *)
(* were still waiting for their turn (the tests of stopped_).              *)
StoppedStartsNothing ==
    [][stopped => \A a \in Actor :
           ops'[a] # ops[a] => ops[a] = "pending" \/ ops'[a] = "none"]_vars

(* A client whose server says no more gives up in the end, whatever it     *)
(* sends itself: no order of the handlers loses the deadline (start_read,  *)
(* check_deadline).                                                        *)
GivesUp == <>stopped

(* A client that has stopped winds down: nothing is left but the wait for  *)
(* a line of the console, which stop() does not cancel.                    *)
WindsDown ==
    stopped ~> sends = <<>> /\ \A a \in Actor \ {"console"} : ops[a] = "none"
=============================================================================
