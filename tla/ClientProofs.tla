---------------------------- MODULE ClientProofs ----------------------------
(***************************************************************************)
(* For any number of endpoints and of lines: the types of the client, that *)
(* it tries every endpoint before it stops for want of a connection, and   *)
(* that it starts nothing once it has stopped.                             *)
(***************************************************************************)
EXTENDS Client, SequenceTheorems, TLAPS

USE EndpointsAssumption, BoundsAssumption

(* A connection that is being tried is one of the endpoints'; once it is   *)
(* made the socket is connected, unless the deadline has closed it.        *)
ConnectInv ==
    /\ ops["connect"] # "none" => endpoint <= Endpoints
    /\ ops["connect"] = "ok" => socket # "open"
    /\ ops["console"] = "ok" => typed > 0

(* Until it has had a connection the client does nothing but connect, as   *)
(* long as nothing is typed, and stops at the last endpoint only.          *)
TriesInv ==
    ~established /\ typed = 0 /\ ops["console"] = "pending" =>
        /\ sends = <<>>
        /\ \A a \in {"read", "beat", "timer"} : ops[a] = "none"
        /\ stopped => endpoint > Endpoints

IInv == TypeOK /\ ConnectInv /\ TriesInv

Socket   == {"closed", "open", "connected"}
Deadline == {"set", "passed", "never"}
Beating  == {"read", "beat", "timer"}

(* What a handler has found if the client is more than connecting. *)
Busy ==
    \/ sends # <<>>
    \/ \E a \in Beating : ops[a] # "none"
    \/ ops'["console"] = "none"

(* Most steps only let things wind down: they complete an operation, call  *)
(* a handler that starts nothing new, or stop a client that was connected. *)
Settles ==
    /\ UNCHANGED <<established, endpoint, typed>>
    /\ received' \in 0 .. MaxReceived
    /\ socket' \in Socket /\ (socket' = "open" => socket = "open")
    /\ deadline' \in Deadline
    /\ ops' \in [Actor -> Operation]
    /\ \A a \in Actor : ops[a] = "none" => ops'[a] = "none"
    /\ ops'["connect"] = "ok" => ops["connect"] = "ok"
    /\ ops'["console"] \in {"ok", "pending"} => ops'["console"] = ops["console"]
    /\ sends' \in Seq(Operation \ {"none"}) /\ (sends = <<>> => sends' = <<>>)
    /\ stopped' \in BOOLEAN /\ (stopped' => stopped \/ Busy)
-----------------------------------------------------------------------------
(* Removing an element of a sequence leaves elements of it. *)
LEMMA Removes ==
  ASSUME NEW S, NEW s \in Seq(S), NEW i \in DOMAIN s
  PROVE  /\ RemoveAt(s, i) \in Seq(S) /\ Len(RemoveAt(s, i)) = Len(s) - 1
         /\ \A j \in DOMAIN RemoveAt(s, i) : \E k \in DOMAIN s : RemoveAt(s, i)[j] = s[k]
  <1>1. i \in 1 .. Len(s) /\ Len(s) \in Nat /\ DOMAIN s = 1 .. Len(s)
    OBVIOUS
  <1>2. /\ SubSeq(s, 1, i - 1) \in Seq(S) /\ Len(SubSeq(s, 1, i - 1)) = i - 1
        /\ \A j \in 1 .. i - 1 : SubSeq(s, 1, i - 1)[j] = s[j]
    <2>1. 1 \in Int /\ i - 1 \in Int /\ \A j \in 1 .. i - 1 : s[j] \in S
      BY <1>1
    <2>2. /\ SubSeq(s, 1, i - 1) \in Seq(S)
          /\ Len(SubSeq(s, 1, i - 1)) = IF 1 <= i - 1 THEN i - 1 - 1 + 1 ELSE 0
          /\ \A j \in 1 .. i - 1 - 1 + 1 : SubSeq(s, 1, i - 1)[j] = s[1 + j - 1]
      BY <2>1, SubSeqProperties
    <2>3. /\ i - 1 - 1 + 1 = i - 1 /\ \A j \in 1 .. i - 1 : 1 + j - 1 = j
          /\ (IF 1 <= i - 1 THEN i - 1 - 1 + 1 ELSE 0) = i - 1
      BY <1>1
    <2> QED
      BY <2>2, <2>3
  <1>3. /\ SubSeq(s, i + 1, Len(s)) \in Seq(S) /\ Len(SubSeq(s, i + 1, Len(s))) = Len(s) - i
        /\ \A j \in 1 .. Len(s) - i : SubSeq(s, i + 1, Len(s))[j] = s[i + j]
    <2>1. i + 1 \in Int /\ Len(s) \in Int /\ \A j \in i + 1 .. Len(s) : s[j] \in S
      BY <1>1
    <2>2. /\ SubSeq(s, i + 1, Len(s)) \in Seq(S)
          /\ Len(SubSeq(s, i + 1, Len(s))) = IF i + 1 <= Len(s) THEN Len(s) - (i + 1) + 1 ELSE 0
          /\ \A j \in 1 .. Len(s) - (i + 1) + 1 : SubSeq(s, i + 1, Len(s))[j] = s[i + 1 + j - 1]
      BY <2>1, SubSeqProperties
    <2>3. /\ Len(s) - (i + 1) + 1 = Len(s) - i
          /\ \A j \in 1 .. Len(s) - i : i + 1 + j - 1 = i + j
          /\ (IF i + 1 <= Len(s) THEN Len(s) - (i + 1) + 1 ELSE 0) = Len(s) - i
      BY <1>1
    <2> QED
      BY <2>2, <2>3
  <1> DEFINE a == SubSeq(s, 1, i - 1)
             b == SubSeq(s, i + 1, Len(s))
  <1>4. RemoveAt(s, i) = a \o b
    BY DEF RemoveAt
  <1> HIDE DEF a, b
  <1>5. a \in Seq(S) /\ b \in Seq(S) /\ Len(a) = i - 1 /\ Len(b) = Len(s) - i
    BY <1>2, <1>3 DEF a, b
  <1>6. a \o b \in Seq(S) /\ Len(a \o b) = Len(s) - 1
    <2>1. a \o b \in Seq(S) /\ Len(a \o b) = Len(a) + Len(b)
      BY <1>5, ConcatProperties, Zenon
    <2>2. (i - 1) + (Len(s) - i) = Len(s) - 1
      BY <1>1
    <2> QED
      BY <1>5, <2>1, <2>2
  <1>7. ASSUME NEW j \in DOMAIN (a \o b) PROVE \E k \in DOMAIN s : (a \o b)[j] = s[k]
    <2>1. j \in 1 .. Len(s) - 1 /\ j \in 1 .. Len(a) + Len(b)
      BY <1>1, <1>5, <1>6
    <2>2. (a \o b)[j] = IF j <= Len(a) THEN a[j] ELSE b[j - Len(a)]
      BY <1>5, <2>1, ConcatProperties
    <2>3. CASE j < i
      <3>1. j \in 1 .. i - 1 /\ j \in 1 .. Len(s) /\ j <= i - 1
        BY <1>1, <2>1, <2>3
      <3>2. a[j] = s[j]
        BY <1>2, <3>1 DEF a
      <3>3. (a \o b)[j] = s[j]
        BY <1>5, <2>2, <3>1, <3>2
      <3> QED
        BY <1>1, <3>1, <3>3
    <2>4. CASE j >= i
      <3>1. /\ j - (i - 1) \in 1 .. Len(s) - i /\ ~ (j <= i - 1)
            /\ i + (j - (i - 1)) \in 1 .. Len(s)
        BY <1>1, <2>1, <2>4
      <3>2. b[j - (i - 1)] = s[i + (j - (i - 1))]
        BY <1>3, <3>1 DEF b
      <3>3. (a \o b)[j] = s[i + (j - (i - 1))]
        BY <1>5, <2>2, <3>1, <3>2
      <3> QED
        BY <1>1, <3>1, <3>3
    <2> QED
      BY <1>1, <2>1, <2>3, <2>4
  <1> QED
    BY <1>4, <1>6, <1>7

LEMMA SettlesKeeps ==
  ASSUME IInv, Settles
  PROVE  IInv'
  <1>1. TypeOK'
    BY DEF IInv, TypeOK, Settles, Socket, Deadline, Actor, OnSocket
  <1>2. ConnectInv'
    BY DEF IInv, TypeOK, ConnectInv, Settles, Actor, OnSocket
  <1>3. TriesInv'
    <2> SUFFICES ASSUME ~established', typed' = 0, ops'["console"] = "pending"
                 PROVE  /\ sends' = <<>>
                        /\ \A a \in {"read", "beat", "timer"} : ops'[a] = "none"
                        /\ stopped' => endpoint' > Endpoints
      BY DEF TriesInv
    <2>1. ~established /\ typed = 0 /\ ops["console"] = "pending"
      BY DEF Settles
    <2>2. /\ sends = <<>> /\ \A a \in {"read", "beat", "timer"} : ops[a] = "none"
          /\ stopped => endpoint > Endpoints
      BY <2>1 DEF IInv, TriesInv
    <2>3. ~Busy
      BY <2>2 DEF Busy, Beating
    <2> QED
      BY <2>2, <2>3 DEF Settles, Actor, OnSocket
  <1> QED
    BY <1>1, <1>2, <1>3 DEF IInv

LEMMA Changed ==
  ASSUME NEW o \in [Actor -> Operation], NEW b \in Actor, NEW v \in Operation
  PROVE  /\ [o EXCEPT ![b] = v] \in [Actor -> Operation]
         /\ [o EXCEPT ![b] = v][b] = v
         /\ \A a \in Actor \ {b} : [o EXCEPT ![b] = v][a] = o[a]
  OBVIOUS

(* What remains of operations that are aborted. *)
LEMMA Aborts ==
  ASSUME NEW o \in [Actor -> Operation], NEW some
  PROVE  /\ Abort(o, some) \in [Actor -> Operation]
         /\ \A a \in Actor : /\ Abort(o, some)[a] = "none" <=> o[a] = "none"
                             /\ Abort(o, some)[a] = "ok" <=> o[a] = "ok"
                             /\ Abort(o, some)[a] \in {o[a], "error"}
                             /\ a \notin some => Abort(o, some)[a] = o[a]
  <1>1. \A a \in Actor : Abort(o, some)[a] = IF a \in some THEN Aborted(o[a]) ELSE o[a]
    BY DEF Abort
  <1>2. \A a \in Actor : Aborted(o[a]) \in Operation /\ o[a] \in Operation
    BY DEF Aborted, Operation
  <1>3. Abort(o, some) \in [Actor -> Operation]
    BY <1>2 DEF Abort
  <1> QED
    BY <1>1, <1>3 DEF Aborted

LEMMA AbortsSends ==
  ASSUME NEW ws \in Seq(Operation \ {"none"})
  PROVE  /\ AbortSends(ws) \in Seq(Operation \ {"none"})
         /\ Len(AbortSends(ws)) = Len(ws)
         /\ ws = <<>> => AbortSends(ws) = <<>>
  <1>1. DOMAIN ws = 1 .. Len(ws) /\ Len(ws) \in Nat
    OBVIOUS
  <1>2. \A i \in 1 .. Len(ws) : Aborted(ws[i]) \in Operation \ {"none"}
    BY DEF Aborted, Operation
  <1>3. AbortSends(ws) \in [1 .. Len(ws) -> Operation \ {"none"}]
    BY <1>1, <1>2 DEF AbortSends
  <1>4. /\ AbortSends(ws) \in Seq(Operation \ {"none"})
        /\ Len(AbortSends(ws)) = Len(ws)
    BY <1>1, <1>3
  <1> QED
    BY <1>4

LEMMA Facts ==
  ASSUME IInv
  PROVE  /\ ops \in [Actor -> Operation]
         /\ sends \in Seq(Operation \ {"none"})
         /\ socket \in Socket /\ deadline \in Deadline
         /\ stopped \in BOOLEAN /\ established \in BOOLEAN
         /\ endpoint \in Nat /\ typed \in Nat /\ received \in 0 .. MaxReceived
  BY DEF IInv, TypeOK, Socket, Deadline

LEMMA InitIInv ==
  ASSUME Init
  PROVE  IInv
  <1>1. \A a \in Actor : (IF a \in {"connect", "watch", "console"} THEN "pending" ELSE "none") \in Operation
    BY DEF Operation
  <1>2. /\ ops \in [Actor -> Operation] /\ ops["console"] = "pending"
        /\ ops["connect"] = "pending"
        /\ \A a \in {"read", "beat", "timer"} : ops[a] = "none"
    BY <1>1 DEF Init, Actor, OnSocket
  <1>3. endpoint \in 1 .. Endpoints + 1 /\ received \in 0 .. MaxReceived /\ typed \in 0 .. MaxTyped
    BY DEF Init
  <1>4. sends \in Seq(Operation \ {"none"})
    BY DEF Init
  <1>5. TypeOK
    BY <1>2, <1>3, <1>4 DEF Init, TypeOK
  <1> QED
    BY <1>2, <1>5 DEF Init, IInv, ConnectInv, TriesInv
-----------------------------------------------------------------------------
(* What the system completes. *)

(* An operation completes; the others are as they were. *)
LEMMA Completes ==
  ASSUME IInv, NEW a \in Actor, NEW r \in {"ok", "error"}, Complete(a, r)
  PROVE  /\ ops[a] = "pending"
         /\ ops' \in [Actor -> Operation] /\ ops'[a] = r
         /\ \A b \in Actor \ {a} : ops'[b] = ops[b]
  <1>1. ops \in [Actor -> Operation] /\ r \in Operation
    BY Facts DEF Operation
  <1>2. ops' = [ops EXCEPT ![a] = r] /\ ops[a] = "pending"
    BY DEF Complete
  <1> QED
    BY <1>1, <1>2, Changed, Zenon

(* Types, and the two others, when an operation completes that neither     *)
(* makes a connection nor types a line.                                    *)
LEMMA CompletesSettles ==
  ASSUME IInv, NEW a \in Actor, NEW r \in {"ok", "error"}, Complete(a, r),
         a = "connect" \/ a = "console" => r = "error",
         received' \in 0 .. MaxReceived,
         UNCHANGED <<stopped, socket, endpoint, deadline, sends, typed, established>>
  PROVE  IInv'
  <1>1. /\ ops[a] = "pending"
        /\ ops' \in [Actor -> Operation] /\ ops'[a] = r
        /\ \A b \in Actor \ {a} : ops'[b] = ops[b]
    BY Completes
  <1>2. "connect" \in Actor /\ "console" \in Actor
    BY DEF Actor, OnSocket
  <1>3. Settles
    BY <1>1, <1>2, Facts DEF Settles
  <1> QED
    BY <1>3, SettlesKeeps

LEMMA SystemStep ==
  ASSUME IInv, System
  PROVE  IInv'
  <1>0. /\ "connect" \in Actor /\ "read" \in Actor /\ "beat" \in Actor /\ "timer" \in Actor
        /\ "watch" \in Actor /\ "console" \in Actor
    BY DEF Actor, OnSocket
  <1>1. CASE Connected
    <2>1. Complete("connect", "ok") /\ socket' = "connected"
      BY <1>1 DEF Connected
    <2>2. /\ ops["connect"] = "pending"
          /\ ops' \in [Actor -> Operation] /\ ops'["connect"] = "ok"
          /\ \A b \in Actor \ {"connect"} : ops'[b] = ops[b]
      BY <1>0, <2>1, Completes
    <2>3. /\ ops'["read"] = ops["read"] /\ ops'["beat"] = ops["beat"] /\ ops'["timer"] = ops["timer"]
          /\ ops'["console"] = ops["console"]
      BY <1>0, <2>2
    <2>4. TypeOK'
      BY <1>1, <2>1, <2>2, <2>3 DEF Connected, IInv, TypeOK
    <2>5. ConnectInv'
      BY <1>1, <2>1, <2>2, <2>3 DEF Connected, IInv, ConnectInv
    <2>6. TriesInv'
      BY <1>1, <2>3 DEF Connected, IInv, TriesInv
    <2> QED
      BY <2>4, <2>5, <2>6 DEF IInv
  <1>2. CASE Refused
    BY <1>0, <1>2, CompletesSettles, Facts DEF Refused
  <1>3. CASE Line
    <2>1. received' \in 0 .. MaxReceived
      BY <1>3, Facts DEF Line
    <2> QED
      BY <1>0, <1>3, <2>1, CompletesSettles DEF Line
  <1>4. CASE Broken
    BY <1>0, <1>4, CompletesSettles, Facts DEF Broken
  <1>5. CASE Beat
    BY <1>0, <1>5, CompletesSettles, Facts DEF Beat
  <1>6. CASE Type
    <2>1. Complete("console", "ok") /\ typed' = typed + 1 /\ typed < MaxTyped
      BY <1>6 DEF Type
    <2>2. /\ ops' \in [Actor -> Operation] /\ ops'["console"] = "ok"
          /\ \A b \in Actor \ {"console"} : ops'[b] = ops[b]
      BY <1>0, <2>1, Completes
    <2>3. /\ ops'["read"] = ops["read"] /\ ops'["beat"] = ops["beat"] /\ ops'["timer"] = ops["timer"]
          /\ ops'["connect"] = ops["connect"]
      BY <1>0, <2>2
    <2>4. typed' \in 0 .. MaxTyped /\ typed' > 0
      BY <2>1, Facts
    <2>5. TypeOK'
      BY <1>6, <2>2, <2>3, <2>4 DEF Type, IInv, TypeOK
    <2>6. ConnectInv'
      BY <1>6, <2>2, <2>3, <2>4 DEF Type, IInv, ConnectInv
    <2>7. TriesInv'
      BY <2>2 DEF TriesInv
    <2> QED
      BY <2>5, <2>6, <2>7 DEF IInv
  <1>7. CASE EndOfInput
    BY <1>0, <1>7, CompletesSettles, Facts DEF EndOfInput
  <1>8. CASE DeadlinePasses
    <2>1. /\ ops' \in [Actor -> Operation] /\ ops'["watch"] \in {ops["watch"], "ok"}
          /\ ops["watch"] = "none" => ops'["watch"] = "none"
          /\ \A b \in Actor \ {"watch"} : ops'[b] = ops[b]
      BY <1>0, <1>8, Facts DEF DeadlinePasses, Operation
    <2>2. Settles
      BY <1>0, <1>8, <2>1, Facts DEF DeadlinePasses, Settles, Deadline
    <2> QED
      BY <2>2, SettlesKeeps
  <1>9. ASSUME NEW i \in DOMAIN sends, Send(i) PROVE IInv'
    <2>1. PICK r \in {"ok", "error"} : sends' = [sends EXCEPT ![i] = r]
      BY <1>9 DEF Send
    <2>2. sends' \in Seq(Operation \ {"none"}) /\ sends # <<>>
      BY <2>1, Facts DEF Operation
    <2>3. Settles
      BY <1>9, <2>2, Facts DEF Send, Settles
    <2> QED
      BY <2>3, SettlesKeeps
  <1> QED
    BY <1>1, <1>2, <1>3, <1>4, <1>5, <1>6, <1>7, <1>8, <1>9 DEF System
-----------------------------------------------------------------------------
(* The handlers. *)

LEMMA Members ==
  /\ "connect" \in Actor /\ "read" \in Actor /\ "beat" \in Actor /\ "timer" \in Actor
  /\ "watch" \in Actor /\ "console" \in Actor
  /\ "none" \in Operation /\ "pending" \in Operation
  /\ "ok" \in Operation /\ "error" \in Operation
  BY DEF Actor, OnSocket, Operation

LEMMA OnSocketNows ==
  ASSUME NEW s
  PROVE  OnSocketNow(s) \in {"pending", "error"}
  BY DEF OnSocketNow

(* The operation of a handler is over once it is called. *)
LEMMA Dones ==
  ASSUME IInv, NEW a \in Actor
  PROVE  /\ Done(a) \in [Actor -> Operation] /\ Done(a)[a] = "none"
         /\ \A b \in Actor \ {a} : Done(a)[b] = ops[b]
         /\ \A b \in Actor : ops[b] = "none" => Done(a)[b] = "none"
  <1>1. ops \in [Actor -> Operation]
    BY Facts
  <1> QED
    BY <1>1, Members, Changed DEF Done

(* A handler that finds the client stopped. *)
LEMMA ReturnKeeps ==
  ASSUME IInv, NEW a \in Actor, Return(a), UNCHANGED <<received, typed, established>>
  PROVE  IInv'
  <1>1. ops' = Done(a) /\ UNCHANGED <<stopped, socket, endpoint, deadline, sends>>
    BY DEF Return
  <1>2. Settles
    BY <1>1, Dones, Facts, Members DEF Settles
  <1> QED
    BY <1>2, SettlesKeeps

(* stop(), after the operation of an actor that is more than connecting. *)
LEMMA StopKeeps ==
  ASSUME IInv, NEW o \in [Actor -> Operation], NEW ws \in Seq(Operation \ {"none"}),
         Stop(o, ws), UNCHANGED <<received, typed, established>>, Busy,
         \A a \in Actor : ops[a] = "none" => o[a] = "none",
         o["connect"] = "ok" => ops["connect"] = "ok",
         o["console"] \in {ops["console"], "none"},
         sends = <<>> => ws = <<>>
  PROVE  IInv'
  <1>1. /\ stopped' = TRUE /\ socket' = "closed" /\ sends' = AbortSends(ws)
        /\ ops' = Abort(o, OnSocket \cup {"timer", "watch"}) /\ UNCHANGED <<endpoint, deadline>>
    BY DEF Stop
  <1>2. /\ ops' \in [Actor -> Operation] /\ ops'["console"] = o["console"]
        /\ ops'["connect"] = "ok" => ops["connect"] = "ok"
        /\ \A a \in Actor : ops[a] = "none" => ops'[a] = "none"
    BY <1>1, Aborts, Members DEF OnSocket
  <1>3. sends' \in Seq(Operation \ {"none"}) /\ (sends = <<>> => sends' = <<>>)
    BY <1>1, AbortsSends
  <1>4. Settles
    BY <1>1, <1>2, <1>3, Facts DEF Settles, Socket
  <1> QED
    BY <1>4, SettlesKeeps

(* The next endpoint, if there is one, and a client that has none left. *)
LEMMA ConnectStep ==
  ASSUME IInv, HandleConnect
  PROVE  IInv'
  <1>1. CASE Return("connect") /\ UNCHANGED established
    BY <1>1, ReturnKeeps, Members DEF HandleConnect
  <1> DEFINE o == Done("connect")
  <1>2. /\ o \in [Actor -> Operation] /\ o["connect"] = "none"
        /\ \A b \in Actor \ {"connect"} : o[b] = ops[b]
    BY Dones, Members
  <1>3. ops["connect"] # "none"
    BY DEF HandleConnect, Ready
  <1>4. \A a \in {"read", "beat", "timer"} : ops[a] = "none"
    BY <1>3 DEF IInv, TypeOK
  <1>5. endpoint \in 1 .. Endpoints
    BY <1>3 DEF IInv, TypeOK, ConnectInv
  <1>6. \A a \in {"read", "beat", "timer"} : o[a] = "none"
    BY <1>2, <1>4, Members
  <1> HIDE DEF o
  <1>7. CASE /\ ~stopped /\ TryNext(o) /\ UNCHANGED established
    <2>1. /\ endpoint' = endpoint + 1 /\ sends' = AbortSends(sends)
          /\ endpoint' \in 1 .. Endpoints + 1
      BY <1>5, <1>7 DEF TryNext
    <2>2. /\ sends' \in Seq(Operation \ {"none"}) /\ (sends = <<>> => sends' = <<>>)
      BY <2>1, Facts, AbortsSends
    <2>3. UNCHANGED <<received, typed, established>>
      BY <1>7 DEF HandleConnect
    <2>4. CASE endpoint < Endpoints
      <3> DEFINE q == Abort(o, OnSocket \cup {"watch"})
      <3>1. /\ socket' = "open" /\ deadline' = "set" /\ ~stopped' /\ stopped' \in BOOLEAN
            /\ ops' = [q EXCEPT !["connect"] = "pending"]
        BY <1>7, <2>4, Facts DEF TryNext
      <3>2. /\ q \in [Actor -> Operation] /\ q["console"] = o["console"]
            /\ \A a \in {"read", "beat", "timer"} : q[a] = "none"
        BY <1>2, <1>6, Aborts, Members DEF OnSocket
      <3> HIDE DEF q
      <3>3. /\ ops' \in [Actor -> Operation] /\ ops'["connect"] = "pending"
            /\ ops'["console"] = ops["console"]
            /\ \A a \in {"read", "beat", "timer"} : ops'[a] = "none"
        BY <1>2, <3>1, <3>2, Changed, Members
      <3>4. TypeOK'
        BY <2>1, <2>2, <2>3, <3>1, <3>3 DEF IInv, TypeOK
      <3>5. ConnectInv'
        BY <2>1, <2>3, <2>4, <1>5, <3>3 DEF IInv, ConnectInv
      <3>6. TriesInv'
        BY <2>2, <2>3, <3>1, <3>3 DEF IInv, TriesInv
      <3> QED
        BY <3>4, <3>5, <3>6 DEF IInv
    <2>5. CASE ~ (endpoint < Endpoints)
      <3>1. /\ stopped' = TRUE /\ socket' = "closed" /\ deadline' = deadline
            /\ ops' = Abort(o, OnSocket \cup {"timer", "watch"})
        BY <1>7, <2>5 DEF TryNext
      <3>2. /\ ops' \in [Actor -> Operation] /\ ops'["connect"] = "none"
            /\ ops'["console"] = ops["console"]
            /\ \A a \in {"read", "beat", "timer"} : ops'[a] = "none"
        BY <1>2, <1>6, <3>1, Aborts, Members DEF OnSocket
      <3>3. endpoint' > Endpoints
        BY <1>5, <2>1, <2>5
      <3>4. TypeOK'
        BY <2>1, <2>2, <2>3, <3>1, <3>2 DEF IInv, TypeOK
      <3>5. ConnectInv'
        BY <2>3, <3>2 DEF IInv, ConnectInv
      <3>6. TriesInv'
        BY <2>2, <2>3, <3>1, <3>2, <3>3 DEF IInv, TriesInv
      <3> QED
        BY <3>4, <3>5, <3>6 DEF IInv
    <2> QED
      BY <2>4, <2>5
  <1>8. CASE /\ ~stopped /\ socket # "closed" /\ ops["connect"] = "ok"
             /\ StartRead([o EXCEPT !["beat"] = OnSocketNow(socket)])
             /\ established' = (socket = "connected")
             /\ UNCHANGED <<stopped, socket, endpoint, sends>>
    <2> DEFINE q == [o EXCEPT !["beat"] = OnSocketNow(socket)]
               v == Abort(q, {"watch"})
    <2>1. OnSocketNow(socket) \in Operation
      BY OnSocketNows, Members
    <2>2. /\ q \in [Actor -> Operation] /\ q["connect"] = "none"
          /\ q["console"] = ops["console"]
      BY <1>2, <2>1, Changed, Members
    <2>3. ops' = [v EXCEPT !["read"] = OnSocketNow(socket)] /\ deadline' = "set"
      BY <1>8 DEF StartRead
    <2> HIDE DEF q
    <2>4. /\ v \in [Actor -> Operation] /\ v["connect"] = "none"
          /\ v["console"] = ops["console"]
      BY <2>2, Aborts, Members
    <2> HIDE DEF v
    <2>5. /\ ops' \in [Actor -> Operation] /\ ops'["connect"] = "none"
          /\ ops'["console"] = ops["console"]
      BY <2>1, <2>3, <2>4, Changed, Members
    <2>6. UNCHANGED <<received, typed>>
      BY DEF HandleConnect
    <2>7. TypeOK'
      BY <1>8, <2>3, <2>5, <2>6 DEF IInv, TypeOK
    <2>8. ConnectInv'
      BY <2>5, <2>6 DEF IInv, ConnectInv
    <2>9. established'
      BY <1>8 DEF IInv, TypeOK, ConnectInv
    <2> QED
      BY <2>7, <2>8, <2>9 DEF IInv, TriesInv
  <1>9. \/ Return("connect") /\ UNCHANGED established
        \/ ~stopped /\ TryNext(o) /\ UNCHANGED established
        \/ /\ ~stopped /\ socket # "closed" /\ ops["connect"] = "ok"
           /\ StartRead([o EXCEPT !["beat"] = OnSocketNow(socket)])
           /\ established' = (socket = "connected")
           /\ UNCHANGED <<stopped, socket, endpoint, sends>>
    BY DEF HandleConnect, o
  <1> QED
    BY <1>1, <1>7, <1>8, <1>9

LEMMA ReadStep ==
  ASSUME IInv, HandleRead
  PROVE  IInv'
  <1> DEFINE o == Done("read")
  <1>1. /\ o \in [Actor -> Operation] /\ o["read"] = "none"
        /\ \A b \in Actor \ {"read"} : o[b] = ops[b]
        /\ \A b \in Actor : ops[b] = "none" => o[b] = "none"
    BY Dones, Members
  <1>2. ops["read"] # "none" /\ UNCHANGED <<received, typed, established>>
    BY DEF HandleRead, Ready
  <1>3. CASE Return("read")
    BY <1>2, <1>3, ReturnKeeps, Members
  <1>4. CASE StartRead(o) /\ UNCHANGED <<stopped, socket, endpoint, sends>>
    <2> HIDE DEF o
    <2> DEFINE v == Abort(o, {"watch"})
    <2>1. ops' = [v EXCEPT !["read"] = OnSocketNow(socket)] /\ deadline' = "set"
      BY <1>4 DEF StartRead
    <2>2. /\ v \in [Actor -> Operation] /\ v["console"] = ops["console"]
          /\ v["connect"] = ops["connect"]
          /\ \A a \in Actor : ops[a] = "none" => v[a] = "none"
      BY <1>1, Aborts, Members
    <2> HIDE DEF v
    <2>3. OnSocketNow(socket) \in Operation
      BY OnSocketNows, Members
    <2>4. /\ ops' \in [Actor -> Operation] /\ ops'["console"] = ops["console"]
          /\ ops'["connect"] = ops["connect"]
          /\ \A a \in Actor : ops[a] = "none" => ops'[a] = "none"
      BY <1>2, <2>1, <2>2, <2>3, Changed, Members
    <2>5. Settles
      BY <1>2, <1>4, <2>1, <2>4, Facts DEF Settles, Deadline
    <2> QED
      BY <2>5, SettlesKeeps
  <1>5. CASE Stop(o, sends)
    <2>1. Busy
      BY <1>2 DEF Busy, Beating
    <2>2. o["connect"] = ops["connect"] /\ o["console"] = ops["console"]
      BY <1>1, Members
    <2> HIDE DEF o
    <2> QED
      BY <1>1, <1>2, <1>5, <2>1, <2>2, Facts, StopKeeps
  <1> QED
    BY <1>3, <1>4, <1>5 DEF HandleRead

(* A heartbeat starts, or the wait for the next one. *)
LEMMA BeatStarts ==
  ASSUME IInv, NEW a \in {"beat", "timer"}, NEW b \in {"beat", "timer"},
         NEW r \in Operation, ops[a] # "none",
         ops' = [Done(a) EXCEPT ![b] = r],
         UNCHANGED <<stopped, socket, endpoint, deadline, sends, received, typed, established>>
  PROVE  IInv'
  <1> DEFINE o == Done(a)
  <1>0. /\ a \in Actor /\ b \in Actor
        /\ {"connect", "console"} \subseteq Actor \ {a} /\ {"connect", "console"} \subseteq Actor \ {b}
    BY Members
  <1>1. /\ o \in [Actor -> Operation]
        /\ \A c \in Actor \ {a} : o[c] = ops[c]
    BY <1>0, Dones
  <1>2. ops' = [o EXCEPT ![b] = r]
    OBVIOUS
  <1> HIDE DEF o
  <1>3. /\ ops' \in [Actor -> Operation]
        /\ ops'["connect"] = ops["connect"] /\ ops'["console"] = ops["console"]
    <2>1. ops' \in [Actor -> Operation] /\ \A c \in Actor \ {b} : ops'[c] = o[c]
      <3>1. b \in Actor /\ r \in Operation /\ o \in [Actor -> Operation]
        BY <1>0, <1>1
      <3>2. /\ [o EXCEPT ![b] = r] \in [Actor -> Operation]
            /\ \A c \in Actor \ {b} : [o EXCEPT ![b] = r][c] = o[c]
        BY <3>1, Changed, Zenon
      <3> QED
        BY <1>2, <3>2
    <2> QED
      BY <1>0, <1>1, <2>1
  <1>4. ops["connect"] = "none"
    BY DEF IInv, TypeOK
  <1>5. TypeOK'
    BY <1>3, <1>4 DEF IInv, TypeOK
  <1>6. ConnectInv'
    BY <1>3 DEF IInv, ConnectInv
  <1>7. established \/ typed # 0 \/ ops["console"] # "pending"
    BY DEF IInv, TypeOK, TriesInv
  <1>8. TriesInv'
    BY <1>3, <1>7 DEF IInv, TypeOK, TriesInv
  <1> QED
    BY <1>5, <1>6, <1>8 DEF IInv

LEMMA WriteStarts ==
  ASSUME IInv, StartWrite
  PROVE  IInv'
  <1>1. ops["timer"] # "none" /\ UNCHANGED <<received, typed, established>>
    BY DEF StartWrite, Ready
  <1>2. CASE Return("timer")
    BY <1>1, <1>2, ReturnKeeps, Members
  <1>3. CASE /\ ops' = [Done("timer") EXCEPT !["beat"] = OnSocketNow(socket)]
             /\ UNCHANGED <<stopped, socket, endpoint, deadline, sends>>
    <2>1. OnSocketNow(socket) \in Operation
      BY OnSocketNows, Members
    <2> QED
      BY <1>1, <1>3, <2>1, BeatStarts
  <1> QED
    BY <1>2, <1>3 DEF StartWrite

LEMMA WriteStep ==
  ASSUME IInv, HandleWrite
  PROVE  IInv'
  <1>1. ops["beat"] # "none" /\ UNCHANGED <<received, typed, established>>
    BY DEF HandleWrite, Ready
  <1>2. CASE Return("beat")
    BY <1>1, <1>2, ReturnKeeps, Members
  <1>3. CASE /\ ops' = [Done("beat") EXCEPT !["timer"] = "pending"]
             /\ UNCHANGED <<stopped, socket, endpoint, deadline, sends>>
    BY <1>1, <1>3, BeatStarts, Members
  <1>4. CASE Stop(Done("beat"), sends)
    <2>1. Busy
      BY <1>1 DEF Busy, Beating
    <2>2. /\ Done("beat") \in [Actor -> Operation]
          /\ Done("beat")["connect"] = ops["connect"] /\ Done("beat")["console"] = ops["console"]
          /\ \A b \in Actor : ops[b] = "none" => Done("beat")[b] = "none"
      BY Dones, Members
    <2> QED
      BY <1>1, <1>4, <2>1, <2>2, Facts, StopKeeps
  <1> QED
    BY <1>2, <1>3, <1>4 DEF HandleWrite

LEMMA DeadlineStep ==
  ASSUME IInv, CheckDeadline
  PROVE  IInv'
  <1>1. ops["watch"] # "none" /\ UNCHANGED <<received, typed, established>>
    BY DEF CheckDeadline, Ready
  <1>2. CASE Return("watch")
    BY <1>1, <1>2, ReturnKeeps, Members
  <1>3. CASE /\ socket' = "closed" /\ deadline' = "never"
             /\ ops' = [Abort(ops, OnSocket) EXCEPT !["watch"] = "pending"]
             /\ sends' = AbortSends(sends) /\ UNCHANGED <<stopped, endpoint>>
    <2> DEFINE v == Abort(ops, OnSocket)
    <2>1. /\ v \in [Actor -> Operation] /\ v["console"] = ops["console"]
          /\ v["connect"] = "ok" => ops["connect"] = "ok"
          /\ \A a \in Actor : ops[a] = "none" => v[a] = "none"
      BY Facts, Aborts, Members DEF OnSocket
    <2>2. ops' = [v EXCEPT !["watch"] = "pending"]
      BY <1>3
    <2> HIDE DEF v
    <2>3. /\ ops' \in [Actor -> Operation] /\ ops'["console"] = ops["console"]
          /\ ops'["connect"] = "ok" => ops["connect"] = "ok"
          /\ \A a \in Actor : ops[a] = "none" => ops'[a] = "none"
      BY <1>1, <2>1, <2>2, Changed, Members
    <2>4. sends' \in Seq(Operation \ {"none"}) /\ (sends = <<>> => sends' = <<>>)
      BY <1>3, Facts, AbortsSends
    <2>5. Settles
      BY <1>1, <1>3, <2>3, <2>4, Facts DEF Settles, Socket, Deadline
    <2> QED
      BY <2>5, SettlesKeeps
  <1>4. CASE /\ ops' = [ops EXCEPT !["watch"] = "pending"]
             /\ UNCHANGED <<stopped, socket, endpoint, deadline, sends>>
    <2>1. /\ ops' \in [Actor -> Operation] /\ ops'["console"] = ops["console"]
          /\ ops'["connect"] = ops["connect"]
          /\ \A a \in Actor : ops[a] = "none" => ops'[a] = "none"
      BY <1>1, <1>4, Facts, Changed, Members
    <2>2. Settles
      BY <1>1, <1>4, <2>1, Facts DEF Settles
    <2> QED
      BY <2>2, SettlesKeeps
  <1> QED
    BY <1>2, <1>3, <1>4 DEF CheckDeadline

LEMMA ConsoleStep ==
  ASSUME IInv, HandleReadConsole
  PROVE  IInv'
  <1>1. UNCHANGED <<received, typed, established>>
    BY DEF HandleReadConsole
  <1>2. CASE Return("console")
    BY <1>1, <1>2, ReturnKeeps, Members
  <1>3. CASE /\ ops["console"] = "ok" /\ ops' = [ops EXCEPT !["console"] = "pending"]
             /\ sends' \in {sends, Append(sends, OnSocketNow(socket))}
             /\ UNCHANGED <<stopped, socket, endpoint, deadline>>
    <2>1. /\ ops' \in [Actor -> Operation] /\ ops'["console"] = "pending"
          /\ \A b \in Actor \ {"console"} : ops'[b] = ops[b]
      BY <1>3, Facts, Changed, Members
    <2>2. /\ ops'["connect"] = ops["connect"] /\ ops'["read"] = ops["read"]
          /\ ops'["beat"] = ops["beat"] /\ ops'["timer"] = ops["timer"]
      BY <2>1, Members
    <2>3. OnSocketNow(socket) \in Operation \ {"none"}
      BY OnSocketNows, Members
    <2>4. sends' \in Seq(Operation \ {"none"})
      BY <1>3, <2>3, Facts
    <2>5. typed' # 0
      BY <1>1, <1>3, Facts DEF IInv, ConnectInv
    <2>6. TypeOK'
      BY <1>1, <1>3, <2>1, <2>2, <2>4 DEF IInv, TypeOK
    <2>7. ConnectInv'
      BY <1>1, <1>3, <2>1, <2>2 DEF IInv, ConnectInv
    <2> QED
      BY <2>5, <2>6, <2>7 DEF IInv, TriesInv
  <1>4. CASE Stop(Done("console"), sends)
    <2>1. /\ Done("console") \in [Actor -> Operation]
          /\ Done("console")["connect"] = ops["connect"] /\ Done("console")["console"] = "none"
          /\ \A b \in Actor : ops[b] = "none" => Done("console")[b] = "none"
      BY Dones, Members
    <2>2. ops'["console"] = "none"
      BY <1>4, <2>1, Aborts, Members DEF Stop
    <2>3. Busy
      BY <2>2 DEF Busy
    <2> QED
      BY <1>1, <1>4, <2>1, <2>3, Facts, StopKeeps
  <1> QED
    BY <1>2, <1>3, <1>4 DEF HandleReadConsole

LEMMA SendStep ==
  ASSUME IInv, NEW i \in DOMAIN sends, HandleSend(i)
  PROVE  IInv'
  <1> DEFINE ws == RemoveAt(sends, i)
  <1>1. ws \in Seq(Operation \ {"none"})
    BY Facts, Removes
  <1>2. UNCHANGED <<received, typed, established>> /\ sends # <<>>
    BY DEF HandleSend
  <1>3. CASE sends' = ws /\ UNCHANGED <<stopped, socket, endpoint, deadline, ops>>
    <2> HIDE DEF ws
    <2>1. Settles
      BY <1>1, <1>2, <1>3, Facts DEF Settles
    <2> QED
      BY <2>1, SettlesKeeps
  <1>4. CASE Stop(ops, ws)
    <2> HIDE DEF ws
    <2>1. Busy
      BY <1>2 DEF Busy
    <2> QED
      BY <1>1, <1>2, <1>4, <2>1, Facts, StopKeeps
  <1> QED
    BY <1>3, <1>4 DEF HandleSend

LEMMA StutterStep ==
  ASSUME IInv, UNCHANGED vars
  PROVE  IInv'
  BY DEF IInv, TypeOK, ConnectInv, TriesInv, vars
-----------------------------------------------------------------------------
(* The inductive invariant holds in every state of a client, in whatever   *)
(* order its handlers are called.                                          *)
THEOREM Inductive == Spec => []IInv
  <1>1. IInv /\ [Next]_vars => IInv'
    BY SystemStep, ConnectStep, ReadStep, WriteStarts, WriteStep, DeadlineStep,
       ConsoleStep, SendStep, StutterStep DEF Next, Handlers
  <1> QED
    BY InitIInv, <1>1, PTL DEF Spec

(* Types: the actors of a connection never work beside the one that        *)
(* connects (start_connect, handle_connect).                               *)
THEOREM ClientTypes == Spec => []TypeOK
  <1>1. IInv => TypeOK
    BY DEF IInv
  <1> QED
    BY <1>1, Inductive, PTL

(* As long as nothing is typed, a client that stops without ever having    *)
(* had a connection has tried every endpoint (handle_connect,              *)
(* check_deadline).                                                        *)
THEOREM EveryEndpointTried == Spec => []TriesAll
  <1>1. IInv => TriesAll
    BY DEF IInv, TriesInv, TriesAll
  <1> QED
    BY <1>1, Inductive, PTL

(* Once stopped, no actor starts an operation again (stopped_).            *)
THEOREM StoppedForGood == Spec => StoppedStartsNothing
  <1> DEFINE Still == stopped => \A a \in Actor :
                 ops'[a] # ops[a] => ops[a] = "pending" \/ ops'[a] = "none"
  <1>1. ASSUME IInv, stopped, Next
        PROVE  \A a \in Actor : ops'[a] # ops[a] => ops[a] = "pending" \/ ops'[a] = "none"
    <2>1. ops \in [Actor -> Operation]
      BY <1>1, Facts
    <2>2. ASSUME NEW b \in Actor, NEW r \in {"ok", "error"}, Complete(b, r)
          PROVE  \A a \in Actor : ops'[a] # ops[a] => ops[a] = "pending" \/ ops'[a] = "none"
      BY <1>1, <2>2, Completes
    <2>3. ASSUME NEW b \in Actor, Return(b)
          PROVE  \A a \in Actor : ops'[a] # ops[a] => ops[a] = "pending" \/ ops'[a] = "none"
      BY <1>1, <2>3, Dones DEF Return
    <2>4. CASE System
      <3>1. CASE \E b \in Actor, r \in {"ok", "error"} : Complete(b, r)
        BY <2>2, <3>1
      <3>2. CASE DeadlinePasses
        BY <2>1, <3>2 DEF DeadlinePasses
      <3>3. CASE ops' = ops
        BY <3>3
      <3> QED
        BY <2>4, <3>1, <3>2, <3>3, Members
           DEF System, Connected, Refused, Line, Broken, Beat, Type, EndOfInput, Send
    <2>5. CASE Handlers
      <3>1. CASE \E b \in Actor : Return(b)
        BY <2>3, <3>1
      <3>2. CASE ops' = ops
        BY <3>2
      <3> QED
        BY <1>1, <2>5, <3>1, <3>2, Members
           DEF Handlers, HandleConnect, HandleRead, StartWrite, HandleWrite, CheckDeadline,
               HandleReadConsole, HandleSend
    <2> QED
      BY <1>1, <2>4, <2>5 DEF Next
  <1>2. IInv /\ [Next]_vars => [Still]_vars
    BY <1>1 DEF Still
  <1> QED
    BY <1>2, Inductive, PTL DEF Spec, StoppedStartsNothing, Still
=============================================================================
