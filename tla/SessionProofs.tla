--------------------------- MODULE SessionProofs ----------------------------
(***************************************************************************)
(* For any number of requests and of updates: the types of a session, and  *)
(* that without a stream its reads and its answers take turns, so that no  *)
(* handler of theirs is left for a session that has been deleted.          *)
(***************************************************************************)
EXTENDS Session, SequenceTheorems, TLAPS

USE BoundsAssumption

Pending == [kind : Kind, op : Operation, half : 0 .. 2]

(* A request that has been read is answered later; a write that is on its  *)
(* way has a half to go.                                                   *)
ProgressInv ==
    /\ read = "ok" => answers < taken
    /\ \A i \in DOMAIN writes : writes[i].op = "pending" => writes[i].half < 2

(* As long as nothing has been streamed there is one operation at most: a  *)
(* read or an answer; and none before the session is open, or after.       *)
TurnsInv ==
    ~streamed =>
        /\ Len(writes) <= 1
        /\ \A i \in DOMAIN writes : writes[i].kind = "answer"
        /\ read # "none" => writes = <<>>
        /\ life # "open" => read = "none" /\ writes = <<>>
        /\ misuse \notin {"read", "write"}

IInv == TypeOK /\ ProgressInv /\ TurnsInv
-----------------------------------------------------------------------------
(* Removing an element of a sequence leaves elements of it. *)
LEMMA Removes ==
  ASSUME NEW S, NEW s \in Seq(S), NEW i \in DOMAIN s
  PROVE  /\ RemoveAt(s, i) \in Seq(S) /\ Len(RemoveAt(s, i)) = Len(s) - 1
         /\ \A j \in DOMAIN RemoveAt(s, i) :
               LET k == IF j < i THEN j ELSE j + 1 IN
               k \in DOMAIN s /\ k # i /\ RemoveAt(s, i)[j] = s[k]
  <1>1. i \in 1 .. Len(s) /\ Len(s) \in Nat /\ DOMAIN s = 1 .. Len(s)
    OBVIOUS
  <1>2. /\ SubSeq(s, 1, i - 1) \in Seq(S) /\ Len(SubSeq(s, 1, i - 1)) = i - 1
        /\ \A j \in 1 .. i - 1 : SubSeq(s, 1, i - 1)[j] = s[j]
    <2>1. 1 \in Int /\ i - 1 \in Int /\ \A j \in 1 .. i - 1 : s[j] \in S
      BY <1>1
    <2>2. /\ SubSeq(s, 1, i - 1) \in Seq(S)
          /\ Len(SubSeq(s, 1, i - 1)) = IF 1 <= i - 1 THEN i - 1 - 1 + 1 ELSE 0
          /\ \A j \in 1 .. i - 1 - 1 + 1 : SubSeq(s, 1, i - 1)[j] = s[1 + j - 1]
      BY <2>1, SubSeqProperties
    <2>3. /\ i - 1 - 1 + 1 = i - 1 /\ \A j \in 1 .. i - 1 : 1 + j - 1 = j
          /\ (IF 1 <= i - 1 THEN i - 1 - 1 + 1 ELSE 0) = i - 1
      BY <1>1
    <2> QED
      BY <2>2, <2>3
  <1>3. /\ SubSeq(s, i + 1, Len(s)) \in Seq(S) /\ Len(SubSeq(s, i + 1, Len(s))) = Len(s) - i
        /\ \A j \in 1 .. Len(s) - i : SubSeq(s, i + 1, Len(s))[j] = s[i + j]
    <2>1. i + 1 \in Int /\ Len(s) \in Int /\ \A j \in i + 1 .. Len(s) : s[j] \in S
      BY <1>1
    <2>2. /\ SubSeq(s, i + 1, Len(s)) \in Seq(S)
          /\ Len(SubSeq(s, i + 1, Len(s))) = IF i + 1 <= Len(s) THEN Len(s) - (i + 1) + 1 ELSE 0
          /\ \A j \in 1 .. Len(s) - (i + 1) + 1 : SubSeq(s, i + 1, Len(s))[j] = s[i + 1 + j - 1]
      BY <2>1, SubSeqProperties
    <2>3. /\ Len(s) - (i + 1) + 1 = Len(s) - i
          /\ \A j \in 1 .. Len(s) - i : i + 1 + j - 1 = i + j
          /\ (IF i + 1 <= Len(s) THEN Len(s) - (i + 1) + 1 ELSE 0) = Len(s) - i
      BY <1>1
    <2> QED
      BY <2>2, <2>3
  <1> DEFINE a == SubSeq(s, 1, i - 1)
             b == SubSeq(s, i + 1, Len(s))
  <1>4. RemoveAt(s, i) = a \o b
    BY DEF RemoveAt
  <1> HIDE DEF a, b
  <1>5. a \in Seq(S) /\ b \in Seq(S) /\ Len(a) = i - 1 /\ Len(b) = Len(s) - i
    BY <1>2, <1>3 DEF a, b
  <1>6. a \o b \in Seq(S) /\ Len(a \o b) = Len(s) - 1
    <2>1. a \o b \in Seq(S) /\ Len(a \o b) = Len(a) + Len(b)
      BY <1>5, ConcatProperties, Zenon
    <2>2. (i - 1) + (Len(s) - i) = Len(s) - 1
      BY <1>1
    <2> QED
      BY <1>5, <2>1, <2>2
  <1>7. ASSUME NEW j \in DOMAIN (a \o b)
        PROVE  LET k == IF j < i THEN j ELSE j + 1 IN
               k \in DOMAIN s /\ k # i /\ (a \o b)[j] = s[k]
    <2>1. j \in 1 .. Len(s) - 1 /\ j \in 1 .. Len(a) + Len(b)
      BY <1>1, <1>5, <1>6
    <2>2. (a \o b)[j] = IF j <= Len(a) THEN a[j] ELSE b[j - Len(a)]
      BY <1>5, <2>1, ConcatProperties
    <2>3. CASE j < i
      <3>1. j \in 1 .. i - 1 /\ j \in 1 .. Len(s) /\ j <= i - 1
        BY <1>1, <2>1, <2>3
      <3>2. a[j] = s[j]
        BY <1>2, <3>1 DEF a
      <3>3. (a \o b)[j] = s[j]
        BY <1>5, <2>2, <3>1, <3>2
      <3> QED
        BY <1>1, <2>3, <3>1, <3>3
    <2>4. CASE j >= i
      <3>1. /\ j - (i - 1) \in 1 .. Len(s) - i /\ ~ (j <= i - 1)
            /\ i + (j - (i - 1)) = j + 1 /\ j + 1 \in 1 .. Len(s) /\ j + 1 # i /\ ~ (j < i)
        BY <1>1, <2>1, <2>4
      <3>2. b[j - (i - 1)] = s[j + 1]
        BY <1>3, <3>1 DEF b
      <3>3. (a \o b)[j] = s[j + 1]
        BY <1>5, <2>2, <3>1, <3>2
      <3> QED
        BY <1>1, <3>1, <3>3
    <2> QED
      BY <1>1, <2>1, <2>3, <2>4
  <1> QED
    BY <1>4, <1>6, <1>7

(* What remains of a write when it is aborted. *)
LEMMA Aborts ==
  ASSUME NEW ws \in Seq(Pending)
  PROVE  LET vs == [i \in DOMAIN ws |-> [ws[i] EXCEPT !.op = Aborted(@)]] IN
         /\ vs \in Seq(Pending) /\ Len(vs) = Len(ws) /\ DOMAIN vs = DOMAIN ws
         /\ \A i \in DOMAIN ws : vs[i].kind = ws[i].kind /\ vs[i].op # "pending"
  <1> DEFINE v(i) == [ws[i] EXCEPT !.op = Aborted(@)]
             vs == [i \in DOMAIN ws |-> v(i)]
  <1>1. ASSUME NEW i \in DOMAIN ws PROVE v(i) \in Pending /\ v(i).kind = ws[i].kind /\ v(i).op # "pending"
    <2>1. ws[i] \in Pending
      OBVIOUS
    <2>2. Aborted(ws[i].op) \in Operation /\ Aborted(ws[i].op) # "pending"
      BY <2>1 DEF Pending, Aborted, Operation
    <2> QED
      BY <2>1, <2>2 DEF Pending
  <1>2. DOMAIN ws = 1 .. Len(ws) /\ Len(ws) \in Nat
    OBVIOUS
  <1>3. vs \in [1 .. Len(ws) -> Pending]
    BY <1>1, <1>2
  <1>4. vs \in Seq(Pending) /\ Len(vs) = Len(ws)
    BY <1>2, <1>3
  <1> QED
    BY <1>1, <1>4

LEMMA InitIInv == Init => IInv
  <1> SUFFICES ASSUME Init PROVE IInv
    OBVIOUS
  <1>1. /\ writes = <<>> /\ Len(writes) = 0 /\ DOMAIN writes = {}
        /\ wire = [k \in Kind |-> <<>>] /\ wire["answer"] = <<>>
        /\ Len(wire["answer"]) = 0 /\ DOMAIN wire["answer"] = {}
    BY DEF Init, Kind
  <1>2. writes \in Seq(Pending) /\ wire \in [Kind -> Seq(Nat)]
    BY <1>1
  <1>3. /\ sent \in 0 .. MaxRequests /\ taken \in 0 .. sent /\ answers \in 0 .. taken
        /\ updates \in 0 .. MaxUpdates
    BY SMT DEF Init
  <1>4. TypeOK
    BY <1>2, <1>3 DEF Init, TypeOK, Pending
  <1>5. ProgressInv
    BY <1>1 DEF Init, ProgressInv
  <1>6. TurnsInv
    BY <1>1 DEF Init, TurnsInv
  <1> QED
    BY <1>4, <1>5, <1>6 DEF IInv

(* What IInv says of the writes, and of the rest. *)
LEMMA Facts ==
  ASSUME IInv
  PROVE  /\ writes \in Seq(Pending) /\ Len(writes) \in Nat /\ DOMAIN writes = 1 .. Len(writes)
         /\ \A i \in DOMAIN writes : writes[i] \in Pending
         /\ sent \in Nat /\ taken \in Nat /\ answers \in Nat /\ updates \in Nat
  <1>1. writes \in Seq(Pending)
    BY DEF IInv, TypeOK, Pending
  <1>2. sent \in Nat /\ taken \in Nat /\ answers \in Nat /\ updates \in Nat
    BY SMT DEF IInv, TypeOK
  <1> QED
    BY <1>1, <1>2

(* The peer and the system. *)
LEMMA SystemStep ==
  ASSUME IInv, Request \/ Leave \/ Reads \/ Expire
  PROVE  IInv'
  <1> USE DEF socket, object
  <1>1. CASE Request
    <2>1. sent' \in 0 .. MaxRequests /\ taken \in 0 .. sent'
      BY <1>1, SMT DEF Request, IInv, TypeOK
    <2>2. hurried' \in BOOLEAN
      <3>1. hurried' = (hurried \/ Len(wire["answer"]) < 2 * sent)
        BY <1>1 DEF Request
      <3> QED
        BY <3>1, Zenon
    <2> QED
      BY <1>1, <2>1, <2>2 DEF Request, IInv, TypeOK, ProgressInv, TurnsInv
  <1>2. CASE Leave \/ Expire
    BY <1>2 DEF Leave, Expire, IInv, TypeOK, ProgressInv, TurnsInv, Operation
  <1>3. CASE Arrive
    <2>1. taken' \in 0 .. sent /\ answers \in 0 .. taken' /\ answers < taken'
      BY <1>3, Facts, SMT DEF Arrive, IInv, TypeOK
    <2> QED
      BY <1>3, <2>1 DEF Arrive, IInv, TypeOK, ProgressInv, TurnsInv, Operation
  <1>4. CASE ReadFails
    BY <1>4 DEF ReadFails, IInv, TypeOK, ProgressInv, TurnsInv, Operation
  <1> QED
    BY <1>1, <1>2, <1>3, <1>4 DEF Reads

(* The system sends, or fails to. *)
LEMMA SendStep ==
  ASSUME IInv, NEW i \in DOMAIN writes, PutHalf(i) \/ WriteFails(i)
  PROVE  IInv'
  <1> USE DEF socket, object
  <1> DEFINE w == writes[i]
  <1>1. w \in Pending /\ w.op = "pending" /\ w.half \in {0, 1} /\ DOMAIN writes = 1 .. Len(writes)
    <2>1. w.op = "pending"
      BY DEF PutHalf, WriteFails
    <2>2. w \in Pending /\ w.half < 2
      BY <2>1, Facts DEF IInv, ProgressInv
    <2> QED
      BY <2>1, <2>2, Facts, SMT DEF Pending
  <1>2. PICK v \in Pending : /\ writes' = [writes EXCEPT ![i] = v]
                             /\ v.kind = w.kind /\ (v.op = "pending" => v.half < 2)
    <2>1. CASE PutHalf(i)
      <3> DEFINE v == [w EXCEPT !.half = w.half + 1,
                                !.op = IF w.half = 1 THEN "ok" ELSE "pending"]
      <3>1. writes' = [writes EXCEPT ![i] = v]
        BY <1>1, <2>1, Facts DEF PutHalf
      <3>2. v \in Pending /\ v.kind = w.kind /\ (v.op = "pending" => v.half < 2)
        <4>1. w.half + 1 \in 0 .. 2 /\ (w.half # 1 => w.half + 1 < 2)
          BY <1>1, SMT
        <4>2. (IF w.half = 1 THEN "ok" ELSE "pending") \in Operation
          BY DEF Operation
        <4>3. v.kind = w.kind /\ v.half = w.half + 1 /\ v.op = IF w.half = 1 THEN "ok" ELSE "pending"
          BY <1>1 DEF Pending
        <4>4. v \in Pending
          BY <1>1, <4>1, <4>2 DEF Pending
        <4> QED
          BY <4>1, <4>3, <4>4
      <3> QED
        BY <3>1, <3>2
    <2>2. CASE WriteFails(i)
      <3> DEFINE v == [w EXCEPT !.op = "error"]
      <3>1. writes' = [writes EXCEPT ![i] = v]
        BY <1>1, <2>2, Facts DEF WriteFails
      <3>2. v \in Pending /\ v.kind = w.kind /\ v.op = "error"
        BY <1>1 DEF Pending, Operation
      <3> QED
        BY <3>1, <3>2
    <2> QED
      BY <2>1, <2>2
  <1> HIDE DEF w
  <1>3. /\ writes' \in Seq(Pending) /\ Len(writes') = Len(writes) /\ DOMAIN writes' = DOMAIN writes
        /\ writes'[i] = v /\ \A j \in DOMAIN writes : j # i => writes'[j] = writes[j]
    BY <1>2, Facts
  <1>4. wire' \in [Kind -> Seq(Nat)]
    <2>1. CASE PutHalf(i)
      <3>1. Version(w.kind) \in Nat /\ w.kind \in Kind
        BY <1>1, Facts DEF Version, Pending
      <3>2. wire' = [wire EXCEPT ![w.kind] = Append(@, Version(w.kind))]
        BY <2>1 DEF PutHalf, w
      <3>3. wire \in [Kind -> Seq(Nat)] /\ Append(wire[w.kind], Version(w.kind)) \in Seq(Nat)
        BY <3>1 DEF IInv, TypeOK
      <3> QED
        BY <3>1, <3>2, <3>3, Zenon
    <2>2. CASE WriteFails(i)
      BY <2>2 DEF WriteFails, IInv, TypeOK
    <2> QED
      BY <2>1, <2>2
  <1>5. UNCHANGED <<socket, object, read, timer>>
    BY DEF PutHalf, WriteFails
  <1>6. TypeOK'
    BY <1>3, <1>4, <1>5 DEF IInv, TypeOK, Pending
  <1>7. ProgressInv'
    BY <1>2, <1>3, <1>5 DEF IInv, ProgressInv
  <1>8. TurnsInv'
    <2> SUFFICES ASSUME ~streamed PROVE TurnsInv'
      BY <1>5 DEF TurnsInv
    <2>1. /\ Len(writes) <= 1
          /\ \A j \in DOMAIN writes : writes[j].kind = "answer"
          /\ read # "none" => writes = <<>>
          /\ life # "open" => read = "none" /\ writes = <<>>
          /\ misuse \notin {"read", "write"}
      BY DEF IInv, TurnsInv
    <2>2. writes # <<>>
      BY Facts
    <2>3. \A j \in DOMAIN writes' : writes'[j].kind = "answer"
      BY <1>2, <1>3, <2>1 DEF w
    <2> QED
      BY <1>3, <1>5, <2>1, <2>2, <2>3 DEF TurnsInv
  <1> QED
    BY <1>6, <1>7, <1>8 DEF IInv

(* A session that is deleted: what is pending is aborted, unless it was    *)
(* deleted already, which is a misuse.                                     *)
LEMMA Deletes ==
  ASSUME IInv, NEW h \in {"read", "write"}, NEW r \in Operation \cup {"none"},
         NEW ws \in Seq(Pending), Delete(h, r, ws)
  PROVE  /\ life' = "deleted" /\ timer' \in Operation \cup {"none"}
         /\ read' \in Operation \cup {"none"}
         /\ read' = "ok" <=> r = "ok"
         /\ read' = "none" <=> r = "none"
         /\ writes' \in Seq(Pending) /\ Len(writes') = Len(ws) /\ DOMAIN writes' = DOMAIN ws
         /\ \A i \in DOMAIN ws : /\ writes'[i].kind = ws[i].kind
                                 /\ writes'[i].op = "pending" => writes'[i] = ws[i]
         /\ misuse' \in {misuse, h} /\ (misuse' # misuse => life = "deleted")
  <1>1. CASE life = "deleted"
    <2>1. /\ misuse' = h /\ read' = r /\ writes' = ws /\ life' = life /\ timer' = timer
      BY <1>1 DEF Delete
    <2> QED
      BY <1>1, <2>1 DEF IInv, TypeOK
  <1>2. CASE life # "deleted"
    <2> DEFINE vs == [i \in DOMAIN ws |-> [ws[i] EXCEPT !.op = Aborted(@)]]
    <2>1. /\ life' = "deleted" /\ read' = Aborted(r) /\ timer' = Aborted(timer)
          /\ writes' = vs /\ misuse' = misuse
      BY <1>2 DEF Delete
    <2>2. /\ vs \in Seq(Pending) /\ Len(vs) = Len(ws) /\ DOMAIN vs = DOMAIN ws
          /\ \A i \in DOMAIN ws : vs[i].kind = ws[i].kind /\ vs[i].op # "pending"
      BY Aborts
    <2> HIDE DEF vs
    <2>3. /\ Aborted(r) \in Operation \cup {"none"} /\ Aborted(timer) \in Operation \cup {"none"}
          /\ Aborted(r) = "ok" <=> r = "ok"
          /\ Aborted(r) = "none" <=> r = "none"
      BY DEF IInv, TypeOK, Aborted, Operation
    <2> QED
      BY <2>1, <2>2, <2>3
  <1> QED
    BY <1>1, <1>2

LEMMA OpenStep ==
  ASSUME IInv, Accept \/ AcceptFails
  PROVE  IInv'
  BY DEF Accept, AcceptFails, IInv, TypeOK, ProgressInv, TurnsInv, Operation, socket

(* What Uses may do to misuse. *)
LEMMA UsesFacts ==
  ASSUME NEW h \in {"read", "write", "timer"}, IInv, Uses(h)
  PROVE  /\ misuse' \in {"no", "read", "write", "timer"}
         /\ misuse' \in {misuse, h} /\ (misuse' # misuse => life = "deleted")
  BY DEF Uses, IInv, TypeOK

LEMMA ReadStep ==
  ASSUME IInv, OnRead
  PROVE  IInv'
  <1> USE DEF socket, object
  <1>1. CASE HandleRead
    <2>1. /\ writes' = Append(writes, Write("answer")) /\ Write("answer") \in Pending
          /\ Write("answer").kind = "answer" /\ Write("answer").half = 0
      BY <1>1 DEF HandleRead, Write, Pending, Kind, Operation
    <2> DEFINE n == Len(writes) + 1
    <2>2. /\ writes' \in Seq(Pending) /\ Len(writes') = n /\ DOMAIN writes' = 1 .. n
          /\ writes'[n] = Write("answer")
          /\ \A i \in DOMAIN writes' : i = n \/ (i \in DOMAIN writes /\ writes'[i] = writes[i])
      BY <2>1, Facts
    <2> HIDE DEF n
    <2>3. answers' \in 0 .. taken
      <3>1. answers < taken
        BY <1>1 DEF HandleRead, IInv, ProgressInv
      <3> QED
        BY <1>1, <3>1, Facts, SMT DEF HandleRead
    <2>4. misuse' \in {"no", "read", "write", "timer"} /\ (misuse' # misuse => life = "deleted")
      BY <1>1, UsesFacts DEF HandleRead
    <2>5. TypeOK'
      BY <1>1, <2>2, <2>3, <2>4 DEF HandleRead, IInv, TypeOK, Pending
    <2>6. ProgressInv'
      <3>1. \A i \in DOMAIN writes' : writes'[i].op = "pending" => writes'[i].half < 2
        BY <2>1, <2>2, SMT DEF IInv, ProgressInv
      <3>2. read' = "none"
        BY <1>1 DEF HandleRead
      <3> QED
        BY <3>1, <3>2 DEF ProgressInv
    <2>7. TurnsInv'
      <3> SUFFICES ASSUME ~streamed PROVE TurnsInv'
        BY <1>1 DEF HandleRead, TurnsInv
      <3>1. /\ read = "ok" /\ read' = "none" /\ life' = life /\ streamed' = streamed
        BY <1>1 DEF HandleRead
      <3>2. writes = <<>> /\ life = "open" /\ misuse \notin {"read", "write"}
        BY <3>1 DEF IInv, TurnsInv
      <3>3. n = 1
        BY <3>2 DEF n
      <3>4. \A i \in DOMAIN writes' : writes'[i].kind = "answer"
        BY <2>1, <2>2, <3>2
      <3> QED
        BY <2>2, <2>4, <3>1, <3>2, <3>3, <3>4 DEF TurnsInv
    <2> QED
      BY <2>5, <2>6, <2>7 DEF IInv
  <1>2. CASE HandleReadError
    <2>1. /\ Delete("read", "none", writes) /\ Defined /\ read = "error"
          /\ UNCHANGED <<socket, streaming, answers, updates, streamed, wire>>
      BY <1>2 DEF HandleReadError
    <2>2. /\ life' = "deleted" /\ timer' \in Operation \cup {"none"} /\ read' = "none"
          /\ writes' \in Seq(Pending) /\ Len(writes') = Len(writes) /\ DOMAIN writes' = DOMAIN writes
          /\ \A i \in DOMAIN writes : /\ writes'[i].kind = writes[i].kind
                                      /\ writes'[i].op = "pending" => writes'[i] = writes[i]
          /\ misuse' \in {misuse, "read"} /\ (misuse' # misuse => life = "deleted")
      <3>1. "none" \in Operation \cup {"none"} /\ "read" \in {"read", "write"} /\ writes \in Seq(Pending)
        BY Facts
      <3> QED
        BY <2>1, <3>1, Deletes, Zenon
    <2>3. TypeOK'
      <3>1. /\ peer' \in {"up", "gone"} /\ sent' \in 0 .. MaxRequests /\ taken' \in 0 .. sent'
            /\ hurried' \in BOOLEAN /\ streaming' \in BOOLEAN /\ streamed' \in BOOLEAN
            /\ answers' \in 0 .. taken' /\ updates' \in 0 .. MaxUpdates
            /\ wire' \in [Kind -> Seq(Nat)]
        BY <2>1 DEF IInv, TypeOK
      <3>2. misuse' \in {"no", "read", "write", "timer"} /\ read' \in Operation \cup {"none"}
        BY <2>2 DEF IInv, TypeOK
      <3> QED
        BY <2>2, <3>1, <3>2 DEF TypeOK, Pending
    <2>4. ProgressInv'
      BY <2>2 DEF IInv, ProgressInv
    <2>5. TurnsInv'
      <3> SUFFICES ASSUME ~streamed PROVE TurnsInv'
        BY <2>1 DEF TurnsInv
      <3>1. writes = <<>> /\ life = "open" /\ misuse \notin {"read", "write"}
        BY <2>1 DEF IInv, TurnsInv
      <3>2. Len(writes') = 0 /\ writes' = <<>>
        BY <2>2, <3>1
      <3> QED
        BY <2>2, <3>1, <3>2 DEF TurnsInv
    <2> QED
      BY <2>3, <2>4, <2>5 DEF IInv
  <1> QED
    BY <1>1, <1>2 DEF OnRead

(* The handler of a write that is done, or that has failed. *)
LEMMA SentStep ==
  ASSUME IInv, NEW i \in DOMAIN writes,
         HandleWrite(i) \/ HandleWriteError(i) \/ HandleStreamWrite(i)
  PROVE  IInv'
  <1> USE DEF socket, object
  <1> DEFINE ws == RemoveAt(writes, i)
  <1>1. /\ ws \in Seq(Pending) /\ Len(ws) = Len(writes) - 1
        /\ \A j \in DOMAIN ws : \E k \in DOMAIN writes : ws[j] = writes[k]
    <2>1. writes \in Seq(Pending)
      BY Facts
    <2>2. /\ ws \in Seq(Pending) /\ Len(ws) = Len(writes) - 1
          /\ \A j \in DOMAIN ws : LET k == IF j < i THEN j ELSE j + 1 IN
                                 k \in DOMAIN writes /\ k # i /\ ws[j] = writes[k]
      BY <2>1, Removes
    <2> QED
      BY <2>2, Zenon
  <1> HIDE DEF ws
  <1>2. \A j \in DOMAIN ws : ws[j].op = "pending" => ws[j].half < 2
    BY <1>1 DEF IInv, ProgressInv
  <1>3. ~streamed => /\ ws = <<>> /\ read = "none" /\ life = "open"
                     /\ writes[i].kind = "answer" /\ misuse \notin {"read", "write"}
    <2> SUFFICES ASSUME ~streamed
                 PROVE  /\ ws = <<>> /\ read = "none" /\ life = "open"
                        /\ writes[i].kind = "answer" /\ misuse \notin {"read", "write"}
      OBVIOUS
    <2>1. writes # <<>> /\ Len(writes) \in Nat /\ Len(writes) > 0
      BY Facts
    <2>2. Len(writes) <= 1
      BY DEF IInv, TurnsInv
    <2>3. Len(ws) = 0
      BY <1>1, <2>1, <2>2, SMT
    <2> QED
      BY <1>1, <2>1, <2>3 DEF IInv, TurnsInv, TypeOK
  <1>4. CASE HandleWrite(i)
    <2>1. /\ writes' = ws /\ read' = "pending" /\ Uses("write")
          /\ UNCHANGED <<socket, life, streaming, answers, updates, streamed, timer, wire>>
      BY <1>4 DEF HandleWrite, ws
    <2>2. misuse' \in {"no", "read", "write", "timer"} /\ (misuse' # misuse => life = "deleted")
      BY <2>1, UsesFacts
    <2>3. TypeOK'
      BY <1>1, <2>1, <2>2 DEF IInv, TypeOK, Pending, Operation
    <2>4. ProgressInv'
      BY <1>2, <2>1 DEF ProgressInv
    <2>5. TurnsInv'
      <3> SUFFICES ASSUME ~streamed PROVE TurnsInv'
        BY <2>1 DEF TurnsInv
      <3>1. DOMAIN ws = {} /\ Len(ws) = 0
        BY <1>3
      <3> QED
        BY <1>3, <2>1, <2>2, <3>1 DEF TurnsInv
    <2> QED
      BY <2>3, <2>4, <2>5 DEF IInv
  <1>5. CASE HandleWriteError(i)
    <2>1. /\ Delete("write", read, ws) /\ Defined
          /\ UNCHANGED <<socket, streaming, answers, updates, streamed, wire>>
      BY <1>5 DEF HandleWriteError, ws
    <2>2. /\ life' = "deleted" /\ timer' \in Operation \cup {"none"}
          /\ read' \in Operation \cup {"none"}
          /\ read' = "ok" <=> read = "ok"
          /\ read' = "none" <=> read = "none"
          /\ writes' \in Seq(Pending) /\ Len(writes') = Len(ws) /\ DOMAIN writes' = DOMAIN ws
          /\ \A j \in DOMAIN ws : /\ writes'[j].kind = ws[j].kind
                                  /\ writes'[j].op = "pending" => writes'[j] = ws[j]
          /\ misuse' \in {misuse, "write"} /\ (misuse' # misuse => life = "deleted")
      <3>1. read \in Operation \cup {"none"} /\ "write" \in {"read", "write"} /\ ws \in Seq(Pending)
        BY <1>1 DEF IInv, TypeOK
      <3> QED
        BY <2>1, <3>1, Deletes, Zenon
    <2>3. TypeOK'
      <3>1. /\ peer' \in {"up", "gone"} /\ sent' \in 0 .. MaxRequests /\ taken' \in 0 .. sent'
            /\ hurried' \in BOOLEAN /\ streaming' \in BOOLEAN /\ streamed' \in BOOLEAN
            /\ answers' \in 0 .. taken' /\ updates' \in 0 .. MaxUpdates
            /\ wire' \in [Kind -> Seq(Nat)]
        BY <2>1 DEF IInv, TypeOK
      <3>2. misuse' \in {"no", "read", "write", "timer"} /\ read' \in Operation \cup {"none"}
        BY <2>2 DEF IInv, TypeOK
      <3> QED
        BY <2>2, <3>1, <3>2 DEF TypeOK, Pending
    <2>4. ProgressInv'
      BY <1>2, <2>1, <2>2 DEF IInv, ProgressInv
    <2>5. TurnsInv'
      <3> SUFFICES ASSUME ~streamed PROVE TurnsInv'
        BY <2>1 DEF TurnsInv
      <3>1. Len(writes') = 0 /\ writes' = <<>> /\ DOMAIN writes' = {}
        BY <1>3, <2>2
      <3> QED
        BY <1>3, <2>2, <3>1 DEF TurnsInv
    <2> QED
      BY <2>3, <2>4, <2>5 DEF IInv
  <1>6. CASE HandleStreamWrite(i)
    <2>1. writes' = ws /\ writes[i].kind = "update" /\ UNCHANGED <<socket, object, read, timer, wire>>
      BY <1>6 DEF HandleStreamWrite, ws
    <2>2. streamed
      BY <1>3, <2>1
    <2>3. TypeOK'
      BY <1>1, <2>1 DEF IInv, TypeOK, Pending
    <2>4. ProgressInv'
      BY <1>2, <2>1 DEF IInv, ProgressInv
    <2> QED
      BY <2>1, <2>2, <2>3, <2>4 DEF IInv, TurnsInv
  <1> QED
    BY <1>4, <1>5, <1>6

LEMMA TimerStep ==
  ASSUME IInv, HandleTimer \/ HandleTimerError
  PROVE  IInv'
  <1> USE DEF socket, object
  <1>1. CASE HandleTimerError
    BY <1>1 DEF HandleTimerError, IInv, TypeOK, ProgressInv, TurnsInv
  <1>2. CASE HandleTimer
    <2>1. /\ misuse' \in {"no", "read", "write", "timer"} /\ misuse' \in {misuse, "timer"}
          /\ timer' = "pending" /\ UNCHANGED <<socket, life, streaming, answers, read, wire>>
      BY <1>2, UsesFacts DEF HandleTimer
    <2>2. CASE UNCHANGED <<updates, writes, streamed>>
      <3>1. TypeOK'
        BY <2>1, <2>2 DEF IInv, TypeOK, Operation
      <3> QED
        BY <2>1, <2>2, <3>1 DEF IInv, ProgressInv, TurnsInv
    <2>3. CASE /\ updates < MaxUpdates /\ updates' = updates + 1 /\ streamed' = TRUE
               /\ writes' = Append(writes, Write("update"))
      <3>1. Write("update") \in Pending /\ Write("update").half = 0
        BY DEF Write, Pending, Kind, Operation
      <3>2. /\ writes' \in Seq(Pending)
            /\ \A j \in DOMAIN writes' : \/ writes'[j] = Write("update")
                                         \/ j \in DOMAIN writes /\ writes'[j] = writes[j]
        BY <2>3, <3>1, Facts
      <3>3. updates' \in 0 .. MaxUpdates
        BY <2>3, Facts, SMT
      <3>4. TypeOK'
        BY <2>1, <2>3, <3>2, <3>3 DEF IInv, TypeOK, Pending, Operation
      <3>5. ProgressInv'
        <4>1. \A j \in DOMAIN writes' : writes'[j].op = "pending" => writes'[j].half < 2
          BY <3>1, <3>2, SMT DEF IInv, ProgressInv
        <4> QED
          BY <2>1, <4>1 DEF IInv, ProgressInv
      <3> QED
        BY <2>3, <3>4, <3>5 DEF IInv, TurnsInv
    <2> QED
      BY <1>2, <2>2, <2>3 DEF HandleTimer
  <1> QED
    BY <1>1, <1>2

LEMMA StutterStep ==
  ASSUME IInv, UNCHANGED vars
  PROVE  IInv'
  <1>1. TypeOK'
    BY DEF vars, socket, object, IInv, TypeOK
  <1> QED
    BY <1>1 DEF vars, socket, object, IInv, ProgressInv, TurnsInv

(* The inductive invariant holds in every state of a session, in whatever  *)
(* order its handlers are called.                                          *)
THEOREM Inductive == Spec => []IInv
  <1>1. IInv /\ [Next]_vars => IInv'
    BY SystemStep, SendStep, OpenStep, ReadStep, SentStep, TimerStep, StutterStep
       DEF Next, Sends, OnSent
  <1> QED
    BY InitIInv, <1>1, PTL DEF Spec

(* Types: no more answers than requests (handleRead).                      *)
THEOREM SessionTypes == Spec => []TypeOK
  BY Inductive, PTL DEF IInv

(* Without a stream the handlers of reads and writes neither delete the    *)
(* session twice nor use it once deleted (handleRead, handleWrite).        *)
THEOREM WithoutStreamOneOwner == Spec => []OneOwner
  <1>1. IInv => OneOwner
    BY DEF IInv, TurnsInv, OneOwner
  <1> QED
    BY <1>1, Inductive, PTL
-----------------------------------------------------------------------------
(* Stream or not, one answer is on its way at most, and none while the     *)
(* session reads; the halves on the wire are those of the answers so far,  *)
(* but for the halves that the last one still has to go.                   *)
AnswersInv ==
    /\ AnswersInOrder
    /\ \A i \in DOMAIN writes : writes[i].kind = "answer" =>
          /\ read = "none"
          /\ \A j \in DOMAIN writes : writes[j].kind = "answer" => i = j
          /\ writes[i].op = "pending" =>
                Len(wire["answer"]) = 2 * (answers - 1) + writes[i].half
          /\ writes[i].op = "ok" => Len(wire["answer"]) = 2 * answers
    /\ read \in {"pending", "ok"} => Len(wire["answer"]) = 2 * answers
    /\ life = "waiting" => /\ read = "none" /\ writes = <<>> /\ ~streaming
                           /\ answers = 0 /\ Len(wire["answer"]) = 0


(* What AnswersInv needs of a step that puts nothing on the wire and makes *)
(* no answer: the session does not begin to read, and each answer that is  *)
(* on its way was so before, with no less and no more of it sent.          *)
LEMMA AnswersKept ==
  ASSUME IInv, AnswersInv, UNCHANGED <<wire, answers, streaming>>, Len(writes') \in Nat,
         life' = "waiting" => life = "waiting" /\ writes' = writes /\ read' = read,
         read' = read \/ read' \in {"none", "error"} \/ (read' = "ok" /\ read = "pending"),
         \A i \in DOMAIN writes' : writes'[i].kind = "answer" => read' = "none",
         NEW f,
         \A i, j \in DOMAIN writes' : f[i] = f[j] => i = j,
         \A i \in DOMAIN writes' : writes'[i].kind = "answer" =>
            /\ f[i] \in DOMAIN writes /\ writes[f[i]].kind = "answer"
            /\ writes'[i].op \in {"pending", "ok"} =>
                  writes'[i].op = writes[f[i]].op /\ writes'[i].half = writes[f[i]].half
  PROVE  AnswersInv'
  <1>1. AnswersInOrder'
    BY DEF AnswersInv, AnswersInOrder
  <1>2. ASSUME NEW i \in DOMAIN writes', writes'[i].kind = "answer"
        PROVE  /\ read' = "none"
               /\ \A j \in DOMAIN writes' : writes'[j].kind = "answer" => i = j
               /\ writes'[i].op = "pending" =>
                     Len(wire'["answer"]) = 2 * (answers' - 1) + writes'[i].half
               /\ writes'[i].op = "ok" => Len(wire'["answer"]) = 2 * answers'
    <2>1. f[i] \in DOMAIN writes /\ writes[f[i]].kind = "answer"
      BY <1>2
    <2>2. \A j \in DOMAIN writes' : writes'[j].kind = "answer" => f[j] = f[i]
      BY <2>1, <1>2 DEF AnswersInv
    <2> QED
      BY <1>2, <2>1, <2>2 DEF AnswersInv
  <1>3. read' \in {"pending", "ok"} => Len(wire'["answer"]) = 2 * answers'
    BY DEF AnswersInv
  <1>4. life' = "waiting" => /\ read' = "none" /\ writes' = <<>> /\ ~streaming'
                             /\ answers' = 0 /\ Len(wire'["answer"]) = 0
    BY DEF AnswersInv
  <1> QED
    BY <1>1, <1>2, <1>3, <1>4 DEF AnswersInv

LEMMA AnswersInit == Init => AnswersInv
  <1> SUFFICES ASSUME Init PROVE AnswersInv
    OBVIOUS
  <1>1. /\ writes = <<>> /\ DOMAIN writes = {}
        /\ wire = [k \in Kind |-> <<>>] /\ wire["answer"] = <<>>
        /\ Len(wire["answer"]) = 0 /\ DOMAIN wire["answer"] = {}
    BY DEF Init, Kind
  <1> QED
    BY <1>1 DEF Init, AnswersInv, AnswersInOrder

(* The steps that leave the writes alone. *)
LEMMA AnswersQuiet ==
  ASSUME AnswersInv, UNCHANGED <<wire, answers, writes, life, streaming>>,
         read' = read \/ (read = "pending" /\ read' \in {"ok", "error"})
  PROVE  AnswersInv'
  BY DEF AnswersInv, AnswersInOrder

LEMMA AnswersOpen ==
  ASSUME AnswersInv, Accept \/ AcceptFails
  PROVE  AnswersInv'
  <1>1. writes' = <<>> /\ answers' = 0 /\ Len(wire'["answer"]) = 0 /\ wire' = wire /\ life' # "waiting"
    BY DEF Accept, AcceptFails, AnswersInv
  <1>2. DOMAIN writes' = {}
    BY <1>1
  <1> QED
    BY <1>1, <1>2 DEF AnswersInv, AnswersInOrder

(* The system sends a half of an answer or of an update. *)
LEMMA AnswersPut ==
  ASSUME IInv, IInv', AnswersInv, NEW i \in DOMAIN writes, PutHalf(i)
  PROVE  AnswersInv'
  <1> USE DEF socket, object
  <1> DEFINE w == writes[i]
             v == [w EXCEPT !.half = w.half + 1, !.op = IF w.half = 1 THEN "ok" ELSE "pending"]
  <1>1. /\ w \in Pending /\ w.op = "pending" /\ w.half \in {0, 1}
    <2>1. w.op = "pending"
      BY DEF PutHalf
    <2>2. w \in Pending /\ w.half < 2
      BY <2>1, Facts DEF IInv, ProgressInv
    <2> QED
      BY <2>1, <2>2, Facts, SMT DEF Pending
  <1>2. /\ writes' = [writes EXCEPT ![i] = v] /\ UNCHANGED <<read, life, answers, updates>>
        /\ wire' = [wire EXCEPT ![w.kind] = Append(@, Version(w.kind))]
    BY <1>1, Facts DEF PutHalf
  <1>3. v.kind = w.kind /\ v.half = w.half + 1 /\ v.op = IF w.half = 1 THEN "ok" ELSE "pending"
    BY <1>1 DEF Pending
  <1> HIDE DEF w, v
  <1>4. /\ DOMAIN writes' = DOMAIN writes /\ writes'[i] = v
        /\ \A j \in DOMAIN writes : j # i => writes'[j] = writes[j]
    BY <1>2, Facts
  <1>5. \A j \in DOMAIN writes : writes'[j].kind = writes[j].kind
    BY <1>3, <1>4 DEF w
  <1>6. life' # "waiting"
    <2>1. writes # <<>>
      BY Facts
    <2> QED
      BY <1>2, <2>1 DEF AnswersInv
  <1>7. wire \in [Kind -> Seq(Nat)] /\ w.kind \in Kind /\ "answer" \in Kind
    BY <1>1 DEF IInv, TypeOK, Pending, Kind
  <1>8. CASE w.kind = "answer"
    <2> DEFINE a == wire["answer"]
    <2>1. wire'["answer"] = Append(a, answers) /\ a \in Seq(Nat)
      BY <1>2, <1>7, <1>8 DEF Version
    <2>2. /\ read = "none" /\ \A j \in DOMAIN writes : writes[j].kind = "answer" => i = j
          /\ Len(a) = 2 * (answers - 1) + w.half
      BY <1>1, <1>8 DEF AnswersInv, w
    <2>3. answers \in Nat /\ Len(a) \in Nat
      BY <2>1, Facts
    <2> HIDE DEF a
    <2>4. /\ Len(wire'["answer"]) = Len(a) + 1 /\ wire'["answer"][Len(a) + 1] = answers
          /\ \A k \in 1 .. Len(a) : wire'["answer"][k] = a[k]
          /\ DOMAIN wire'["answer"] = 1 .. Len(a) + 1 /\ DOMAIN a = 1 .. Len(a)
      BY <2>1
    <2>5. answers = (Len(a) + 1 + 1) \div 2
      <3>1. Len(a) + 1 + 1 = 2 * answers + w.half
        BY <1>1, <2>2, <2>3
      <3>2. (2 * answers + w.half) \div 2 = answers
        BY <1>1, <2>3
      <3> QED
        BY <3>1, <3>2
    <2>6. AnswersInOrder'
      <3>1. \A k \in 1 .. Len(a) : a[k] = (k + 1) \div 2
        BY <2>4 DEF AnswersInv, AnswersInOrder, a
      <3>2. \A k \in 1 .. Len(a) + 1 : k \in 1 .. Len(a) \/ k = Len(a) + 1
        BY <2>3
      <3>3. \A k \in DOMAIN wire'["answer"] : wire'["answer"][k] = (k + 1) \div 2
        BY <2>4, <2>5, <3>1, <3>2
      <3> QED
        BY <3>3 DEF AnswersInOrder
    <2>7. \A j \in DOMAIN writes' : writes'[j].kind = "answer" => j = i
      BY <1>4, <1>5, <2>2
    <2>8. /\ v.op = "pending" => Len(a) + 1 = 2 * (answers - 1) + v.half
          /\ v.op = "ok" => Len(a) + 1 = 2 * answers
      BY <1>1, <1>3, <2>2, <2>3
    <2> QED
      BY <1>2, <1>4, <1>6, <2>2, <2>4, <2>6, <2>7, <2>8 DEF AnswersInv
  <1>9. CASE w.kind # "answer"
    <2>1. wire'["answer"] = wire["answer"]
      BY <1>2, <1>7, <1>9
    <2>2. \A j \in DOMAIN writes : writes'[j].kind = "answer" => writes'[j] = writes[j]
      BY <1>3, <1>4, <1>9
    <2>3. AnswersInOrder'
      BY <2>1 DEF AnswersInv, AnswersInOrder
    <2>4. ASSUME NEW j \in DOMAIN writes, writes'[j].kind = "answer"
          PROVE  /\ read = "none"
                 /\ \A k \in DOMAIN writes : writes'[k].kind = "answer" => j = k
                 /\ writes'[j].op = "pending" =>
                       Len(wire["answer"]) = 2 * (answers - 1) + writes'[j].half
                 /\ writes'[j].op = "ok" => Len(wire["answer"]) = 2 * answers
      BY <1>5, <2>2, <2>4 DEF AnswersInv
    <2> QED
      BY <1>2, <1>4, <1>6, <2>1, <2>3, <2>4 DEF AnswersInv
  <1> QED
    BY <1>8, <1>9

(* A write that fails is no longer on its way. *)
LEMMA AnswersFail ==
  ASSUME IInv, AnswersInv, NEW i \in DOMAIN writes, WriteFails(i)
  PROVE  AnswersInv'
  <1> USE DEF socket, object
  <1>1. /\ writes' = [writes EXCEPT ![i] = [writes[i] EXCEPT !.op = "error"]]
        /\ UNCHANGED <<wire, answers, read, life>> /\ writes[i] \in Pending
    BY Facts DEF WriteFails
  <1>2. /\ DOMAIN writes' = DOMAIN writes
        /\ \A j \in DOMAIN writes : j # i => writes'[j] = writes[j]
        /\ writes'[i].kind = writes[i].kind /\ writes'[i].op = "error"
    BY <1>1, Facts DEF Pending
  <1>3. life' # "waiting"
    <2>1. writes # <<>>
      BY Facts
    <2> QED
      BY <1>1, <2>1 DEF AnswersInv
  <1> QED
    BY <1>1, <1>2, <1>3 DEF AnswersInv, AnswersInOrder

(* The answer to a request begins when the one before it is on the wire. *)
LEMMA AnswersRead ==
  ASSUME IInv, AnswersInv, HandleRead
  PROVE  AnswersInv'
  <1> USE DEF socket, object
  <1> DEFINE n == Len(writes) + 1
  <1>1. /\ writes' = Append(writes, Write("answer")) /\ read' = "none" /\ read = "ok"
        /\ answers' = answers + 1 /\ UNCHANGED <<wire, life>>
    BY DEF HandleRead
  <1>2. Write("answer").kind = "answer" /\ Write("answer").half = 0 /\ Write("answer").op = "pending"
    BY DEF Write
  <1>3. /\ DOMAIN writes' = 1 .. n /\ writes'[n] = Write("answer")
        /\ \A j \in DOMAIN writes' : j = n \/ (j \in DOMAIN writes /\ writes'[j] = writes[j])
    BY <1>1, Facts
  <1>4. \A j \in DOMAIN writes : writes[j].kind # "answer"
    BY <1>1 DEF AnswersInv
  <1>5. Len(wire["answer"]) = 2 * answers /\ answers' - 1 = answers /\ life # "waiting"
    <2>1. Len(wire["answer"]) = 2 * answers
      BY <1>1 DEF AnswersInv
    <2>2. life # "waiting"
      BY <1>1 DEF AnswersInv
    <2> QED
      BY <1>1, <2>1, <2>2, Facts
  <1>6. \A j \in DOMAIN writes' : writes'[j].kind = "answer" => j = n
    BY <1>3, <1>4
  <1>7. Len(wire["answer"]) = 2 * (answers' - 1) + 0
    BY <1>1, <1>5, Facts
  <1> HIDE DEF n
  <1> QED
    BY <1>1, <1>2, <1>3, <1>5, <1>6, <1>7 DEF AnswersInv, AnswersInOrder

(* A session that is deleted because of its read, or of a write. *)
LEMMA AnswersReadError ==
  ASSUME IInv, AnswersInv, HandleReadError
  PROVE  AnswersInv'
  <1> USE DEF socket, object
  <1>1. Delete("read", "none", writes) /\ read = "error" /\ UNCHANGED <<answers, wire>>
    BY DEF HandleReadError
  <1>2. /\ life' = "deleted" /\ read' = "none" /\ DOMAIN writes' = DOMAIN writes
        /\ \A j \in DOMAIN writes : writes'[j].kind = writes[j].kind
    <2>1. "none" \in Operation \cup {"none"} /\ "read" \in {"read", "write"} /\ writes \in Seq(Pending)
      BY Facts
    <2> QED
      BY <1>1, <2>1, Deletes, Zenon
  <1>3. \A j \in DOMAIN writes' : writes'[j].kind # "answer"
    BY <1>1, <1>2 DEF AnswersInv
  <1> QED
    BY <1>1, <1>2, <1>3 DEF AnswersInv, AnswersInOrder

(* A write of the session is over. *)
LEMMA AnswersSent ==
  ASSUME IInv, IInv', AnswersInv, NEW i \in DOMAIN writes,
         HandleWrite(i) \/ HandleWriteError(i) \/ HandleStreamWrite(i)
  PROVE  AnswersInv'
  <1> USE DEF socket, object
  <1> DEFINE ws == RemoveAt(writes, i)
             f == [j \in DOMAIN ws |-> IF j < i THEN j ELSE j + 1]
  <1>1. /\ ws \in Seq(Pending) /\ DOMAIN ws = 1 .. Len(ws) /\ Len(ws) \in Nat
        /\ \A j \in DOMAIN ws : f[j] \in DOMAIN writes /\ f[j] # i /\ ws[j] = writes[f[j]]
    <2>1. writes \in Seq(Pending)
      BY Facts
    <2>2. /\ ws \in Seq(Pending)
          /\ \A j \in DOMAIN ws : LET k == IF j < i THEN j ELSE j + 1 IN
                                 k \in DOMAIN writes /\ k # i /\ ws[j] = writes[k]
      BY <2>1, Removes
    <2> QED
      BY <2>2
  <1>2. \A j, k \in DOMAIN ws : f[j] = f[k] => j = k
    <2>1. i \in Int /\ \A j \in DOMAIN ws : j \in Int
      BY <1>1, Facts
    <2> QED
      BY <2>1
  <1> HIDE DEF ws, f
  <1>3. life # "waiting"
    <2>1. writes # <<>>
      BY Facts
    <2> QED
      BY <2>1 DEF AnswersInv
  <1>4. \A j \in DOMAIN ws : ws[j].kind = "answer" => read = "none"
    BY <1>1 DEF AnswersInv
  <1>5. CASE HandleWrite(i)
    <2>1. /\ writes' = ws /\ read' = "pending" /\ UNCHANGED <<wire, answers, life>>
          /\ writes[i].kind = "answer" /\ writes[i].op = "ok"
      BY <1>5 DEF HandleWrite, ws
    <2>2. Len(wire["answer"]) = 2 * answers
      BY <2>1 DEF AnswersInv
    <2>3. \A j \in DOMAIN ws : ws[j].kind # "answer"
      BY <1>1, <2>1 DEF AnswersInv
    <2> QED
      BY <1>3, <2>1, <2>2, <2>3 DEF AnswersInv, AnswersInOrder
  <1>6. CASE HandleWriteError(i)
    <2>1. Delete("write", read, ws) /\ UNCHANGED <<wire, answers, streaming>>
      BY <1>6 DEF HandleWriteError, ws
    <2>2. /\ life' = "deleted" /\ DOMAIN writes' = DOMAIN ws
          /\ read' = "none" <=> read = "none"
          /\ \A j \in DOMAIN ws : /\ writes'[j].kind = ws[j].kind
                                  /\ writes'[j].op = "pending" => writes'[j] = ws[j]
      <3>1. read \in Operation \cup {"none"} /\ "write" \in {"read", "write"} /\ ws \in Seq(Pending)
        BY <1>1 DEF IInv, TypeOK
      <3> QED
        BY <2>1, <3>1, Deletes, Zenon
    <2>3. /\ read' = read \/ read' \in {"none", "error"}
          /\ \A j \in DOMAIN ws : writes'[j].op \in {"pending", "ok"} => writes'[j] = ws[j]
      <3>1. CASE life = "deleted"
        BY <2>1, <3>1 DEF Delete
      <3>2. CASE life # "deleted"
        <4>1. read' = Aborted(read) /\ writes' = [j \in DOMAIN ws |-> [ws[j] EXCEPT !.op = Aborted(@)]]
          BY <2>1, <3>2 DEF Delete
        <4>2. read' = read \/ read' = "error"
          BY <4>1 DEF Aborted
        <4>3. ASSUME NEW j \in DOMAIN ws, writes'[j].op \in {"pending", "ok"}
              PROVE  writes'[j] = ws[j]
          <5>1. ws[j] \in Pending /\ writes'[j] = [ws[j] EXCEPT !.op = Aborted(ws[j].op)]
            BY <1>1, <4>1
          <5>2. writes'[j].op = Aborted(ws[j].op)
            BY <5>1 DEF Pending
          <5>3. Aborted(ws[j].op) = ws[j].op
            BY <4>3, <5>2 DEF Aborted
          <5> QED
            BY <5>1, <5>3 DEF Pending
        <4> QED
          BY <4>2, <4>3
      <3> QED
        BY <3>1, <3>2
    <2>4. Len(writes') \in Nat
      BY Facts, IInv' DEF IInv, TypeOK, Pending
    <2>5. \A j \in DOMAIN writes' : writes'[j].kind = "answer" => read' = "none"
      BY <1>4, <2>2
    <2>6. \A j, k \in DOMAIN writes' : f[j] = f[k] => j = k
      BY <1>2, <2>2
    <2>7. \A j \in DOMAIN writes' : writes'[j].kind = "answer" =>
            /\ f[j] \in DOMAIN writes /\ writes[f[j]].kind = "answer"
            /\ writes'[j].op \in {"pending", "ok"} =>
                  writes'[j].op = writes[f[j]].op /\ writes'[j].half = writes[f[j]].half
      BY <1>1, <2>2, <2>3
    <2>8. life' = "waiting" => life = "waiting" /\ writes' = writes /\ read' = read
      BY <2>2
    <2>9. read' = read \/ read' \in {"none", "error"} \/ (read' = "ok" /\ read = "pending")
      BY <2>3
    <2> QED
      BY <2>1, <2>4, <2>5, <2>6, <2>7, <2>8, <2>9, AnswersKept
  <1>7. CASE HandleStreamWrite(i)
    <2>1. /\ writes' = ws /\ wire' = wire /\ answers' = answers /\ read' = read /\ life' = life
          /\ streaming' = streaming
      BY <1>7 DEF HandleStreamWrite, ws
    <2>2. Len(writes') \in Nat
      BY <1>1, <2>1
    <2>3. \A j \in DOMAIN writes' : writes'[j].kind = "answer" => read' = "none"
      BY <1>4, <2>1
    <2>4. \A j, k \in DOMAIN writes' : f[j] = f[k] => j = k
      BY <1>2, <2>1
    <2>5. \A j \in DOMAIN writes' : writes'[j].kind = "answer" =>
            /\ f[j] \in DOMAIN writes /\ writes[f[j]].kind = "answer"
            /\ writes'[j].op \in {"pending", "ok"} =>
                  writes'[j].op = writes[f[j]].op /\ writes'[j].half = writes[f[j]].half
      BY <1>1, <2>1
    <2>6. life' = "waiting" => life = "waiting" /\ writes' = writes /\ read' = read
      BY <1>3, <2>1
    <2> QED
      BY <2>1, <2>2, <2>3, <2>4, <2>5, <2>6, AnswersKept
  <1> QED
    BY <1>5, <1>6, <1>7

(* An update is sent beside the answer that is on its way, if there is one. *)
LEMMA AnswersTimer ==
  ASSUME IInv, AnswersInv, HandleTimer
  PROVE  AnswersInv'
  <1> USE DEF socket, object
  <1>1. UNCHANGED <<wire, answers, read, life, streaming>>
    BY DEF HandleTimer
  <1>2. CASE writes' = writes
    BY <1>1, <1>2, AnswersQuiet
  <1>3. CASE writes' = Append(writes, Write("update")) /\ streaming
    <2>1. Write("update").kind = "update"
      BY DEF Write
    <2>2. /\ DOMAIN writes \subseteq DOMAIN writes' /\ \A j \in DOMAIN writes : writes'[j] = writes[j]
          /\ \A j \in DOMAIN writes' : writes'[j].kind = "answer" => j \in DOMAIN writes
      BY <1>3, <2>1, Facts
    <2>3. life # "waiting"
      BY <1>3 DEF AnswersInv
    <2> QED
      BY <1>1, <2>2, <2>3 DEF AnswersInv, AnswersInOrder
  <1> QED
    BY <1>2, <1>3 DEF HandleTimer

LEMMA AnswersStep ==
  ASSUME IInv, IInv', AnswersInv, [Next]_vars
  PROVE  AnswersInv'
  <1> USE DEF socket, object
  <1>1. CASE Request \/ Leave \/ Expire \/ Reads \/ HandleTimerError \/ UNCHANGED vars
    <2>1. /\ UNCHANGED <<wire, answers, writes, life, streaming>>
          /\ read' = read \/ (read = "pending" /\ read' \in {"ok", "error"})
      BY <1>1 DEF Request, Leave, Expire, Reads, Arrive, ReadFails, HandleTimerError, vars
    <2> QED
      BY <2>1, AnswersQuiet
  <1> QED
    BY <1>1, AnswersOpen, AnswersPut, AnswersFail, AnswersRead, AnswersReadError, AnswersSent,
       AnswersTimer DEF Next, Sends, OnRead, OnSent

(* Every answer goes over the wire once, whole, and in the order of the    *)
(* requests, with or without a stream (handleRead, handleWrite).           *)
THEOREM AnswersGoInOrder == Spec => []AnswersInOrder
  <1>1. IInv /\ IInv' /\ AnswersInv /\ [Next]_vars => AnswersInv'
    BY AnswersStep
  <1>2. AnswersInv => AnswersInOrder
    BY DEF AnswersInv
  <1> QED
    BY AnswersInit, <1>1, <1>2, Inductive, PTL DEF Spec
=============================================================================
