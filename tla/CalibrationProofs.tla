-------------------------- MODULE CalibrationProofs -------------------------
(***************************************************************************)
(* Theorems about Calibration, for any number of boards and of samples,    *)
(* and any delays that the assumptions allow.                              *)
(*                                                                         *)
(* That the lamps are lit one at a time and that what is measured is       *)
(* settled rest on where both ends of a handshake are, on the answer being *)
(* sent before the sender's delay(WAIT) is over, on the handshakes being   *)
(* barriers, and on how far apart the boards have started.                 *)
(*                                                                         *)
(* A handshake is named by its sender, its phase and its sample.  An       *)
(* answer must arrive: a board that has answered takes the repeated        *)
(* request for the one of the next phase.                                  *)
(***************************************************************************)
EXTENDS Calibration, TLAPS

USE NAssumption, SamplesAssumption, DelaysAssumption, SkewAssumption

RepliesArrive == "ACK" \notin Lossy

(* The steps before the first handshake, those of a board that sends and   *)
(* those of a board that has a request.                                    *)
Outside   == {"idle", "install", "unready", "begin"}
Offering  == {"poll", "send", "clear", "next"}
Sending   == Offering \cup {"target", "endturn"}
Answered  == {"replied", "external"}
Answering == {"take", "reply", "replied"}

SampleIndex == 0 .. Samples - 1

(* The handshakes that s sends. *)
Handshake(s, p, k) ==
    /\ p \in {"ext", "on", "off"} /\ k \in SampleIndex
    /\ p = "ext" => s = MASTER /\ k = 0

(* The sample that n is at: the dark is measured once, before the first. *)
Sample(n) == IF phase[n] = "ext" THEN 0 ELSE sample[n]

(* Where the control is determines whose turn a board believes it is, whom *)
(* it serves, and its lamp.                                                *)
Structure(n) ==
    /\ pc[n] \in Outside => phase[n] = "ext" /\ sender[n] \in {0, N}
    /\ timer[n] # 0 => pc[n] \in {"settle", "poll"}
    /\ phase[n] = "ext" => sample[n] \in {0, Samples}
    /\ phase[n] = "ext" /\ pc[n] \notin Outside => sender[n] = MASTER
    /\ pc[n] \notin Outside => (sender[n] = N <=> pc[n] = "done")
    /\ pc[n] = "done" <=> phase[n] # "ext" /\ sample[n] = Samples
    /\ pc[n] = "done" => phase[n] = "off"
    /\ pc[n] \in Sending => sender[n] = n
    /\ pc[n] = "settle" => sender[n] = n \/ phase[n] = "ext"
    /\ pc[n] \in Answering \cup {"wait"} => sender[n] \in Node \ {n}
    /\ pc[n] \in Offering => receiver[n] \in Node \ {n}
    /\ pc[n] = "endturn" => receiver[n] = N
    /\ pc[n] = "external" => phase[n] = "ext" /\ (n = MASTER => receiver[n] = N)
    /\ handler[n] = IF pc[n] \in {"idle", "install"} THEN "communication" ELSE "calibration"

Lamp(n) ==
    /\ led[n] = IF pc[n] \in Outside THEN Controlled
                ELSE IF phase[n] = "on" /\ sender[n] = n THEN Lit(sample[n]) ELSE Off
    /\ since[n] # Settle => pc[n] = "settle"
    /\ pc[n] = "settle" => since[n] + timer[n] >= Settle /\ timer[n] <= WaitLed

(* `ready' is set only while its board can still consume it. *)
ReadyDiscipline(n) ==
    /\ ready[n] => pc[n] \in {"settle", "wait", "take", "poll", "clear"}
    /\ pc[n] \in {"take", "clear"} => ready[n]
    /\ ready[n] /\ pc[n] = "settle" => n # MASTER /\ phase[n] = "ext"

(* m has accepted the request of the handshake it is in. *)
Engaged(m) ==
    /\ sender[m] # m
    /\ \/ pc[m] \in {"reply"} \cup Answered
       \/ ready[m] /\ pc[m] \in {"settle", "wait", "take"}

(* While a receiver is engaged its sender is in the delay that follows the *)
(* transmission: it cannot repeat what is being answered.                  *)
SenderDelays(m) ==
    Engaged(m) =>
        LET s == sender[m] IN
        /\ s \in Node \ {m}
        /\ pc[s] = "poll" /\ timer[s] > 0
        /\ sender[s] = s /\ receiver[s] = m
        /\ phase[s] = phase[m] /\ Sample(s) = Sample(m)
        /\ pc[m] = "settle" => timer[m] < timer[s]
        /\ pc[m] \in Answered => ready[s]

(* n is in the handshake, or it has left it. *)
At(n, s, p, k) ==
    pc[n] \notin Outside /\ phase[n] = p /\ sender[n] = s /\ Sample(n) = k

Past(n, s, p, k) ==
    /\ phase[n] # "ext"
    /\ \/ p = "ext"
       \/ Sample(n) > k
       \/ Sample(n) = k /\ sender[n] > s
       \/ Sample(n) = k /\ sender[n] = s /\ p = "on" /\ phase[n] = "off"

(* m has had the request, and s has had the answer. *)
Has(m, s, p, k) == Past(m, s, p, k) \/ (At(m, s, p, k) /\ Engaged(m))

Served(s, m, p, k) ==
    \/ Past(s, s, p, k)
    \/ /\ At(s, s, p, k)
       /\ pc[s] \in Sending \cup {"external"}
       /\ \/ m < receiver[s]
          \/ m = receiver[s] /\ (ready[s] \/ pc[s] = "next")

Replied(m, s, p, k) ==
    Past(m, s, p, k) \/ (At(m, s, p, k) /\ pc[m] \in Answered /\ sender[m] # m)

(* The handshakes are barriers: s goes on only when m has had the request, *)
(* and m only when s has had the answer.                                   *)
Barrier(s, m) ==
    \A p \in {"ext", "on", "off"}, k \in SampleIndex : Handshake(s, p, k) =>
        /\ Served(s, m, p, k) => Has(m, s, p, k)
        /\ Replied(m, s, p, k) => Served(s, m, p, k)

(* No board is left behind: until the last has begun, the others have most *)
(* of their first delay before them; and when the master ends its own, so  *)
(* have all lamps settled.                                                 *)
Skew(n) ==
    /\ pc[n] \in Outside =>
         \A m \in Node : pc[m] \notin Outside =>
            pc[m] = "settle" /\ phase[m] = "ext" /\ timer[m] + lag >= WaitLed
    /\ pc[n] = "settle" /\ phase[n] = "ext" /\ pc[MASTER] \notin Outside =>
         IF phase[MASTER] = "ext" /\ pc[MASTER] = "settle"
           THEN /\ since[n] + timer[MASTER] >= Settle
                /\ timer[n] <= timer[MASTER] + MaxSkew
           ELSE since[n] = Settle /\ timer[n] <= MaxSkew

(* What has been measured so far, and what the next request asks for. *)
OnlyLamp(s, k) == [AllOff EXCEPT ![s] = Lit(k)]

Measured(n, s, k) ==
    IF s = n THEN Past(n, n, "on", k) \/ (At(n, n, "on", k) /\ pc[n] # "settle")
             ELSE Has(n, s, "on", k)

DarkMeasured(n) ==
    IF n = MASTER THEN pc[n] \notin Outside /\ (phase[n] = "ext" => pc[n] # "settle")
                  ELSE Has(n, MASTER, "ext", 0)

Data(n) ==
    /\ DarkMeasured(n) => dark[n] = AllOff
    /\ \A s \in Node, k \in SampleIndex : Measured(n, s, k) => Y[n][s][k] = OnlyLamp(s, k)

Request(n) ==
    pc[n] \notin Outside =>
        /\ state[n] = "ext" <=> phase[n] = "ext" /\ pc[n] # "external"
        /\ state[n] = "off" <=> /\ phase[n] # "ext" /\ sender[n] \in Node \ {n}
                                /\ phase[n] = "on" <=> Engaged(n)

TypeInv      == TypeOK /\ \A n \in Node : Structure(n) /\ Lamp(n)
HandshakeInv == \A n \in Node : ReadyDiscipline(n) /\ SenderDelays(n)
BarrierInv   == \A n, m \in Node : n # m => Barrier(n, m)
SkewInv      == \A n \in Node : Skew(n)
DataInv      == \A n \in Node : Data(n) /\ Request(n)

IInv == TypeInv /\ HandshakeInv /\ BarrierInv /\ SkewInv /\ DataInv

-----------------------------------------------------------------------------
(* Types and control structure. *)

LEMMA NodeFacts ==
    /\ MASTER \in Node /\ MASTER = 0
    /\ \A n \in Node : n \in 0 .. N /\ n + 1 \in 0 .. N /\ n # N
  BY DEF Node, MASTER

LEMMA TurnFacts == \A r \in 0 .. N : r # N => r \in Node
  BY DEF Node

LEMMA SampleFacts ==
    /\ 0 \in SampleIndex /\ 0 # Samples
    /\ \A k \in 0 .. Samples : k # Samples => k \in SampleIndex /\ k + 1 \in 0 .. Samples
    /\ \A k \in SampleIndex : Lit(k) \in 1 .. Samples /\ Lit(k) # Off /\ k # Samples
    /\ Off \in Level /\ Controlled \in Level /\ Off # Controlled
    /\ \A k \in SampleIndex : Lit(k) \in Level /\ Lit(k) # Controlled
  BY DEF SampleIndex, Lit, Off, Level, Controlled

LEMMA TypeInit == Init => TypeInv
  <1> SUFFICES ASSUME Init PROVE TypeInv
    OBVIOUS
  <1>1. Nothing \in Vector /\ NoSamples \in [Node -> [0 .. Samples - 1 -> Vector]]
    <2>1. Nothing \in Vector
      BY DEF Nothing, Vector
    <2> QED
      BY <2>1, SampleFacts DEF NoSamples, SampleIndex
  <1>2. TypeOK
    <2>1. /\ 0 \in 0 .. N /\ N \in 0 .. N /\ 0 \in 0 .. Samples /\ Settle \in 0 .. Settle
          /\ 0 \in Nat /\ 0 \in 0 .. MaxSkew
      OBVIOUS
    <2> QED
      BY <1>1, <2>1, SampleFacts DEF Init, TypeOK, Callback, Location
  <1>3. \A n \in Node : Structure(n)
    BY NodeFacts, SampleFacts DEF Init, Structure, Sending, Answering, Offering, Outside
  <1>4. \A n \in Node : Lamp(n)
    BY DEF Init, Lamp, Outside
  <1> QED
    BY <1>2, <1>3, <1>4 DEF TypeInv

(* What a sensor sees is a vector. *)
LEMMA ReadingType == TypeOK => Reading \in Vector
  <1> SUFFICES ASSUME TypeOK PROVE Reading \in Vector
    OBVIOUS
  <1>1. led \in Vector
    <2>1. Level \subseteq -2 .. Samples + 1
      BY DEF Level
    <2> QED
      BY <2>1 DEF TypeOK, Vector
  <1>2. Blurred \in Vector
    BY DEF Blurred, Vector
  <1> QED
    BY <1>1, <1>2 DEF Reading

(* A measurement is put in its place. *)
Table == [Node -> [Node -> [0 .. Samples - 1 -> Vector]]]

Put(M, m, s, k, v) == [M EXCEPT ![m][s][k] = v]

IsPut(Z, M, m, s, k, v) ==
    /\ Z \in Table
    /\ Z[m][s][k] = v
    /\ \A p, q \in Node, j \in SampleIndex :
          p # m \/ q # s \/ j # k => Z[p][q][j] = M[p][q][j]

LEMMA Puts ==
    ASSUME NEW M \in Table, NEW m \in Node, NEW s \in Node, NEW k \in SampleIndex,
           NEW v \in Vector
    PROVE  IsPut(Put(M, m, s, k, v), M, m, s, k, v)
  <1> USE DEF SampleIndex, Table, Put
  <1> DEFINE Z == Put(M, m, s, k, v)
             R == [0 .. Samples - 1 -> Vector]
             a == [M[m][s] EXCEPT ![k] = v]
             b == [M[m] EXCEPT ![s] = a]
             c == [M EXCEPT ![m] = b]
  <1>1. M[m] \in [Node -> R] /\ M[m][s] \in R
    OBVIOUS
  <1>2. a \in R /\ a[k] = v /\ \A j \in 0 .. Samples - 1 : j # k => a[j] = M[m][s][j]
    BY <1>1
  <1> HIDE DEF R, a
  <1>3. b \in [Node -> R] /\ b[s] = a /\ \A q \in Node : q # s => b[q] = M[m][q]
    BY <1>1, <1>2
  <1>4. M \in [Node -> [Node -> R]]
    BY DEF R
  <1> HIDE DEF b
  <1>5. c \in [Node -> [Node -> R]] /\ c[m] = b /\ \A p \in Node : p # m => c[p] = M[p]
    BY <1>3, <1>4
  <1>6. Z = c
    BY DEF c, b, a, Z
  <1> HIDE DEF c, Z
  <1>7. Z[m][s][k] = v
    BY <1>2, <1>3, <1>5, <1>6
  <1>8. ASSUME NEW p \in Node, NEW q \in Node, NEW j \in SampleIndex, p # m \/ q # s \/ j # k
        PROVE  Z[p][q][j] = M[p][q][j]
    <2>1. CASE p # m
      BY <1>5, <1>6, <2>1
    <2>2. CASE p = m /\ q # s
      BY <1>3, <1>5, <1>6, <2>2
    <2>3. CASE p = m /\ q = s /\ j # k
      BY <1>2, <1>3, <1>5, <1>6, <2>3
    <2> QED
      BY <1>8, <2>1, <2>2, <2>3
  <1> QED
    BY <1>5, <1>6, <1>7, <1>8 DEF R, Z, IsPut

(* A board that the callback finds with another's turn has a sample, or    *)
(* has still that of the run before.                                       *)
LEMMA AcceptsFacts ==
    ASSUME TypeInv, NEW n \in Node, NEW m \in Node, Accepts(m, n, "SYN")
    PROVE  /\ sender[m] = n /\ m # n /\ pc[m] \notin {"idle", "install"}
           /\ Sample(m) \in SampleIndex /\ (phase[m] # "ext" => sample[m] \in SampleIndex)
           /\ sample[m] \in SampleIndex \/ (sample[m] = Samples /\ n = MASTER)
  <1>1. Structure(m) /\ sample[m] \in 0 .. Samples
    BY DEF TypeInv, TypeOK
  <1>2. sender[m] = n /\ m # n /\ handler[m] = "calibration" /\ n # N
    BY NodeFacts DEF Accepts
  <1>3. phase[m] # "ext" => sample[m] # Samples
    BY <1>1, <1>2 DEF Structure, Outside
  <1>4. pc[m] \notin {"idle", "install"}
    BY <1>1, <1>2 DEF Structure
  <1>5. phase[m] = "ext" => n = MASTER
    BY <1>1, <1>2, NodeFacts DEF Structure
  <1> QED
    BY <1>1, <1>2, <1>3, <1>4, <1>5, SampleFacts DEF Sample

(* What a request does to the board that accepts it. *)
LEMMA MeasureFacts ==
    ASSUME TypeInv, NEW n \in Node, NEW m \in Node, Accepts(m, n, "SYN"), Measure(m)
    PROVE  /\ state' \in [Node -> {"ext", "on", "off"}]
           /\ dark' \in [Node -> Vector]
           /\ Y' \in Table
           /\ \A p \in Node : p # m => state'[p] = state[p] /\ dark'[p] = dark[p]
           /\ state[m] = "ext" => dark'[m] = Reading /\ state'[m] = "ext" /\ Y' = Y
           /\ state[m] = "on" => dark' = dark /\ state'[m] = "off"
           /\ state[m] = "on" /\ phase[m] # "ext" => Y'[m][n][sample[m]] = Reading
           /\ state[m] = "off" => dark' = dark /\ state'[m] = "on" /\ Y' = Y
           /\ phase[m] # "ext" => \A p, q \in Node, j \in SampleIndex :
                 p # m \/ q # n \/ j # sample[m] => Y'[p][q][j] = Y[p][q][j]
  <1>1. /\ state \in [Node -> {"ext", "on", "off"}] /\ dark \in [Node -> Vector]
        /\ Y \in Table /\ Reading \in Vector
    BY ReadingType DEF TypeInv, TypeOK, Table
  <1>2. sender[m] = n /\ (phase[m] # "ext" => sample[m] \in SampleIndex)
    BY AcceptsFacts
  <1>3. CASE state[m] = "ext"
    BY <1>1, <1>3 DEF Measure
  <1>4. CASE state[m] = "on"
    <2> PICK s \in Node, k \in SampleIndex :
               /\ Place(m) = <<s, k>>
               /\ phase[m] # "ext" => s = n /\ k = sample[m]
      <3>1. CASE sample[m] \in SampleIndex
        <4>1. Place(m) = <<n, sample[m]>>
          BY <1>2, <3>1 DEF Place, SampleIndex
        <4> QED
          BY <3>1, <4>1
      <3>2. CASE sample[m] = Samples /\ n = MASTER
        <4>1. Place(m) = <<1, 0>>
          BY <1>2, <3>2, NodeFacts DEF Place
        <4>2. 1 \in Node /\ phase[m] = "ext"
          BY <1>2, <3>2, SampleFacts DEF Node
        <4> QED
          BY <4>1, <4>2, SampleFacts
      <3> QED
        BY <3>1, <3>2, AcceptsFacts
    <2>1. /\ Y' = Put(Y, m, s, k, Reading)
          /\ state' = [state EXCEPT ![m] = "off"] /\ dark' = dark
      BY <1>4 DEF Measure, PutReading, Put
    <2>2. IsPut(Put(Y, m, s, k, Reading), Y, m, s, k, Reading)
      BY <1>1, Puts
    <2>3. IsPut(Y', Y, m, s, k, Reading)
      BY <2>1, <2>2
    <2>4. /\ state' \in [Node -> {"ext", "on", "off"}] /\ state'[m] = "off"
          /\ \A p \in Node : p # m => state'[p] = state[p]
      BY <1>1, <2>1
    <2> QED
      BY <1>1, <1>4, <2>1, <2>3, <2>4 DEF IsPut
  <1>5. CASE state[m] = "off"
    BY <1>1, <1>5 DEF Measure
  <1> QED
    BY <1>1, <1>3, <1>4, <1>5

(* What a transmission changes: its sender delays, and the receiver may    *)
(* have accepted the request.                                              *)
LEMMA TransmitFrame ==
    ASSUME TypeInv, NEW n \in Node, NEW a, Transmit(n, a)
    PROVE  /\ pc[n] = "send" /\ sender[n] = n /\ receiver[n] \in Node \ {n}
           /\ pc' = [pc EXCEPT ![n] = "poll"]
           /\ timer' = [timer EXCEPT ![n] = Wait]
           /\ UNCHANGED <<handler, phase, sender, receiver, sample, lamps, lag>>
           /\ \/ UNCHANGED exchanged
              \/ /\ Accepts(receiver[n], n, "SYN") /\ Measure(receiver[n])
                 /\ ready' = [ready EXCEPT ![receiver[n]] = TRUE]
  <1>1. pc[n] = "send" /\ Structure(n)
    BY DEF Transmit, TypeInv
  <1>2. sender[n] = n /\ receiver[n] \in Node \ {n}
    BY <1>1 DEF Structure, Sending, Offering
  <1> QED
    BY <1>1, <1>2 DEF Transmit, SendPacket, OnReceive, Goto

(* What an answer changes. *)
LEMMA ReplyFrame ==
    ASSUME TypeInv, NEW n \in Node, NEW a, Reply(n, a)
    PROVE  /\ pc[n] = "reply" /\ sender[n] \in Node \ {n}
           /\ pc' = [pc EXCEPT ![n] = "replied"]
           /\ UNCHANGED <<handler, phase, sender, receiver, measured, sample, lamps, timer, lag>>
           /\ \/ ready' = ready /\ ~(a /\ Accepts(sender[n], n, "ACK"))
              \/ ready' = [ready EXCEPT ![sender[n]] = TRUE]
  <1>1. pc[n] = "reply" /\ Structure(n)
    BY DEF Reply, TypeInv
  <1>2. sender[n] \in Node \ {n}
    BY <1>1 DEF Structure, Answering
  <1> QED
    BY <1>1, <1>2 DEF Reply, SendPacket, OnReceive, Goto, exchanged, measured

(* The stage that follows the one n has finished: the first one, the next  *)
(* sender of the sample, or the first sender of the next sample.           *)
NextStage(n, s, k) ==
    \/ pc[n] = "external" /\ s = 0 /\ k = 0
    \/ phase[n] = "off" /\ s = sender[n] + 1 /\ k = sample[n]
    \/ phase[n] = "off" /\ sender[n] + 1 = N /\ s = 0 /\ k = sample[n] + 1

LastStage(n) ==
    /\ phase[n] = "off" /\ sender[n] + 1 = N /\ sample[n] + 1 = Samples
    /\ sender' = [sender EXCEPT ![n] = N]
    /\ sample' = [sample EXCEPT ![n] = Samples]
    /\ Goto(n, "done")
    /\ UNCHANGED <<phase, lamps, timer>>

LEMMA StageStep ==
    ASSUME TypeInv, NEW n \in Node, FirstStage(n) \/ Leave(n)
    PROVE  /\ pc[n] \in Answered \cup {"endturn"} /\ phase[n] # "on"
           /\ UNCHANGED <<handler, receiver, ready, state, dark, Y, lag>>
           /\ \/ \E s \in Node, k \in SampleIndex : NextStage(n, s, k) /\ BeginStage(n, s, k)
              \/ LastStage(n)
  <1>1. CASE FirstStage(n)
    <2>1. 0 \in Node /\ 0 \in SampleIndex
      BY NodeFacts, SampleFacts
    <2>2. phase[n] = "ext"
      BY <1>1 DEF FirstStage, TypeInv, Structure
    <2>3. /\ pc[n] = "external" /\ BeginStage(n, 0, 0)
          /\ UNCHANGED <<handler, receiver, ready, state, dark, Y, lag>>
      BY <1>1 DEF FirstStage, exchanged, measured
    <2>4. NextStage(n, 0, 0)
      BY <2>3 DEF NextStage
    <2>5. \E s \in Node, k \in SampleIndex : NextStage(n, s, k) /\ BeginStage(n, s, k)
      BY <2>1, <2>3, <2>4
    <2> QED
      BY <2>2, <2>3, <2>5 DEF Answered
  <1>2. CASE Leave(n)
    <2>1. /\ pc[n] \in {"endturn", "replied"} /\ phase[n] = "off" /\ EndStage(n)
          /\ UNCHANGED <<handler, receiver, ready, state, dark, Y, lag>>
      BY <1>2 DEF Leave, exchanged, measured
    <2>2. sender[n] \in 0 .. N /\ sample[n] \in 0 .. Samples /\ sender[n] # N
      <3>1. sender[n] \in 0 .. N /\ sample[n] \in 0 .. Samples /\ Structure(n)
        BY DEF TypeInv, TypeOK
      <3> QED
        BY <2>1, <3>1 DEF Structure, Outside
    <2>3. sample[n] # Samples
      BY <2>1 DEF TypeInv, Structure
    <2>4. CASE sender[n] + 1 < N /\ BeginStage(n, sender[n] + 1, sample[n])
      <3>1. sender[n] + 1 \in Node /\ sample[n] \in SampleIndex
        BY <2>2, <2>3, <2>4 DEF Node, SampleIndex
      <3> QED
        BY <2>1, <2>4, <3>1 DEF NextStage, Answered
    <2>5. CASE /\ sender[n] + 1 = N /\ sample[n] + 1 < Samples
               /\ BeginStage(n, 0, sample[n] + 1)
      <3>1. 0 \in Node /\ sample[n] + 1 \in SampleIndex
        BY <2>2, <2>5 DEF Node, SampleIndex
      <3> QED
        BY <2>1, <2>5, <3>1 DEF NextStage, Answered
    <2> QED
      BY <2>1, <2>4, <2>5 DEF EndStage, LastStage, Answered
  <1> QED
    BY <1>1, <1>2

(* What the head of the loop over senders does to its board. *)
LEMMA BeginStageFacts ==
    ASSUME TypeInv, NEW n \in Node, NEW s \in Node, NEW k \in SampleIndex, BeginStage(n, s, k)
    PROVE  /\ sender' = [sender EXCEPT ![n] = s]
           /\ sample' = [sample EXCEPT ![n] = k]
           /\ phase' = [phase EXCEPT ![n] = "on"]
           /\ \/ s = n /\ WriteLed(n, Lit(k))
              \/ s # n /\ pc' = [pc EXCEPT ![n] = "wait"] /\ UNCHANGED <<led, since, timer>>
           /\ phase'[n] = "on" /\ sender'[n] = s /\ sample'[n] = k
           /\ pc'[n] = IF s = n THEN "settle" ELSE "wait"
  BY DEF BeginStage, WriteLed, Goto, lamps, TypeInv, TypeOK

(* What a change of a lamp does to its board. *)
LEMMA WriteLedFacts ==
    ASSUME TypeInv, NEW n \in Node, NEW l \in Level, WriteLed(n, l)
    PROVE  /\ led' \in [Node -> Level] /\ since' \in [Node -> 0 .. Settle]
           /\ timer' \in [Node -> Nat] /\ pc' \in [Node -> Location]
           /\ led'[n] = l /\ timer'[n] = WaitLed /\ pc'[n] = "settle"
           /\ led[n] # l => since'[n] = 0
           /\ led[n] = l => since' = since
           /\ \A m \in Node : m # n => /\ led'[m] = led[m] /\ since'[m] = since[m]
                                       /\ timer'[m] = timer[m] /\ pc'[m] = pc[m]
  BY DEF WriteLed, Goto, TypeInv, TypeOK, Location

(* A step of n's own program changes nothing of another board. *)
LEMMA LocalFrame ==
    ASSUME TypeInv, NEW n \in Node, Local(n), NEW m \in Node, m # n
    PROVE  /\ handler'[m] = handler[m] /\ pc'[m] = pc[m] /\ phase'[m] = phase[m]
           /\ sender'[m] = sender[m] /\ receiver'[m] = receiver[m]
           /\ ready'[m] = ready[m] /\ state'[m] = state[m] /\ sample'[m] = sample[m]
           /\ led'[m] = led[m] /\ since'[m] = since[m] /\ dark'[m] = dark[m]
           /\ Y'[m] = Y[m] /\ timer'[m] = timer[m] /\ lag' = lag
  <1> USE DEF Goto, exchanged, measured, lamps
  <1>1. TypeOK
    BY DEF TypeInv
  <1>2. CASE Start(n) \/ Install(n) \/ Unready(n) \/ Target(n) \/ NextReceiver(n) \/ Poll(n)
    BY <1>1, <1>2 DEF Start, Install, Unready, Target, NextReceiver, Poll, TypeOK
  <1>3. CASE Clear(n) \/ Heard(n) \/ Take(n) \/ External(n) \/ WaitOff(n)
    BY <1>1, <1>3 DEF Clear, Heard, Take, External, WaitOff, TypeOK
  <1>4. CASE Begin(n) \/ TurnOff(n)
    <2>1. WriteLed(n, Off)
      BY <1>4 DEF Begin, TurnOff
    <2>2. led'[m] = led[m] /\ since'[m] = since[m] /\ timer'[m] = timer[m] /\ pc'[m] = pc[m]
      BY <2>1, WriteLedFacts, SampleFacts
    <2> QED
      BY <1>1, <1>4, <2>2 DEF Begin, TurnOff, TypeOK
  <1>5. CASE Settled(n)
    <2>1. Y'[m] = Y[m] /\ dark'[m] = dark[m]
      BY <1>1, <1>5 DEF Settled, TypeOK
    <2> QED
      BY <1>1, <1>5, <2>1 DEF Settled, TypeOK
  <1>6. CASE FirstStage(n) \/ Leave(n)
    <2>1. UNCHANGED <<handler, receiver, ready, state, dark, Y, lag>>
      BY <1>6, StageStep
    <2>2. ASSUME NEW s \in Node, NEW k \in SampleIndex, BeginStage(n, s, k)
          PROVE  /\ pc'[m] = pc[m] /\ phase'[m] = phase[m] /\ sender'[m] = sender[m]
                 /\ sample'[m] = sample[m] /\ led'[m] = led[m] /\ since'[m] = since[m]
                 /\ timer'[m] = timer[m]
      <3>1. Lit(k) \in Level
        BY SampleFacts
      <3>2. /\ sender' = [sender EXCEPT ![n] = s] /\ sample' = [sample EXCEPT ![n] = k]
            /\ phase' = [phase EXCEPT ![n] = "on"]
            /\ \/ WriteLed(n, Lit(k))
               \/ pc' = [pc EXCEPT ![n] = "wait"] /\ UNCHANGED <<led, since, timer>>
        BY <2>2, BeginStageFacts
      <3>3. led'[m] = led[m] /\ since'[m] = since[m] /\ timer'[m] = timer[m] /\ pc'[m] = pc[m]
        <4>1. CASE WriteLed(n, Lit(k))
          BY <3>1, <4>1, WriteLedFacts
        <4>2. CASE pc' = [pc EXCEPT ![n] = "wait"] /\ UNCHANGED <<led, since, timer>>
          BY <1>1, <4>2 DEF TypeOK
        <4> QED
          BY <3>2, <4>1, <4>2
      <3>4. phase'[m] = phase[m] /\ sender'[m] = sender[m] /\ sample'[m] = sample[m]
        BY <1>1, <3>2 DEF TypeOK
      <3> QED
        BY <3>3, <3>4
    <2>3. CASE LastStage(n)
      BY <1>1, <2>1, <2>3 DEF LastStage, TypeOK
    <2> QED
      BY <1>6, <2>1, <2>2, <2>3, StageStep
  <1> QED
    BY <1>2, <1>3, <1>4, <1>5, <1>6 DEF Local

(* What a sensor sees is put in a table of measurements. *)
LEMMA SettledTypes ==
    ASSUME TypeInv, NEW n \in Node, Settled(n)
    PROVE  /\ dark' \in [Node -> Vector]
           /\ Y' \in Table
           /\ phase[n] = "on" => sender[n] = n /\ sample[n] \in SampleIndex
                                 /\ IsPut(Y', Y, n, n, sample[n], Reading)
           /\ phase[n] # "on" => Y' = Y
           /\ phase[n] = "ext" /\ n = MASTER => dark'[n] = Reading
           /\ ~(phase[n] = "ext" /\ n = MASTER) => dark' = dark
  <1>1. /\ Reading \in Vector /\ dark \in [Node -> Vector] /\ Y \in Table
        /\ Structure(n) /\ pc[n] = "settle" /\ sample[n] \in 0 .. Samples
    BY ReadingType DEF TypeInv, TypeOK, Table, Settled
  <1>2. /\ dark' \in [Node -> Vector]
        /\ phase[n] = "ext" /\ n = MASTER => dark'[n] = Reading
        /\ ~(phase[n] = "ext" /\ n = MASTER) => dark' = dark
    BY <1>1 DEF Settled
  <1>3. CASE phase[n] = "on"
    <2>1. sender[n] = n /\ sample[n] # Samples
      BY <1>1, <1>3 DEF Structure
    <2>2. sample[n] \in SampleIndex
      BY <1>1, <2>1, SampleFacts
    <2>3. Y' = Put(Y, n, n, sample[n], Reading)
      BY <1>3 DEF Settled, Put
    <2>4. IsPut(Put(Y, n, n, sample[n], Reading), Y, n, n, sample[n], Reading)
      BY <1>1, <2>2, Puts
    <2>5. IsPut(Y', Y, n, n, sample[n], Reading)
      BY <2>3, <2>4
    <2> QED
      BY <1>2, <1>3, <2>1, <2>2, <2>5 DEF IsPut
  <1>4. CASE phase[n] # "on"
    BY <1>1, <1>2, <1>4 DEF Settled
  <1> QED
    BY <1>3, <1>4

(* A board at the head of a stage is as the stage wants it. *)
LEMMA StageType ==
    ASSUME TypeInv, NEW n \in Node, pc[n] \in Answered \cup {"endturn"}, phase[n] # "on",
           NEW s \in Node, NEW k \in SampleIndex, BeginStage(n, s, k),
           UNCHANGED <<handler, receiver, ready, state, dark, Y, lag>>
    PROVE  TypeOK' /\ Structure(n)' /\ Lamp(n)'
  <1>1. /\ sender' = [sender EXCEPT ![n] = s] /\ sample' = [sample EXCEPT ![n] = k]
        /\ phase' = [phase EXCEPT ![n] = "on"]
        /\ phase'[n] = "on" /\ sender'[n] = s /\ sample'[n] = k
        /\ pc'[n] = IF s = n THEN "settle" ELSE "wait"
    BY BeginStageFacts
  <1>2. TypeOK /\ Structure(n) /\ Lamp(n)
    BY DEF TypeInv
  <1>3. /\ led' \in [Node -> Level] /\ since' \in [Node -> 0 .. Settle]
        /\ timer' \in [Node -> Nat] /\ pc' \in [Node -> Location]
        /\ IF s = n THEN timer'[n] = WaitLed /\ led'[n] = Lit(k)
                    ELSE timer'[n] = timer[n] /\ led'[n] = led[n] /\ since'[n] = since[n]
    <2>1. CASE s = n
      <3>1. WriteLed(n, Lit(k)) /\ Lit(k) \in Level
        BY <2>1, BeginStageFacts, SampleFacts
      <3> QED
        BY <2>1, <3>1, WriteLedFacts
    <2>2. CASE s # n
      <3>1. pc' = [pc EXCEPT ![n] = "wait"] /\ UNCHANGED <<led, since, timer>>
        BY <2>2, BeginStageFacts
      <3> QED
        BY <1>2, <2>2, <3>1 DEF TypeOK, Location
    <2> QED
      BY <2>1, <2>2
  <1>4. TypeOK'
    <2>1. s \in 0 .. N /\ k \in 0 .. Samples
      BY DEF Node, SampleIndex
    <2> QED
      BY <1>1, <1>2, <1>3, <2>1 DEF TypeOK
  <1>5. handler'[n] = "calibration" /\ s # N /\ k # Samples
    BY <1>2, NodeFacts, SampleFacts DEF Structure, Answered
  <1>6. Structure(n)'
    <2>1. timer[n] = 0
      BY <1>2 DEF Structure, Answered
    <2> QED
      BY <1>1, <1>3, <1>5, <2>1 DEF Structure, Outside, Sending, Offering, Answering
  <1>7. since[n] = Settle /\ (s # n => led[n] = Off)
    BY <1>1, <1>2 DEF Lamp, Outside, Answered, Answering, Structure, Sending
  <1>8. Lamp(n)'
    BY <1>1, <1>3, <1>7 DEF Lamp, Outside
  <1> QED
    BY <1>4, <1>6, <1>8

(* Every step of the main program keeps the types, and the structure and   *)
(* the lamp of its board.                                                  *)
LEMMA LocalTypeHere ==
    ASSUME TypeInv, NEW n \in Node, Local(n)
    PROVE  TypeOK' /\ Structure(n)' /\ Lamp(n)'
  <1>1. TypeOK /\ Structure(n) /\ Lamp(n) /\ pc[n] \in Location /\ n # N /\ n + 1 \in 0 .. N
    BY NodeFacts DEF TypeInv, TypeOK
  <1>9. receiver[n] \in 0 .. N /\ (receiver[n] # N => receiver[n] \in Node)
    BY <1>1, TurnFacts DEF TypeOK
  <1>2. CASE Start(n) \/ Install(n) \/ Unready(n)
    <2> USE <1>1, <1>2 DEF Start, Install, Unready, Goto, exchanged, measured, lamps
    <2>1. TypeOK'
      BY DEF TypeOK, Location, Callback
    <2>2. Structure(n)'
      <3>1. /\ pc[n] \in Outside /\ pc'[n] \in Outside
            /\ handler'[n] = IF pc'[n] \in {"idle", "install"} THEN "communication"
                                                              ELSE "calibration"
        BY DEF TypeOK, Structure, Outside
      <3>2. UNCHANGED <<sender, phase, sample, timer>>
        OBVIOUS
      <3> QED
        BY <3>1, <3>2 DEF Structure, Outside, Sending, Offering, Answering
    <2>3. Lamp(n)'
      BY DEF TypeOK, Lamp, Outside
    <2> QED
      BY <2>1, <2>2, <2>3
  <1>3. CASE Begin(n)
    <2>1. /\ led' \in [Node -> Level] /\ since' \in [Node -> 0 .. Settle]
          /\ timer' \in [Node -> Nat] /\ pc' \in [Node -> Location]
          /\ led'[n] = Off /\ timer'[n] = WaitLed /\ pc'[n] = "settle" /\ pc[n] = "begin"
      BY <1>3, WriteLedFacts, SampleFacts DEF Begin
    <2>2. /\ state' = [state EXCEPT ![n] = "ext"] /\ sender' = [sender EXCEPT ![n] = 0]
          /\ phase' = [phase EXCEPT ![n] = "ext"]
          /\ UNCHANGED <<handler, receiver, ready, dark, Y, sample, lag>>
      BY <1>3 DEF Begin
    <2>3. TypeOK'
      <3>1. /\ state' \in [Node -> {"ext", "on", "off"}] /\ sender' \in [Node -> 0 .. N]
            /\ phase' \in [Node -> {"ext", "on", "off"}]
        BY <1>1, <2>2, NodeFacts DEF TypeOK
      <3> QED
        BY <1>1, <2>1, <2>2, <3>1 DEF TypeOK
    <2>4. Structure(n)'
      BY <1>1, <2>1, <2>2, NodeFacts, SampleFacts
         DEF TypeOK, Structure, Outside, Sending, Offering, Answering
    <2>5. Lamp(n)'
      BY <1>1, <2>1, <2>2 DEF TypeOK, Lamp, Outside
    <2> QED
      BY <2>3, <2>4, <2>5
  <1>4. CASE Settled(n)
    <2>1. /\ pc[n] = "settle" /\ timer[n] = 0
          /\ UNCHANGED <<handler, phase, sender, ready, state, sample, led, since, timer, lag>>
          /\ dark' \in [Node -> Vector] /\ Y' \in Table
      BY <1>4, SettledTypes DEF Settled, lamps
    <2>2. \/ /\ phase[n] = "ext" /\ n # MASTER
             /\ pc' = [pc EXCEPT ![n] = "wait"] /\ receiver' = receiver
          \/ /\ ~(phase[n] = "ext" /\ n # MASTER)
             /\ pc' = [pc EXCEPT ![n] = "target"] /\ receiver' = [receiver EXCEPT ![n] = 0]
      BY <1>4 DEF Settled, Goto
    <2>3. TypeOK'
      <3>1. pc' \in [Node -> Location]
        BY <1>1, <2>2 DEF TypeOK, Location
      <3>2. receiver' \in [Node -> 0 .. N]
        <4>1. 0 \in 0 .. N /\ receiver \in [Node -> 0 .. N]
          BY <1>1 DEF TypeOK
        <4> QED
          BY <2>2, <4>1
      <3> QED
        BY <1>1, <2>1, <3>1, <3>2 DEF TypeOK, Table
    <2>4. Structure(n)'
      <3>1. CASE phase[n] = "ext" /\ n # MASTER
        BY <1>1, <2>1, <2>2, <3>1, NodeFacts
           DEF TypeOK, Structure, Outside, Sending, Offering, Answering
      <3>2. CASE ~(phase[n] = "ext" /\ n # MASTER)
        BY <1>1, <2>1, <2>2, <3>2, NodeFacts
           DEF TypeOK, Structure, Outside, Sending, Offering, Answering
      <3> QED
        BY <3>1, <3>2
    <2>5. Lamp(n)'
      <3>1. since[n] = Settle
        BY <1>1, <2>1 DEF Lamp, TypeOK
      <3> QED
        BY <1>1, <2>1, <2>2, <3>1 DEF TypeOK, Lamp, Outside
    <2> QED
      BY <2>3, <2>4, <2>5
  <1>5. CASE Target(n) \/ NextReceiver(n) \/ Poll(n) \/ Clear(n) \/ Heard(n) \/ Take(n)
    <2> USE <1>1, <1>5 DEF Target, NextReceiver, Poll, Clear, Heard, Take, Goto, exchanged,
          measured, lamps
    <2>1. receiver'[n] \in 0 .. N /\ (pc'[n] \in Offering => receiver'[n] \in Node \ {n})
      <3>1. receiver[n] \in 0 .. N /\ (receiver[n] # N => receiver[n] \in Node)
        BY <1>9
      <3>2. CASE NextReceiver(n)
        <4>1. receiver[n] \in Node
          BY <3>2 DEF Structure, Offering
        <4>2. receiver[n] + 1 \in 0 .. N
          BY <4>1 DEF Node
        <4>3. receiver'[n] = receiver[n] + 1 /\ pc'[n] = "target"
          BY <3>2 DEF TypeOK
        <4> QED
          BY <4>2, <4>3 DEF Offering
      <3>3. CASE ~ NextReceiver(n)
        <4>1. receiver'[n] = receiver[n]
          BY <3>3 DEF TypeOK
        <4> QED
          BY <3>1, <3>3, <4>1 DEF TypeOK, Structure, Offering
      <3> QED
        BY <3>2, <3>3
    <2>2. TypeOK'
      BY <2>1 DEF TypeOK, Location
    <2>3. Structure(n)'
      <3>1. CASE Target(n) \/ NextReceiver(n)
        <4>1. CASE Target(n)
          BY <2>1, <4>1 DEF TypeOK, Structure, Outside, Sending, Offering, Answering
        <4>2. CASE NextReceiver(n)
          BY <2>1, <4>2 DEF TypeOK, Structure, Outside, Sending, Offering, Answering
        <4> QED
          BY <3>1, <4>1, <4>2
      <3>2. CASE Poll(n) \/ Clear(n)
        <4>1. CASE Poll(n)
          BY <2>1, <4>1 DEF TypeOK, Structure, Outside, Sending, Offering, Answering
        <4>2. CASE Clear(n)
          BY <2>1, <4>2 DEF TypeOK, Structure, Outside, Sending, Offering, Answering
        <4> QED
          BY <3>2, <4>1, <4>2
      <3>3. CASE Heard(n) \/ Take(n)
        <4>1. CASE Heard(n)
          BY <4>1 DEF TypeOK, Structure, Outside, Sending, Offering, Answering
        <4>2. CASE Take(n)
          BY <4>2 DEF TypeOK, Structure, Outside, Sending, Offering, Answering
        <4> QED
          BY <3>3, <4>1, <4>2
      <3> QED
        BY <3>1, <3>2, <3>3
    <2>4. Lamp(n)'
      BY DEF TypeOK, Lamp, Outside
    <2> QED
      BY <2>2, <2>3, <2>4
  <1>6. CASE External(n) \/ WaitOff(n)
    <2> USE <1>1, <1>6 DEF External, WaitOff, Goto, exchanged, measured, lamps
    <2>1. TypeOK'
      BY DEF TypeOK, Location
    <2>2. Structure(n)'
      <3>1. CASE External(n)
        BY <3>1 DEF TypeOK, Structure, Outside, Sending, Offering, Answering
      <3>2. CASE WaitOff(n)
        BY <3>2 DEF TypeOK, Structure, Outside, Sending, Offering, Answering
      <3> QED
        BY <1>6, <3>1, <3>2
    <2>3. Lamp(n)'
      BY DEF TypeOK, Lamp, Outside, Structure, Answering
    <2> QED
      BY <2>1, <2>2, <2>3
  <1>7. CASE TurnOff(n)
    <2>1. /\ led' \in [Node -> Level] /\ since' \in [Node -> 0 .. Settle]
          /\ timer' \in [Node -> Nat] /\ pc' \in [Node -> Location]
          /\ led'[n] = Off /\ timer'[n] = WaitLed /\ pc'[n] = "settle" /\ pc[n] = "endturn"
          /\ phase[n] = "on"
      BY <1>7, WriteLedFacts, SampleFacts DEF TurnOff
    <2>2. /\ phase' = [phase EXCEPT ![n] = "off"]
          /\ UNCHANGED <<handler, sender, receiver, ready, state, dark, Y, sample, lag>>
      BY <1>7 DEF TurnOff, exchanged, measured
    <2>3. TypeOK'
      BY <1>1, <2>1, <2>2 DEF TypeOK
    <2>4. Structure(n)'
      BY <1>1, <2>1, <2>2 DEF TypeOK, Structure, Outside, Sending, Offering, Answering,
            Sample
    <2>5. Lamp(n)'
      BY <1>1, <2>1, <2>2 DEF TypeOK, Lamp, Outside
    <2> QED
      BY <2>3, <2>4, <2>5
  <1>8. CASE FirstStage(n) \/ Leave(n)
    <2>1. /\ pc[n] \in Answered \cup {"endturn"} /\ phase[n] # "on"
          /\ UNCHANGED <<handler, receiver, ready, state, dark, Y, lag>>
      BY <1>8, StageStep
    <2>2. ASSUME NEW s \in Node, NEW k \in SampleIndex, BeginStage(n, s, k)
          PROVE  TypeOK' /\ Structure(n)' /\ Lamp(n)'
      BY <2>1, <2>2, StageType
    <2>3. CASE LastStage(n)
      <3>1. TypeOK'
        BY <1>1, <2>1, <2>3 DEF TypeOK, LastStage, Goto, Location, lamps
      <3>2. Structure(n)'
        BY <1>1, <2>1, <2>3 DEF TypeOK, LastStage, Goto, lamps, Structure,
          Outside, Sending, Offering, Answering, Answered
      <3>3. Lamp(n)'
        BY <1>1, <2>1, <2>3 DEF TypeOK, LastStage, Goto, lamps, Lamp, Outside, Answered
      <3> QED
        BY <3>1, <3>2, <3>3
    <2> QED
      BY <1>8, <2>2, <2>3, StageStep
  <1> QED
    BY <1>2, <1>3, <1>4, <1>5, <1>6, <1>7, <1>8 DEF Local

LEMMA LocalType ==
    ASSUME TypeInv, NEW n \in Node, Local(n)
    PROVE  TypeInv'
  <1>1. TypeOK' /\ Structure(n)' /\ Lamp(n)'
    BY LocalTypeHere
  <1>2. ASSUME NEW m \in Node, m # n PROVE Structure(m)' /\ Lamp(m)'
    <2>1. Structure(m) /\ Lamp(m)
      BY DEF TypeInv
    <2>2. /\ handler'[m] = handler[m] /\ pc'[m] = pc[m] /\ phase'[m] = phase[m]
          /\ sender'[m] = sender[m] /\ receiver'[m] = receiver[m] /\ sample'[m] = sample[m]
          /\ led'[m] = led[m] /\ since'[m] = since[m] /\ timer'[m] = timer[m]
      BY <1>2, LocalFrame
    <2>3. Structure(m)'
      BY <2>1, <2>2 DEF Structure
    <2>4. Lamp(m)'
      BY <2>1, <2>2 DEF Lamp
    <2> QED
      BY <2>3, <2>4
  <1> QED
    BY <1>1, <1>2 DEF TypeInv

(* A transmission keeps the types and the structure. *)
LEMMA TransmitType ==
    ASSUME TypeInv, NEW n \in Node, NEW a, Transmit(n, a)
    PROVE  TypeInv'
  <1>1. /\ pc[n] = "send" /\ sender[n] = n /\ receiver[n] \in Node \ {n}
        /\ pc' = [pc EXCEPT ![n] = "poll"] /\ timer' = [timer EXCEPT ![n] = Wait]
        /\ UNCHANGED <<handler, phase, sender, receiver, sample, led, since, lag>>
    BY TransmitFrame DEF lamps
  <1>2. TypeOK
    BY DEF TypeInv
  <1>3. /\ ready' \in [Node -> BOOLEAN] /\ state' \in [Node -> {"ext", "on", "off"}]
        /\ dark' \in [Node -> Vector] /\ Y' \in Table
    <2>1. CASE UNCHANGED exchanged
      BY <1>2, <2>1 DEF TypeOK, Table, exchanged, measured
    <2>2. CASE /\ Accepts(receiver[n], n, "SYN") /\ Measure(receiver[n])
               /\ ready' = [ready EXCEPT ![receiver[n]] = TRUE]
      <3>1. receiver[n] \in Node
        BY <1>1
      <3>2. /\ state' \in [Node -> {"ext", "on", "off"}]
            /\ dark' \in [Node -> Vector] /\ Y' \in Table
        BY <2>2, <3>1, MeasureFacts
      <3>3. ready' \in [Node -> BOOLEAN]
        BY <1>2, <2>2 DEF TypeOK
      <3> QED
        BY <3>2, <3>3
    <2> QED
      BY <2>1, <2>2, TransmitFrame
  <1>4. TypeOK'
    <2>1. pc' \in [Node -> Location] /\ timer' \in [Node -> Nat]
      BY <1>1, <1>2 DEF TypeOK, Location
    <2> QED
      BY <1>1, <1>2, <1>3, <2>1 DEF TypeOK, Table
  <1>5. ASSUME NEW m \in Node PROVE Structure(m)' /\ Lamp(m)'
    <2>1. Structure(m) /\ Lamp(m)
      BY DEF TypeInv
    <2>2. /\ pc'[m] = IF m = n THEN "poll" ELSE pc[m]
          /\ timer'[m] = IF m = n THEN Wait ELSE timer[m]
      BY <1>1, <1>2 DEF TypeOK
    <2>3. Structure(m)'
      BY <1>1, <2>1, <2>2 DEF Structure, Outside, Sending, Offering, Answering
    <2>4. Lamp(m)'
      BY <1>1, <2>1, <2>2 DEF Lamp, Outside
    <2> QED
      BY <2>3, <2>4
  <1> QED
    BY <1>4, <1>5 DEF TypeInv

(* So does an answer. *)
LEMMA ReplyType ==
    ASSUME TypeInv, NEW n \in Node, NEW a, Reply(n, a)
    PROVE  TypeInv'
  <1>1. /\ pc[n] = "reply" /\ sender[n] \in Node \ {n}
        /\ pc' = [pc EXCEPT ![n] = "replied"]
        /\ UNCHANGED <<handler, phase, sender, receiver, state, dark, Y, sample, led, since,
                       timer, lag>>
        /\ ready' = ready \/ ready' = [ready EXCEPT ![sender[n]] = TRUE]
    BY ReplyFrame DEF lamps, measured
  <1>2. TypeOK
    BY DEF TypeInv
  <1>3. TypeOK'
    BY <1>1, <1>2 DEF TypeOK, Location
  <1>4. ASSUME NEW m \in Node PROVE Structure(m)' /\ Lamp(m)'
    <2>1. Structure(m) /\ Lamp(m)
      BY DEF TypeInv
    <2>2. pc'[m] = IF m = n THEN "replied" ELSE pc[m]
      BY <1>1, <1>2 DEF TypeOK
    <2>3. Structure(m)'
      BY <1>1, <2>1, <2>2 DEF Structure, Outside, Sending, Offering, Answering
    <2>4. Lamp(m)'
      BY <1>1, <2>1, <2>2 DEF Lamp, Outside
    <2> QED
      BY <2>3, <2>4
  <1> QED
    BY <1>3, <1>4 DEF TypeInv

(* What a tick changes, whether or not a delay is what it is waited for. *)
Passes ==
    /\ \A n \in Node : ~ Busy(n)
    /\ Started # Node => lag < MaxSkew
    /\ timer' = Elapsed(timer) /\ since' = Aged(since)
    /\ lag' = IF lag < MaxSkew THEN lag + 1 ELSE MaxSkew
    /\ UNCHANGED <<handler, pc, phase, sender, receiver, exchanged, sample, led>>

LEMMA TickFrame ==
    ASSUME TypeInv, Passes
    PROVE  /\ UNCHANGED <<handler, pc, phase, sender, receiver, ready, state, dark, Y, sample, led>>
           /\ \A n \in Node :
                /\ ~ Busy(n)
                /\ timer[n] \in Nat /\ since[n] \in 0 .. Settle
                /\ timer'[n] = IF timer[n] > 0 THEN timer[n] - 1 ELSE 0
                /\ since'[n] = IF since[n] < Settle THEN since[n] + 1 ELSE Settle
           /\ timer' \in [Node -> Nat] /\ since' \in [Node -> 0 .. Settle]
           /\ lag \in 0 .. MaxSkew /\ lag' \in 0 .. MaxSkew
           /\ lag' = IF lag < MaxSkew THEN lag + 1 ELSE MaxSkew
           /\ Started # Node => lag < MaxSkew
  <1>1. /\ timer \in [Node -> Nat] /\ since \in [Node -> 0 .. Settle] /\ lag \in 0 .. MaxSkew
    BY DEF TypeInv, TypeOK
  <1>2. /\ UNCHANGED <<handler, pc, phase, sender, receiver, ready, state, dark, Y, sample, led>>
        /\ lag' = IF lag < MaxSkew THEN lag + 1 ELSE MaxSkew
        /\ Started # Node => lag < MaxSkew
        /\ \A n \in Node : ~ Busy(n)
        /\ timer' = Elapsed(timer) /\ since' = Aged(since)
    BY DEF Passes, exchanged, measured
  <1>3. \A n \in Node :
           /\ timer'[n] = IF timer[n] > 0 THEN timer[n] - 1 ELSE 0
           /\ since'[n] = IF since[n] < Settle THEN since[n] + 1 ELSE Settle
    BY <1>2 DEF Elapsed, Aged
  <1>4. timer' \in [Node -> Nat] /\ since' \in [Node -> 0 .. Settle]
    BY <1>1, <1>2 DEF Elapsed, Aged
  <1>5. lag' \in 0 .. MaxSkew
    BY <1>1, <1>2
  <1> QED
    BY <1>1, <1>2, <1>3, <1>4, <1>5

(* So does time. *)
LEMMA TickType == TypeInv /\ Passes => TypeInv'
  <1> SUFFICES ASSUME TypeInv, Passes PROVE TypeInv'
    OBVIOUS
  <1>1. TypeOK'
    BY TickFrame DEF TypeInv, TypeOK
  <1>2. ASSUME NEW n \in Node PROVE Structure(n)' /\ Lamp(n)'
    <2>1. Structure(n) /\ Lamp(n)
      BY DEF TypeInv
    <2>2. /\ UNCHANGED <<handler, pc, phase, sender, receiver, sample, led>>
          /\ timer[n] \in Nat /\ since[n] \in 0 .. Settle
          /\ timer'[n] = IF timer[n] > 0 THEN timer[n] - 1 ELSE 0
          /\ since'[n] = IF since[n] < Settle THEN since[n] + 1 ELSE Settle
      BY TickFrame
    <2>3. Structure(n)'
      BY <2>1, <2>2 DEF Structure
    <2>4. Lamp(n)'
      BY <2>1, <2>2 DEF Lamp
    <2> QED
      BY <2>3, <2>4
  <1> QED
    BY <1>1, <1>2 DEF TypeInv

LEMMA StutterType == TypeInv /\ UNCHANGED vars => TypeInv'
  BY DEF vars, TypeInv, TypeOK, Structure, Lamp

(* The types, the structure and the lamps are inductive by themselves. *)
LEMMA TypeStep == TypeInv /\ [Next]_vars => TypeInv'
  <1> SUFFICES ASSUME TypeInv, [Next]_vars PROVE TypeInv'
    OBVIOUS
  <1>1. ASSUME NEW n \in Node, Local(n) PROVE TypeInv'
    BY <1>1, LocalType
  <1>2. ASSUME NEW n \in Node, NEW a, Transmit(n, a) PROVE TypeInv'
    BY <1>2, TransmitType
  <1>3. ASSUME NEW n \in Node, NEW a, Reply(n, a) PROVE TypeInv'
    BY <1>3, ReplyType
  <1>4. CASE Tick
    BY <1>4, TickType DEF Tick, Passes
  <1>5. CASE UNCHANGED vars
    BY <1>5, StutterType
  <1> QED
    BY <1>1, <1>2, <1>3, <1>4, <1>5 DEF Next, Step, Terminated

(* Type correctness, whatever packets the bus loses: in particular every   *)
(* measurement has its place in the table of its board.                    *)
THEOREM TypeCorrect == Spec => []TypeOK
  <1>1. TypeInv => TypeOK
    BY DEF TypeInv
  <1> QED
    BY <1>1, TypeInit, TypeStep, PTL DEF Spec

-----------------------------------------------------------------------------
(* The stages: how the steps of one board's program move it through the    *)
(* handshakes.                                                             *)

(* s has had the answer of m in the handshake it is in. *)
Serves(s, m) ==
    /\ pc[s] \in Sending \cup {"external"}
    /\ \/ m < receiver[s]
       \/ m = receiver[s] /\ (ready[s] \/ pc[s] = "next")

(* A step within a handshake. *)
Stays(n) ==
    /\ phase'[n] = phase[n] /\ sender'[n] = sender[n] /\ Sample(n)' = Sample(n)
    /\ pc'[n] \in Outside <=> pc[n] \in Outside
    /\ pc'[n] # "settle"
    /\ Engaged(n)' <=> Engaged(n)
    /\ sender[n] # n => (pc'[n] \in Answered <=> pc[n] \in Answered)
    /\ sender[n] = n => \A m \in Node \ {n} : Serves(n, m)' <=> Serves(n, m)

(* The step that enters the first handshake. *)
Begins(n) ==
    /\ pc[n] = "begin" /\ pc'[n] = "settle" /\ ~ ready'[n] /\ ~ ready[n]
    /\ phase[n] = "ext" /\ phase'[n] = "ext" /\ sender'[n] = MASTER /\ Sample(n)' = 0

(* A step from a handshake to the next. *)
Advances(n) ==
    /\ pc[n] \in Answered \cup {"endturn"} /\ pc'[n] \in {"settle", "wait", "done"}
    /\ ~ ready'[n] /\ ~ ready[n]
    /\ \/ /\ pc[n] = "external" /\ phase[n] = "ext" /\ sender[n] = MASTER /\ Sample(n) = 0
          /\ phase'[n] = "on" /\ sender'[n] = 0 /\ Sample(n)' = 0
       \/ /\ phase[n] = "on"
          /\ phase'[n] = "off" /\ sender'[n] = sender[n] /\ Sample(n)' = Sample(n)
       \/ /\ phase[n] = "off"
          /\ phase'[n] = "on" /\ sender'[n] = sender[n] + 1 /\ Sample(n)' = Sample(n)
       \/ /\ phase[n] = "off" /\ sender[n] + 1 = N
          /\ phase'[n] = "on" /\ sender'[n] = 0 /\ Sample(n)' = Sample(n) + 1
       \/ /\ phase[n] = "off" /\ sender[n] + 1 = N /\ Sample(n) + 1 = Samples
          /\ phase'[n] = "off" /\ sender'[n] = N /\ Sample(n)' = Samples

LEMMA StagesStay ==
    ASSUME TypeInv, HandshakeInv, NEW n \in Node,
           Local(n), ~ Begin(n), ~ FirstStage(n), ~ TurnOff(n), ~ WaitOff(n), ~ Leave(n)
    PROVE  Stays(n)
  <1> USE DEF Stays, Goto, exchanged, measured
  <1>1. TypeOK /\ Structure(n) /\ ReadyDiscipline(n) /\ n \in 0 .. N
    BY NodeFacts DEF TypeInv, HandshakeInv
  <1>2. CASE Start(n) \/ Install(n) \/ Unready(n)
    <2>1. /\ pc[n] \in Outside /\ pc'[n] \in Outside
          /\ phase' = phase /\ sender' = sender /\ sample' = sample
          /\ UNCHANGED receiver /\ ~ ready[n] /\ ~ ready'[n]
      BY <1>1, <1>2 DEF TypeOK, ReadyDiscipline, Start, Install, Unready, Outside
    <2>2. ~ Engaged(n) /\ ~ Engaged(n)' /\ pc[n] # "done" /\ pc'[n] # "done"
      BY <2>1 DEF Engaged, Answered, Outside
    <2> QED
      BY <1>1, <2>1, <2>2 DEF Structure, Outside, Serves, Answered, Sending, Offering,
            Sample
  <1>3. CASE Settled(n)
    <2>1. /\ pc[n] = "settle" /\ ready'[n] = ready[n]
          /\ phase' = phase /\ sender' = sender /\ sample' = sample
      BY <1>3 DEF Settled
    <2>2. CASE phase[n] = "ext" /\ n # MASTER
      <3>1. pc'[n] = "wait" /\ sender[n] # n
        BY <1>1, <1>3, <2>1, <2>2 DEF Settled, TypeOK, Structure, Outside
      <3> QED
        BY <2>1, <3>1 DEF Outside, Engaged, Answered, Sample
    <2>3. CASE ~(phase[n] = "ext" /\ n # MASTER)
      <3>1. pc'[n] = "target" /\ receiver'[n] = 0 /\ sender[n] = n /\ ~ ready[n]
        BY <1>1, <1>3, <2>1, <2>3 DEF Settled, TypeOK, Structure, Outside, ReadyDiscipline
      <3>2. \A m \in Node : ~(m < 0)
        BY DEF Node
      <3> QED
        BY <2>1, <3>1, <3>2 DEF Outside, Engaged, Answered, Serves, Sending, Offering,
              Sample
    <2> QED
      BY <2>2, <2>3
  <1>4. CASE Target(n) \/ Poll(n) \/ Clear(n)
    <2>1. CASE Target(n)
      BY <1>1, <2>1 DEF TypeOK, Structure, ReadyDiscipline, Target, Outside, Engaged,
        Serves, Answered, Sending, Offering, Sample
    <2>2. CASE Poll(n)
      BY <1>1, <2>2 DEF TypeOK, Structure, ReadyDiscipline, Poll, Outside, Engaged,
        Serves, Answered, Sending, Offering, Sample
    <2>3. CASE Clear(n)
      BY <1>1, <2>3 DEF TypeOK, Structure, ReadyDiscipline, Clear, Outside, Engaged,
        Serves, Answered, Sending, Offering, Sample
    <2> QED
      BY <1>4, <2>1, <2>2, <2>3
  <1>5. CASE NextReceiver(n)
    <2>1. /\ pc[n] = "next" \/ (pc[n] = "target" /\ receiver[n] = n)
          /\ pc'[n] = "target" /\ receiver'[n] = receiver[n] + 1 /\ ~ ready[n] /\ ~ ready'[n]
          /\ sender[n] = n
          /\ phase' = phase /\ sender' = sender /\ sample' = sample
      BY <1>1, <1>5 DEF NextReceiver, TypeOK, ReadyDiscipline, Structure, Sending, Offering
    <2>2. receiver[n] \in Int /\ \A m \in Node : m \in Int
      BY <1>1 DEF TypeOK, Node
    <2>3. ASSUME NEW m \in Node \ {n} PROVE Serves(n, m)' <=> Serves(n, m)
      <3>1. m < receiver[n] + 1 <=> m < receiver[n] \/ m = receiver[n]
        BY <2>2
      <3> QED
        BY <2>1, <3>1 DEF Serves, Sending, Offering
    <2> QED
      BY <2>1, <2>3 DEF Outside, Engaged, Answered, Sample
  <1>6. CASE Heard(n) \/ Take(n)
    BY <1>1, <1>6 DEF TypeOK, Structure, ReadyDiscipline, Heard, Take, Outside,
      Engaged, Serves, Answered, Answering, Sending, Offering, Sample
  <1>7. CASE External(n)
    BY <1>1, <1>7 DEF TypeOK, Structure, ReadyDiscipline, External, Outside,
      Engaged, Serves, Answered, Answering, Sending, Offering, Sample
  <1> QED
    BY <1>2, <1>3, <1>4, <1>5, <1>6, <1>7 DEF Local

LEMMA StagesAdvance ==
    ASSUME TypeInv, HandshakeInv, NEW n \in Node,
           FirstStage(n) \/ TurnOff(n) \/ WaitOff(n) \/ Leave(n)
    PROVE  Advances(n)
  <1>1. TypeOK /\ Structure(n) /\ ReadyDiscipline(n)
    BY DEF TypeInv, HandshakeInv
  <1>2. CASE TurnOff(n) \/ WaitOff(n)
    BY <1>1, <1>2 DEF TypeOK, ReadyDiscipline, Advances, TurnOff, WaitOff, WriteLed, Goto,
      Answered, exchanged, Sample
  <1>3. CASE FirstStage(n) \/ Leave(n)
    <2>1. /\ pc[n] \in Answered \cup {"endturn"} /\ ready' = ready
      BY <1>3, StageStep
    <2>2. ~ ready[n] /\ ~ ready'[n]
      BY <1>1, <2>1 DEF ReadyDiscipline, Answered
    <2>3. ASSUME NEW s \in Node, NEW k \in SampleIndex, NextStage(n, s, k), BeginStage(n, s, k)
          PROVE  Advances(n)
      <3>1. phase'[n] = "on" /\ sender'[n] = s /\ Sample(n)' = k /\ pc'[n] \in {"settle", "wait"}
        BY <2>3, BeginStageFacts DEF Sample
      <3>2. pc[n] = "external" => phase[n] = "ext" /\ sender[n] = MASTER /\ Sample(n) = 0
        BY <1>1 DEF Structure, Outside, Sample
      <3> QED
        BY <2>1, <2>2, <2>3, <3>1, <3>2 DEF Advances, NextStage, Sample
    <2>4. CASE LastStage(n)
      BY <1>1, <2>1, <2>2, <2>4 DEF Advances, LastStage, Goto, TypeOK, Sample
    <2> QED
      BY <1>3, <2>3, <2>4, StageStep
  <1> QED
    BY <1>2, <1>3

LEMMA LocalStage ==
    ASSUME TypeInv, HandshakeInv, NEW n \in Node, Local(n)
    PROVE  Stays(n) \/ Begins(n) \/ Advances(n)
  <1>1. CASE Begin(n)
    <2>1. TypeOK /\ Structure(n) /\ ReadyDiscipline(n)
      BY DEF TypeInv, HandshakeInv
    <2>2. pc[n] = "begin" /\ pc'[n] = "settle" /\ ready' = ready
      BY <1>1, <2>1 DEF Begin, WriteLed, Goto, TypeOK
    <2>3. phase'[n] = "ext" /\ sender'[n] = 0 /\ Sample(n)' = Sample(n)
      BY <1>1, <2>1 DEF Begin, TypeOK, Structure, Outside, Sample
    <2> QED
      BY <2>1, <2>2, <2>3, NodeFacts DEF Begins, Structure, ReadyDiscipline, Outside, Sample
  <1> QED
    BY <1>1, StagesStay, StagesAdvance

(* The board has left the handshakes it had left, and the one it leaves. *)
LEMMA AdvancePast ==
    ASSUME TypeInv, NEW n \in Node, Advances(n),
           NEW s \in Node, NEW p, NEW k \in SampleIndex, Handshake(s, p, k)
    PROVE  Past(n, s, p, k)' <=> Past(n, s, p, k) \/ At(n, s, p, k)
  <1>1. /\ pc[n] \notin Outside
        /\ sender[n] \in Int /\ Sample(n) \in Int /\ Sample(n) < Samples
    <2>1. Structure(n) /\ sender[n] \in 0 .. N /\ Sample(n) \in 0 .. Samples
      BY DEF TypeInv, TypeOK, Sample
    <2>2. pc[n] \notin Outside /\ pc[n] # "done"
      BY DEF Advances, Answered, Outside
    <2>3. Sample(n) # Samples
      BY <2>1, <2>2 DEF Structure, Sample
    <2> QED
      BY <2>1, <2>2, <2>3
  <1>2. /\ s \in Int /\ 0 <= s /\ s < N /\ k \in Int /\ 0 <= k /\ k < Samples
        /\ p \in {"ext", "on", "off"} /\ (p = "ext" => s = 0 /\ k = 0)
    BY DEF Node, SampleIndex, Handshake, MASTER
  <1>3. CASE /\ phase[n] = "ext" /\ sender[n] = MASTER /\ Sample(n) = 0
             /\ phase'[n] = "on" /\ sender'[n] = 0 /\ Sample(n)' = 0
    BY <1>1, <1>2, <1>3 DEF Past, At, MASTER
  <1>4. CASE /\ phase[n] = "on"
             /\ phase'[n] = "off" /\ sender'[n] = sender[n] /\ Sample(n)' = Sample(n)
    BY <1>1, <1>2, <1>4 DEF Past, At
  <1>5. CASE /\ phase[n] = "off"
             /\ phase'[n] = "on" /\ sender'[n] = sender[n] + 1 /\ Sample(n)' = Sample(n)
    BY <1>1, <1>2, <1>5 DEF Past, At
  <1>6. CASE /\ phase[n] = "off" /\ sender[n] + 1 = N
             /\ phase'[n] = "on" /\ sender'[n] = 0 /\ Sample(n)' = Sample(n) + 1
    BY <1>1, <1>2, <1>6 DEF Past, At
  <1>7. CASE /\ phase[n] = "off" /\ sender[n] + 1 = N /\ Sample(n) + 1 = Samples
             /\ phase'[n] = "off" /\ sender'[n] = N /\ Sample(n)' = Samples
    BY <1>1, <1>2, <1>7 DEF Past, At
  <1> QED
    BY <1>3, <1>4, <1>5, <1>6, <1>7 DEF Advances

(* A board is in a handshake or has left it, never both. *)
LEMMA AtPast ==
    ASSUME TypeInv, NEW n \in Node, NEW s, NEW p, NEW k
    PROVE  ~(At(n, s, p, k) /\ Past(n, s, p, k))
  BY DEF TypeInv, TypeOK, At, Past, Sample

(* The steps of its own program do not change what a board has had.        *)
LEMMA LocalHas ==
    ASSUME TypeInv, HandshakeInv, NEW n \in Node, Local(n),
           NEW s \in Node, s # n, NEW p, NEW k \in SampleIndex, Handshake(s, p, k)
    PROVE  /\ Has(n, s, p, k)' <=> Has(n, s, p, k)
           /\ Replied(n, s, p, k)' <=> Replied(n, s, p, k)
  <1>1. Structure(n) /\ ReadyDiscipline(n)
    BY DEF TypeInv, HandshakeInv
  <1>2. CASE Stays(n)
    BY <1>2 DEF Stays, Has, Replied, Past, At
  <1>3. CASE Begins(n)
    BY <1>3 DEF Begins, Has, Replied, Past, At, Engaged, Answered, Outside
  <1>4. CASE Advances(n)
    <2>1. Past(n, s, p, k)' <=> Past(n, s, p, k) \/ At(n, s, p, k)
      BY <1>4, AdvancePast
    <2>2. ~ Engaged(n)' /\ pc'[n] \notin Answered
      BY <1>4 DEF Advances, Engaged, Answered
    <2>3. At(n, s, p, k) => Engaged(n) /\ pc[n] \in Answered /\ sender[n] # n
      BY <1>1, <1>4 DEF Advances, Engaged, Structure, At, Sending, Answered
    <2> QED
      BY <2>1, <2>2, <2>3 DEF Has, Replied
  <1> QED
    BY <1>2, <1>3, <1>4, LocalStage

LEMMA LocalServed ==
    ASSUME TypeInv, HandshakeInv, NEW n \in Node, Local(n),
           NEW m \in Node, m # n, NEW p, NEW k \in SampleIndex, Handshake(n, p, k)
    PROVE  Served(n, m, p, k)' <=> Served(n, m, p, k)
  <1>1. Structure(n) /\ ReadyDiscipline(n)
    BY DEF TypeInv, HandshakeInv
  <1>2. Served(n, m, p, k) <=> Past(n, n, p, k) \/ (At(n, n, p, k) /\ Serves(n, m))
    BY DEF Served, Serves
  <1>3. Served(n, m, p, k)' <=> Past(n, n, p, k)' \/ (At(n, n, p, k)' /\ Serves(n, m)')
    BY DEF Served, Serves
  <1>4. CASE Stays(n)
    <2>1. Past(n, n, p, k)' <=> Past(n, n, p, k)
      BY <1>4 DEF Stays, Past
    <2>2. At(n, n, p, k)' <=> At(n, n, p, k)
      BY <1>4 DEF Stays, At
    <2>3. At(n, n, p, k) => sender[n] = n
      BY DEF At
    <2>4. sender[n] = n => (Serves(n, m)' <=> Serves(n, m))
      BY <1>4 DEF Stays
    <2> QED
      BY <1>2, <1>3, <2>1, <2>2, <2>3, <2>4
  <1>5. CASE Begins(n)
    <2>1. ~ At(n, n, p, k) /\ ~ Serves(n, m)'
      BY <1>5 DEF Begins, At, Serves, Outside, Sending, Offering
    <2>2. ~ Past(n, n, p, k)' /\ ~ Past(n, n, p, k)
      BY <1>5 DEF Begins, Past
    <2> QED
      BY <1>2, <1>3, <2>1, <2>2
  <1>6. CASE Advances(n)
    <2>1. Past(n, n, p, k)' <=> Past(n, n, p, k) \/ At(n, n, p, k)
      BY <1>6, AdvancePast
    <2>2. ~ Serves(n, m)'
      BY <1>6 DEF Advances, Serves, Sending, Offering
    <2>3. At(n, n, p, k) => Serves(n, m)
      <3> SUFFICES ASSUME At(n, n, p, k) PROVE Serves(n, m)
        OBVIOUS
      <3>1. pc[n] \in {"endturn", "external"} /\ sender[n] = n /\ receiver[n] = N
        BY <1>1, <1>6 DEF Advances, At, Answered, Answering, Structure, Outside
      <3>2. m < N
        BY DEF Node
      <3> QED
        BY <3>1, <3>2 DEF Serves, Sending
    <2> QED
      BY <1>2, <1>3, <2>1, <2>2, <2>3
  <1> QED
    BY <1>4, <1>5, <1>6, LocalStage

LEMMA BarrierLocal ==
    ASSUME TypeInv, HandshakeInv, BarrierInv, NEW n \in Node, Local(n)
    PROVE  BarrierInv'
  <1> SUFFICES ASSUME NEW s \in Node, NEW m \in Node, s # m,
                      NEW p \in {"ext", "on", "off"}, NEW k \in SampleIndex, Handshake(s, p, k)
               PROVE  /\ Served(s, m, p, k)' => Has(m, s, p, k)'
                      /\ Replied(m, s, p, k)' => Served(s, m, p, k)'
    BY DEF BarrierInv, Barrier, Handshake
  <1>1. /\ Served(s, m, p, k) => Has(m, s, p, k)
        /\ Replied(m, s, p, k) => Served(s, m, p, k)
    BY DEF BarrierInv, Barrier
  <1>2. Served(s, m, p, k)' <=> Served(s, m, p, k)
    <2>1. CASE s = n
      BY <2>1, LocalServed
    <2>2. CASE s # n
      BY <2>2, LocalFrame DEF Served, Past, At, Sample
    <2> QED
      BY <2>1, <2>2
  <1>3. /\ Has(m, s, p, k)' <=> Has(m, s, p, k)
        /\ Replied(m, s, p, k)' <=> Replied(m, s, p, k)
    <2>1. CASE m = n
      BY <2>1, LocalHas
    <2>2. CASE m # n
      BY <2>2, LocalFrame DEF Has, Replied, Past, At, Engaged, Sample
    <2> QED
      BY <2>1, <2>2
  <1> QED
    BY <1>1, <1>2, <1>3

-----------------------------------------------------------------------------
(* The two ends of a packet. *)

(* A board that sends, or that listens, does so in a handshake. *)
LEMMA InHandshake ==
    ASSUME TypeInv, NEW n \in Node, pc[n] \notin Outside, pc[n] # "done"
    PROVE  /\ Sample(n) \in SampleIndex
           /\ Handshake(sender[n], phase[n], Sample(n))
           /\ At(n, sender[n], phase[n], Sample(n))
  <1>1. Structure(n) /\ Sample(n) \in 0 .. Samples /\ phase[n] \in {"ext", "on", "off"}
    BY DEF TypeInv, TypeOK, Sample
  <1>2. Sample(n) # Samples
    BY <1>1 DEF Structure, Sample
  <1>3. Sample(n) \in SampleIndex
    BY <1>1, <1>2, SampleFacts
  <1> QED
    BY <1>1, <1>3 DEF Handshake, At, Structure, Sample

(* Of two handshakes of the same sender one comes first. *)
LEMMA Trichotomy ==
    ASSUME TypeInv, NEW n \in Node, NEW m \in Node, sender[m] = sender[n],
           phase[m] # phase[n] \/ Sample(m) # Sample(n),
           phase[n] = "ext" => Sample(n) = 0, phase[m] = "ext" => Sample(m) = 0
    PROVE  \/ Past(n, sender[n], phase[m], Sample(m))
           \/ Past(m, sender[n], phase[n], Sample(n))
  BY DEF TypeInv, TypeOK, Past, Sample

(* A receiver that accepts a request is in the sender's handshake, waits   *)
(* for that sender and has not had this request yet.                       *)
LEMMA AcceptRequest ==
    ASSUME TypeInv, HandshakeInv, BarrierInv, SkewInv, NEW n \in Node, pc[n] = "send",
           NEW m \in Node, m = receiver[n], Accepts(m, n, "SYN")
    PROVE  /\ m # n /\ sender[m] = n /\ sender[n] = n
           /\ pc[m] \in {"settle", "wait"} /\ ~ ready[m] /\ ~ Engaged(m)
           /\ phase[m] = phase[n] /\ Sample(m) = Sample(n)
           /\ pc[m] = "settle" => /\ phase[m] = "ext" /\ n = MASTER
                                  /\ since[m] = Settle /\ timer[m] <= MaxSkew
  <1>1. sender[m] = n /\ m # n /\ Sample(m) \in SampleIndex /\ pc[m] \notin {"idle", "install"}
    BY AcceptsFacts
  <1>2. Structure(n) /\ Structure(m) /\ ReadyDiscipline(n) /\ ReadyDiscipline(m)
    BY DEF TypeInv, HandshakeInv
  <1>3. sender[n] = n /\ ~ ready[n] /\ pc[n] \notin Outside
    BY <1>2 DEF Structure, ReadyDiscipline, Sending, Offering, Outside
  <1>4. pc[m] \notin Outside
    BY <1>3 DEF SkewInv, Skew
  <1>5. ~ Engaged(m)
    BY <1>1 DEF HandshakeInv, SenderDelays
  <1>6. pc[m] \in {"settle", "wait"} /\ ~ ready[m]
    <2>1. pc[m] \in Location /\ pc[m] \notin Sending /\ pc[m] # "done"
      BY <1>1, <1>2, <1>4, NodeFacts DEF TypeInv, TypeOK, Structure
    <2>2. pc[m] \notin {"take", "reply"} \cup Answered
      BY <1>1, <1>2, <1>5 DEF Engaged, ReadyDiscipline
    <2> QED
      BY <1>1, <1>4, <1>5, <2>1, <2>2 DEF Engaged, Location, Outside, Sending, Offering, Answered
  <1>7. pc[m] = "settle" => phase[m] = "ext" /\ n = MASTER
    BY <1>1, <1>2, <1>4 DEF Structure
  <1>8. /\ At(m, n, phase[m], Sample(m)) /\ Handshake(n, phase[m], Sample(m))
        /\ At(n, n, phase[n], Sample(n)) /\ Handshake(n, phase[n], Sample(n))
        /\ Sample(n) \in SampleIndex
        /\ phase[n] \in {"ext", "on", "off"} /\ phase[m] \in {"ext", "on", "off"}
    BY <1>1, <1>3, <1>4, <1>6, InHandshake DEF TypeInv, TypeOK
  <1>9. ~ Past(n, n, phase[m], Sample(m))
    <2> SUFFICES ASSUME Past(n, n, phase[m], Sample(m)) PROVE FALSE
      OBVIOUS
    <2>1. Served(n, m, phase[m], Sample(m))
      BY DEF Served
    <2>2. Has(m, n, phase[m], Sample(m))
      BY <1>1, <1>8, <2>1 DEF BarrierInv, Barrier
    <2> QED
      BY <1>1, <1>5, <1>8, <2>2, AtPast DEF Has
  <1>10. ~ Past(m, n, phase[n], Sample(n))
    <2> SUFFICES ASSUME Past(m, n, phase[n], Sample(n)) PROVE FALSE
      OBVIOUS
    <2>1. Replied(m, n, phase[n], Sample(n))
      BY DEF Replied
    <2>2. Served(n, m, phase[n], Sample(n))
      BY <1>1, <1>8, <2>1 DEF BarrierInv, Barrier
    <2>3. ~ Past(n, n, phase[n], Sample(n))
      BY <1>8, AtPast
    <2>4. ~(m < m)
      BY DEF Node
    <2> QED
      BY <1>3, <2>2, <2>3, <2>4 DEF Served
  <1>11. phase[m] = phase[n] /\ Sample(m) = Sample(n)
    BY <1>1, <1>3, <1>8, <1>9, <1>10, Trichotomy DEF Handshake
  <1>12. pc[m] = "settle" => since[m] = Settle /\ timer[m] <= MaxSkew
    BY <1>3, <1>7 DEF SkewInv, Skew
  <1> QED
    BY <1>1, <1>3, <1>5, <1>6, <1>7, <1>11, <1>12

(* A board that answers finds its sender in the delay that follows the     *)
(* transmission, waiting for this very answer.                             *)
LEMMA AcceptReply ==
    ASSUME TypeInv, HandshakeInv, NEW n \in Node, pc[n] = "reply"
    PROVE  LET s == sender[n] IN
           /\ s \in Node \ {n} /\ Engaged(n) /\ ~ ready[n]
           /\ pc[s] = "poll" /\ timer[s] > 0 /\ sender[s] = s /\ receiver[s] = n
           /\ phase[s] = phase[n] /\ Sample(s) = Sample(n)
           /\ Accepts(s, n, "ACK")
  <1>1. sender[n] \in Node \ {n} /\ ~ ready[n]
    BY DEF TypeInv, HandshakeInv, Structure, ReadyDiscipline, Answering
  <1>2. Engaged(n)
    BY <1>1 DEF Engaged
  <1>3. SenderDelays(n) /\ Structure(sender[n])
    BY <1>1 DEF HandshakeInv, TypeInv
  <1> QED
    BY <1>1, <1>2, <1>3 DEF SenderDelays, Accepts, Structure

-----------------------------------------------------------------------------
(* The handshake. *)

(* The steps of a board's program keep its discipline of `ready'. *)
LEMMA ReadyLocal ==
    ASSUME TypeInv, HandshakeInv, NEW n \in Node, Local(n)
    PROVE  ReadyDiscipline(n)'
  <1> USE DEF ReadyDiscipline, Goto, exchanged, measured
  <1>1. TypeOK /\ Structure(n) /\ ReadyDiscipline(n)
    BY DEF TypeInv, HandshakeInv
  <1>2. CASE Begins(n) \/ Advances(n)
    <2>1. ~ ready'[n] /\ pc'[n] \in {"settle", "wait", "done"}
      BY <1>2 DEF Begins, Advances
    <2> QED
      BY <2>1
  <1>3. CASE Start(n) \/ Install(n) \/ Unready(n)
    BY <1>1, <1>3 DEF TypeOK, Start, Install, Unready
  <1>4. CASE Settled(n)
    <2>1. ready' = ready /\ phase' = phase /\ pc[n] = "settle"
      BY <1>4 DEF Settled
    <2>2. CASE phase[n] = "ext" /\ n # MASTER
      <3>1. pc'[n] = "wait"
        BY <1>1, <1>4, <2>2 DEF Settled, TypeOK
      <3> QED
        BY <2>1, <3>1
    <2>3. CASE ~(phase[n] = "ext" /\ n # MASTER)
      <3>1. pc'[n] = "target"
        BY <1>1, <1>4, <2>3 DEF Settled, TypeOK
      <3> QED
        BY <1>1, <2>1, <2>3, <3>1
    <2> QED
      BY <2>2, <2>3
  <1>5. CASE Target(n) \/ NextReceiver(n) \/ Poll(n) \/ Clear(n)
    BY <1>1, <1>5 DEF TypeOK, Target, NextReceiver, Poll, Clear
  <1>6. CASE Heard(n) \/ Take(n) \/ External(n)
    BY <1>1, <1>6 DEF TypeOK, Heard, Take, External
  <1>7. CASE Begin(n)
    BY <1>1, <1>7 DEF TypeOK, Begin, WriteLed
  <1> QED
    BY <1>2, <1>3, <1>4, <1>5, <1>6, <1>7, StagesAdvance DEF Local

(* A board that still delays takes no step of its own. *)
LEMMA DelaysHere ==
    ASSUME NEW n \in Node, pc[n] \in {"settle", "poll"}, timer[n] # 0
    PROVE  ~ Local(n)
  BY DEF Local, Start, Install, Unready, Begin, Settled, Target, NextReceiver, Poll, Clear,
       Heard, Take, External, FirstStage, TurnOff, WaitOff, Leave

LEMMA HandshakeLocal ==
    ASSUME TypeInv, HandshakeInv, NEW n \in Node, Local(n)
    PROVE  HandshakeInv'
  <1>1. ASSUME NEW m \in Node PROVE ReadyDiscipline(m)'
    <2>1. CASE m = n
      BY <2>1, ReadyLocal
    <2>2. CASE m # n
      BY <2>2, LocalFrame DEF ReadyDiscipline, HandshakeInv
    <2> QED
      BY <2>1, <2>2
  <1>2. ASSUME NEW m \in Node, Engaged(m)
        PROVE  /\ sender[m] \in Node \ {m} /\ sender[m] # n
               /\ SenderDelays(m)
    <2>1. SenderDelays(m) /\ timer[sender[m]] # 0
      BY <1>2 DEF HandshakeInv, SenderDelays
    <2> QED
      BY <1>2, <2>1, DelaysHere DEF SenderDelays
  <1>3. ASSUME NEW m \in Node, m # n PROVE SenderDelays(m)'
    <2> SUFFICES ASSUME Engaged(m)' PROVE SenderDelays(m)'
      BY DEF SenderDelays
    <2>1. Engaged(m)
      BY <1>3, LocalFrame DEF Engaged
    <2>2. /\ pc'[m] = pc[m] /\ sender'[m] = sender[m] /\ phase'[m] = phase[m]
          /\ Sample(m)' = Sample(m) /\ timer'[m] = timer[m]
      BY <1>3, LocalFrame DEF Sample
    <2>3. PICK s \in Node \ {m} : s = sender[m] /\ s # n
      BY <1>2, <2>1
    <2>4. /\ pc'[s] = pc[s] /\ sender'[s] = sender[s] /\ phase'[s] = phase[s]
          /\ sample'[s] = sample[s] /\ timer'[s] = timer[s] /\ receiver'[s] = receiver[s]
          /\ ready'[s] = ready[s]
      BY <2>3, LocalFrame
    <2> QED
      BY <1>2, <2>1, <2>2, <2>3, <2>4 DEF SenderDelays, Sample
  <1>4. SenderDelays(n)'
    <2> SUFFICES ASSUME Engaged(n)' PROVE SenderDelays(n)'
      BY DEF SenderDelays
    <2>1. Stays(n)
      <3>1. ~ Begins(n) /\ ~ Advances(n)
        BY DEF Begins, Advances, Engaged, Answered
      <3> QED
        BY <3>1, LocalStage
    <2>2. /\ Engaged(n) /\ sender'[n] = sender[n] /\ phase'[n] = phase[n]
          /\ Sample(n)' = Sample(n) /\ pc'[n] # "settle"
          /\ sender[n] # n => (pc'[n] \in Answered <=> pc[n] \in Answered)
      BY <2>1 DEF Stays
    <2>3. PICK s \in Node \ {n} : s = sender[n] /\ SenderDelays(n)
      BY <1>2, <2>2
    <2>4. /\ pc'[s] = pc[s] /\ sender'[s] = sender[s] /\ phase'[s] = phase[s]
          /\ sample'[s] = sample[s] /\ timer'[s] = timer[s] /\ receiver'[s] = receiver[s]
          /\ ready'[s] = ready[s]
      BY <2>3, LocalFrame
    <2> QED
      BY <2>2, <2>3, <2>4 DEF SenderDelays, Sample
  <1> QED
    BY <1>1, <1>3, <1>4 DEF HandshakeInv

(* A transmission keeps them: the receiver it engages is in its sender's   *)
(* handshake, and the delay has just begun.                                *)
LEMMA HandshakeTransmit ==
    ASSUME TypeInv, HandshakeInv, BarrierInv, SkewInv, NEW n \in Node, NEW a, Transmit(n, a)
    PROVE  HandshakeInv'
  <1> DEFINE m == receiver[n]
  <1>1. /\ pc[n] = "send" /\ sender[n] = n /\ m \in Node \ {n}
        /\ pc' = [pc EXCEPT ![n] = "poll"] /\ timer' = [timer EXCEPT ![n] = Wait]
        /\ UNCHANGED <<handler, phase, sender, receiver, sample>>
    BY TransmitFrame
  <1>2. TypeOK
    BY DEF TypeInv
  <1>3. ASSUME NEW p \in Node
        PROVE  /\ pc'[p] = IF p = n THEN "poll" ELSE pc[p]
               /\ timer'[p] = IF p = n THEN Wait ELSE timer[p]
               /\ ReadyDiscipline(p) /\ SenderDelays(p)
    BY <1>1, <1>2 DEF TypeOK, HandshakeInv
  <1>4. ASSUME NEW p \in Node, Engaged(p), \A q \in Node : ready[q] => ready'[q]
        PROVE  SenderDelays(p)'
    <2> DEFINE s == sender[p]
    <2>1. /\ s \in Node \ {p} /\ pc[s] = "poll" /\ timer[s] > 0
          /\ sender[s] = s /\ receiver[s] = p
          /\ phase[s] = phase[p] /\ Sample(s) = Sample(p)
          /\ pc[p] = "settle" => timer[p] < timer[s]
          /\ pc[p] \in Answered => ready[s]
      BY <1>3, <1>4 DEF SenderDelays
    <2>2. s # n /\ p # n
      BY <1>1, <1>4, <2>1 DEF Engaged
    <2>3. pc'[s] = pc[s] /\ timer'[s] = timer[s] /\ pc'[p] = pc[p] /\ timer'[p] = timer[p]
      BY <1>3, <2>1, <2>2
    <2> QED
      BY <1>1, <1>4, <2>1, <2>3 DEF SenderDelays, Sample
  <1>5. CASE UNCHANGED exchanged
    <2>1. ready' = ready
      BY <1>5 DEF exchanged
    <2>2. ASSUME NEW p \in Node
          PROVE  ReadyDiscipline(p)' /\ SenderDelays(p)'
      <3>1. ReadyDiscipline(p)'
        BY <1>1, <1>3, <2>1 DEF ReadyDiscipline
      <3>2. Engaged(p)' => Engaged(p)
        BY <1>1, <1>3, <2>1 DEF Engaged, Answered
      <3> QED
        BY <1>4, <2>1, <3>1, <3>2 DEF SenderDelays
    <2> QED
      BY <2>2 DEF HandshakeInv
  <1>6. CASE Accepts(m, n, "SYN") /\ ready' = [ready EXCEPT ![m] = TRUE]
    <2>1. /\ sender[m] = n /\ pc[m] \in {"settle", "wait"} /\ m # n
          /\ phase[m] = phase[n] /\ Sample(m) = Sample(n)
          /\ pc[m] = "settle" => phase[m] = "ext" /\ n = MASTER /\ timer[m] <= MaxSkew
      BY <1>1, <1>6, AcceptRequest
    <2>2. ASSUME NEW p \in Node PROVE ready'[p] = IF p = m THEN TRUE ELSE ready[p]
      BY <1>2, <1>6 DEF TypeOK
    <2>3. ASSUME NEW p \in Node
          PROVE  ReadyDiscipline(p)' /\ SenderDelays(p)'
      <3>1. ReadyDiscipline(p)'
        <4>1. phase'[p] = phase[p] /\ ReadyDiscipline(p)
          BY <1>1, <1>3
        <4>2. CASE p = n
          <5>1. pc'[p] = "poll"
            BY <1>1, <1>3, <4>2
          <5> QED
            BY <5>1 DEF ReadyDiscipline
        <4>3. CASE p = m
          <5>1. pc'[p] = pc[p]
            BY <1>1, <1>3, <4>3
          <5> QED
            BY <2>1, <4>1, <4>3, <5>1 DEF ReadyDiscipline
        <4>4. CASE p # n /\ p # m
          BY <1>3, <2>2, <4>1, <4>4 DEF ReadyDiscipline
        <4> QED
          BY <4>2, <4>3, <4>4
      <3>2. CASE p = m
        <4>1. /\ pc'[n] = "poll" /\ timer'[n] = Wait /\ pc'[m] = pc[m] /\ timer'[m] = timer[m]
          BY <1>1, <1>3
        <4>2. timer[m] \in Nat /\ (pc[m] = "settle" => timer[m] < Wait)
          <5>1. timer[m] \in Nat
            BY <1>1, <1>2 DEF TypeOK
          <5>2. pc[m] = "settle" => timer[m] <= MaxSkew
            BY <2>1
          <5> HIDE DEF m
          <5> QED
            BY <5>1, <5>2
        <4>3. /\ sender'[m] = n /\ n \in Node \ {m} /\ sender'[n] = n /\ receiver'[n] = m
              /\ phase'[n] = phase'[m] /\ Sample(n)' = Sample(m)'
          BY <1>1, <2>1 DEF Sample
        <4>4. /\ pc'[n] = "poll" /\ timer'[n] > 0 /\ (pc'[m] = "settle" => timer'[m] < timer'[n])
              /\ pc'[m] \notin Answered
          BY <2>1, <4>1, <4>2 DEF Answered
        <4>5. SenderDelays(p)'
          BY <3>2, <4>3, <4>4 DEF SenderDelays
        <4> QED
          BY <3>1, <4>5
      <3>3. CASE p # m
        <4>1. Engaged(p)' => Engaged(p)
          BY <1>1, <1>3, <2>2, <3>3 DEF Engaged, Answered
        <4>2. \A q \in Node : ready[q] => ready'[q]
          BY <2>2
        <4>3. SenderDelays(p)'
          BY <1>4, <4>1, <4>2 DEF SenderDelays
        <4> QED
          BY <3>1, <4>3
      <3> QED
        BY <3>1, <3>2, <3>3
    <2> QED
      BY <2>3 DEF HandshakeInv
  <1> QED
    BY <1>5, <1>6, TransmitFrame

(* An answer keeps them when it arrives: the sender that it sets free is   *)
(* still delaying.                                                         *)
LEMMA HandshakeReply ==
    ASSUME TypeInv, HandshakeInv, NEW n \in Node, Reply(n, TRUE)
    PROVE  /\ HandshakeInv'
           /\ ready' = [ready EXCEPT ![sender[n]] = TRUE]
  <1> DEFINE s == sender[n]
  <1>1. /\ pc[n] = "reply" /\ s \in Node \ {n}
        /\ pc' = [pc EXCEPT ![n] = "replied"]
        /\ UNCHANGED <<phase, sender, receiver, sample, timer>>
        /\ \/ ready' = ready /\ ~(TRUE /\ Accepts(s, n, "ACK"))
           \/ ready' = [ready EXCEPT ![s] = TRUE]
    BY ReplyFrame
  <1>2. /\ Engaged(n) /\ ~ ready[n] /\ pc[s] = "poll" /\ sender[s] = s
        /\ Accepts(s, n, "ACK")
    BY <1>1, AcceptReply
  <1>3. ready' = [ready EXCEPT ![s] = TRUE]
    BY <1>1, <1>2
  <1>4. TypeOK
    BY DEF TypeInv
  <1>5. ASSUME NEW p \in Node
        PROVE  /\ pc'[p] = IF p = n THEN "replied" ELSE pc[p]
               /\ ready'[p] = IF p = s THEN TRUE ELSE ready[p]
               /\ ReadyDiscipline(p) /\ SenderDelays(p)
    BY <1>1, <1>3, <1>4 DEF TypeOK, HandshakeInv
  <1>6. ASSUME NEW p \in Node
        PROVE  ReadyDiscipline(p)' /\ SenderDelays(p)'
    <2>1. ReadyDiscipline(p)'
      <3>1. phase'[p] = phase[p] /\ ReadyDiscipline(p)
        BY <1>1, <1>5
      <3>2. CASE p = n
        <4>1. pc'[p] = "replied" /\ ~ ready'[p]
          BY <1>1, <1>2, <1>5, <3>2
        <4> QED
          BY <4>1 DEF ReadyDiscipline
      <3>3. CASE p = s
        <4>1. pc'[p] = "poll" /\ ready'[p]
          BY <1>1, <1>2, <1>5, <3>3
        <4> QED
          BY <4>1 DEF ReadyDiscipline
      <3>4. CASE p # n /\ p # s
        BY <1>5, <3>1, <3>4 DEF ReadyDiscipline
      <3> QED
        BY <3>2, <3>3, <3>4
    <2>2. Engaged(p)' => Engaged(p)
      BY <1>1, <1>2, <1>5 DEF Engaged, Answered
    <2>3. ASSUME Engaged(p) PROVE SenderDelays(p)'
      <3> DEFINE r == sender[p]
      <3>1. /\ r \in Node \ {p} /\ pc[r] = "poll" /\ timer[r] > 0
            /\ sender[r] = r /\ receiver[r] = p
            /\ phase[r] = phase[p] /\ Sample(r) = Sample(p)
            /\ pc[p] = "settle" => timer[p] < timer[r]
            /\ pc[p] \in Answered => ready[r]
        BY <1>5, <2>3 DEF SenderDelays
      <3>2. pc'[r] = "poll"
        BY <1>1, <1>5, <3>1
      <3>3. pc'[p] \in Answered => ready'[r]
        BY <1>5, <3>1
      <3>4. pc'[p] = "settle" => pc[p] = "settle"
        BY <1>5
      <3> QED
        BY <1>1, <3>1, <3>2, <3>3, <3>4 DEF SenderDelays, Sample
    <2> QED
      BY <2>1, <2>2, <2>3 DEF SenderDelays
  <1> QED
    BY <1>3, <1>6 DEF HandshakeInv

(* The time that passes while a receiver is engaged passes in its first    *)
(* delay, and that ends before its sender's.                               *)
LEMMA HandshakeTick ==
    ASSUME TypeInv, HandshakeInv, Passes
    PROVE  HandshakeInv'
  <1>1. UNCHANGED <<pc, phase, sender, receiver, ready, sample>>
    BY TickFrame
  <1>2. ASSUME NEW m \in Node, Engaged(m) PROVE SenderDelays(m)'
    <2> DEFINE s == sender[m]
    <2>1. pc[m] = "settle" /\ timer[m] > 0
      <3>1. ~ Busy(m) /\ timer[m] \in Nat
        BY TickFrame
      <3> QED
        BY <1>2, <3>1 DEF Busy, Engaged, Answered
    <2>2. /\ s \in Node \ {m} /\ pc[s] = "poll" /\ timer[s] > 0
          /\ sender[s] = s /\ receiver[s] = m
          /\ phase[s] = phase[m] /\ Sample(s) = Sample(m) /\ timer[m] < timer[s]
      BY <1>2, <2>1 DEF HandshakeInv, SenderDelays
    <2>3. timer'[m] = timer[m] - 1 /\ timer'[s] = timer[s] - 1 /\ timer[m] \in Nat /\ timer[s] \in Nat
      BY <2>1, <2>2, TickFrame
    <2>4. timer'[s] > 0 /\ timer'[m] < timer'[s]
      BY <2>1, <2>2, <2>3
    <2> QED
      BY <1>1, <2>1, <2>2, <2>4 DEF SenderDelays, Answered, Sample
  <1>3. ASSUME NEW m \in Node PROVE ReadyDiscipline(m)' /\ SenderDelays(m)'
    <2>1. ReadyDiscipline(m)'
      BY <1>1 DEF HandshakeInv, ReadyDiscipline
    <2>2. Engaged(m)' <=> Engaged(m)
      BY <1>1 DEF Engaged
    <2> QED
      BY <1>2, <2>1, <2>2 DEF SenderDelays
  <1> QED
    BY <1>3 DEF HandshakeInv

-----------------------------------------------------------------------------
(* The barriers. *)

(* A transmission gives a request to its receiver and no answer. *)
LEMMA BarrierTransmit ==
    ASSUME TypeInv, HandshakeInv, BarrierInv, SkewInv, NEW n \in Node, NEW a, Transmit(n, a)
    PROVE  BarrierInv'
  <1> DEFINE m == receiver[n]
  <1>1. /\ pc[n] = "send" /\ sender[n] = n /\ m \in Node \ {n}
        /\ pc' = [pc EXCEPT ![n] = "poll"]
        /\ UNCHANGED <<phase, sender, receiver, sample>>
    BY TransmitFrame
  <1>2. TypeOK
    BY DEF TypeInv
  <1>3. \/ ready' = ready
        \/ ready' = [ready EXCEPT ![m] = TRUE] /\ pc[m] \in {"settle", "wait"}
    <2>1. CASE UNCHANGED exchanged
      BY <2>1 DEF exchanged
    <2>2. CASE Accepts(m, n, "SYN") /\ ready' = [ready EXCEPT ![m] = TRUE]
      BY <1>1, <2>2, AcceptRequest
    <2> QED
      BY <2>1, <2>2, TransmitFrame
  <1>4. ASSUME NEW p \in Node
        PROVE  /\ pc'[p] = IF p = n THEN "poll" ELSE pc[p]
               /\ ready[p] => ready'[p]
               /\ pc[p] \notin {"settle", "wait"} => ready'[p] = ready[p]
    BY <1>1, <1>2, <1>3 DEF TypeOK
  <1> SUFFICES ASSUME NEW s \in Node, NEW q \in Node, s # q,
                      NEW p \in {"ext", "on", "off"}, NEW k \in SampleIndex, Handshake(s, p, k)
               PROVE  /\ Served(s, q, p, k)' => Has(q, s, p, k)'
                      /\ Replied(q, s, p, k)' => Served(s, q, p, k)'
    BY DEF BarrierInv, Barrier, Handshake
  <1>5. /\ Served(s, q, p, k) => Has(q, s, p, k)
        /\ Replied(q, s, p, k) => Served(s, q, p, k)
    BY DEF BarrierInv, Barrier
  <1>6. /\ Past(s, s, p, k)' <=> Past(s, s, p, k)
        /\ Past(q, s, p, k)' <=> Past(q, s, p, k)
    BY <1>1 DEF Past, Sample
  <1>7. /\ At(s, s, p, k)' <=> At(s, s, p, k)
        /\ At(q, s, p, k)' <=> At(q, s, p, k)
    BY <1>1, <1>4 DEF At, Outside, Sample
  <1>8. Serves(s, q)' <=> Serves(s, q)
    BY <1>1, <1>4 DEF Serves, Sending, Offering
  <1>9. Served(s, q, p, k)' <=> Served(s, q, p, k)
    BY <1>6, <1>7, <1>8 DEF Served, Serves
  <1>10. Has(q, s, p, k) => Has(q, s, p, k)'
    <2>1. Engaged(q) => Engaged(q)'
      BY <1>1, <1>4 DEF Engaged, Answered
    <2> QED
      BY <1>6, <1>7, <2>1 DEF Has
  <1>11. Replied(q, s, p, k)' <=> Replied(q, s, p, k)
    BY <1>1, <1>4, <1>6, <1>7 DEF Replied, Answered
  <1> QED
    BY <1>5, <1>9, <1>10, <1>11

(* An answer that arrives is the sender's for the handshake that both are  *)
(* in.                                                                     *)
LEMMA BarrierReply ==
    ASSUME TypeInv, HandshakeInv, BarrierInv, NEW n \in Node, Reply(n, TRUE)
    PROVE  BarrierInv'
  <1> DEFINE r == sender[n]
  <1>1. /\ pc[n] = "reply" /\ r \in Node \ {n}
        /\ pc' = [pc EXCEPT ![n] = "replied"]
        /\ UNCHANGED <<phase, sender, receiver, sample>>
    BY ReplyFrame
  <1>2. ready' = [ready EXCEPT ![r] = TRUE]
    BY HandshakeReply
  <1>3. /\ Engaged(n) /\ ~ ready[n] /\ pc[r] = "poll" /\ sender[r] = r /\ receiver[r] = n
        /\ phase[r] = phase[n] /\ Sample(r) = Sample(n)
    BY <1>1, AcceptReply
  <1>4. ASSUME NEW p \in Node
        PROVE  /\ pc'[p] = IF p = n THEN "replied" ELSE pc[p]
               /\ ready'[p] = IF p = r THEN TRUE ELSE ready[p]
    BY <1>1, <1>2 DEF TypeInv, TypeOK
  <1> SUFFICES ASSUME NEW s \in Node, NEW q \in Node, s # q,
                      NEW p \in {"ext", "on", "off"}, NEW k \in SampleIndex, Handshake(s, p, k)
               PROVE  /\ Served(s, q, p, k)' => Has(q, s, p, k)'
                      /\ Replied(q, s, p, k)' => Served(s, q, p, k)'
    BY DEF BarrierInv, Barrier, Handshake
  <1>5. /\ Served(s, q, p, k) => Has(q, s, p, k)
        /\ Replied(q, s, p, k) => Served(s, q, p, k)
    BY DEF BarrierInv, Barrier
  <1>6. /\ Past(s, s, p, k)' <=> Past(s, s, p, k)
        /\ Past(q, s, p, k)' <=> Past(q, s, p, k)
    BY <1>1 DEF Past, Sample
  <1>7. /\ At(s, s, p, k)' <=> At(s, s, p, k)
        /\ At(q, s, p, k)' <=> At(q, s, p, k)
    BY <1>1, <1>4 DEF At, Outside, Sample
  <1>8. Engaged(q) => Engaged(q)'
    BY <1>1, <1>3, <1>4 DEF Engaged, Answered
  <1>9. Has(q, s, p, k) => Has(q, s, p, k)'
    BY <1>6, <1>7, <1>8 DEF Has
  <1>10. CASE q = n /\ s = r /\ At(n, r, p, k)
    <2>1. At(s, s, p, k)
      BY <1>3, <1>10 DEF At, Outside
    <2>2. Serves(s, q)'
      <3>1. pc'[s] = "poll" /\ receiver'[s] = q /\ ready'[s]
        BY <1>1, <1>3, <1>4, <1>10
      <3> QED
        BY <3>1 DEF Serves, Sending, Offering
    <2>3. Served(s, q, p, k)'
      BY <1>7, <1>10, <2>1, <2>2 DEF Served, Serves
    <2>4. Has(q, s, p, k)
      BY <1>3, <1>10 DEF Has
    <2> QED
      BY <1>9, <2>3, <2>4
  <1>11. CASE ~(q = n /\ s = r /\ At(n, r, p, k))
    <2>1. Replied(q, s, p, k)' <=> Replied(q, s, p, k)
      <3>1. CASE q # n
        BY <1>1, <1>4, <1>6, <1>7, <3>1 DEF Replied
      <3>2. CASE q = n
        <4>1. ~ At(q, s, p, k)
          BY <1>11, <3>2 DEF At
        <4> QED
          BY <1>6, <1>7, <4>1 DEF Replied
      <3> QED
        BY <3>1, <3>2
    <2>2. Served(s, q, p, k)' <=> Served(s, q, p, k)
      <3>1. CASE s # r \/ q # n
        <4>1. Serves(s, q)' <=> Serves(s, q)
          <5>1. CASE s # r
            <6>1. /\ receiver'[s] = receiver[s] /\ ready'[s] = ready[s]
                  /\ pc'[s] = pc[s] \/ (pc[s] = "reply" /\ pc'[s] = "replied")
              BY <1>1, <1>4, <5>1
            <6> QED
              BY <6>1 DEF Serves, Sending, Offering
          <5>2. CASE s = r
            <6>1. /\ pc[s] = "poll" /\ pc'[s] = "poll" /\ receiver[s] = n /\ receiver'[s] = n
                  /\ q # n
              BY <1>1, <1>3, <1>4, <3>1, <5>2
            <6> QED
              BY <6>1 DEF Serves, Sending, Offering
          <5> QED
            BY <5>1, <5>2
        <4> QED
          BY <1>6, <1>7, <4>1 DEF Served, Serves
      <3>2. CASE s = r /\ q = n
        <4>1. ~ At(s, s, p, k)
          <5>1. ~ At(n, r, p, k)
            BY <1>11, <3>2
          <5> QED
            BY <1>1, <1>3, <3>2, <5>1 DEF At, Outside
        <4> QED
          BY <1>6, <1>7, <4>1 DEF Served
      <3> QED
        BY <3>1, <3>2
    <2> QED
      BY <1>5, <1>9, <2>1, <2>2
  <1> QED
    BY <1>10, <1>11

LEMMA BarrierTick ==
    ASSUME TypeInv, BarrierInv, Passes
    PROVE  BarrierInv'
  <1>1. UNCHANGED <<pc, phase, sender, receiver, ready, sample>>
    BY TickFrame
  <1> SUFFICES ASSUME NEW s \in Node, NEW q \in Node, s # q,
                      NEW p \in {"ext", "on", "off"}, NEW k \in SampleIndex, Handshake(s, p, k)
               PROVE  /\ Served(s, q, p, k)' => Has(q, s, p, k)'
                      /\ Replied(q, s, p, k)' => Served(s, q, p, k)'
    BY DEF BarrierInv, Barrier, Handshake
  <1>2. /\ Served(s, q, p, k) => Has(q, s, p, k)
        /\ Replied(q, s, p, k) => Served(s, q, p, k)
    BY DEF BarrierInv, Barrier
  <1>3. Past(s, s, p, k)' = Past(s, s, p, k) /\ At(s, s, p, k)' = At(s, s, p, k)
    BY <1>1 DEF Past, At, Sample
  <1>4. Past(q, s, p, k)' = Past(q, s, p, k) /\ At(q, s, p, k)' = At(q, s, p, k)
    BY <1>1 DEF Past, At, Sample
  <1>5. Engaged(q)' = Engaged(q)
    BY <1>1 DEF Engaged
  <1> QED
    BY <1>1, <1>2, <1>3, <1>4, <1>5 DEF Served, Has, Replied

-----------------------------------------------------------------------------
(* How far apart the boards have started. *)

LEMMA SkewLocal ==
    ASSUME TypeInv, HandshakeInv, SkewInv, NEW a \in Node, Local(a)
    PROVE  SkewInv'
  <1>1. /\ lag \in Nat /\ lag <= MaxSkew /\ lag' = lag /\ MASTER \in Node
        /\ \A n \in Node : timer[n] \in Nat /\ since[n] \in 0 .. Settle
    <2>1. \E m \in Node : m # a
      <3>1. 0 \in Node /\ 1 \in Node /\ 0 # 1
        BY DEF Node
      <3> QED
        BY <3>1
    <2>2. lag' = lag
      BY <2>1, LocalFrame
    <2>3. lag \in 0 .. MaxSkew /\ timer \in [Node -> Nat] /\ since \in [Node -> 0 .. Settle]
      BY DEF TypeInv, TypeOK
    <2> QED
      BY <2>2, <2>3, NodeFacts
  <1>2. ASSUME NEW m \in Node, m # a
        PROVE  /\ pc'[m] = pc[m] /\ phase'[m] = phase[m]
               /\ timer'[m] = timer[m] /\ since'[m] = since[m]
    BY <1>2, LocalFrame
  <1>3. pc[a] = "settle" => timer[a] = 0
    BY DelaysHere
  <1>4. Begins(a) => /\ pc[a] = "begin" /\ pc'[a] = "settle" /\ phase'[a] = "ext"
                     /\ timer'[a] = WaitLed /\ since'[a] = 0
    <2> SUFFICES ASSUME Begins(a) PROVE timer'[a] = WaitLed /\ since'[a] = 0
      BY DEF Begins
    <2>1. Begin(a)
      BY DEF Begins, Local, Start, Install, Unready, Settled, Target, NextReceiver, Poll, Clear,
           Heard, Take, External, FirstStage, TurnOff, WaitOff, Leave
    <2>2. WriteLed(a, Off) /\ pc[a] = "begin"
      BY <2>1 DEF Begin
    <2>3. led[a] # Off
      BY <2>2, SampleFacts DEF TypeInv, Lamp, Outside
    <2> QED
      BY <2>2, <2>3, WriteLedFacts, SampleFacts
  <1>5. Stays(a) => pc'[a] # "settle" /\ (pc'[a] \in Outside <=> pc[a] \in Outside)
    BY DEF Stays
  <1>6. Advances(a) => pc[a] \notin Outside \cup {"settle"} /\ pc'[a] \notin Outside
                       /\ phase'[a] # "ext"
    BY DEF Advances, Answered, Outside
  <1>7. Stays(a) \/ Begins(a) \/ Advances(a)
    BY LocalStage
  <1>8. ASSUME NEW n \in Node, pc'[n] \in Outside, NEW m \in Node, pc'[m] \notin Outside
        PROVE  pc'[m] = "settle" /\ phase'[m] = "ext" /\ timer'[m] + lag' >= WaitLed
    <2>1. pc[n] \in Outside
      BY <1>2, <1>4, <1>5, <1>6, <1>7, <1>8 DEF Outside
    <2>2. pc[m] \notin Outside =>
            pc[m] = "settle" /\ phase[m] = "ext" /\ timer[m] + lag >= WaitLed
      BY <2>1 DEF SkewInv, Skew
    <2>3. CASE m # a
      BY <1>1, <1>2, <1>8, <2>2, <2>3
    <2>4. CASE m = a /\ Begins(a)
      BY <1>1, <1>4, <2>4
    <2>5. CASE m = a /\ ~ Begins(a)
      <3>1. pc[a] \notin Outside
        BY <1>5, <1>6, <1>7, <1>8, <2>5
      <3>2. pc[a] = "settle" /\ timer[a] + lag >= WaitLed
        BY <2>2, <2>5, <3>1
      <3> QED
        BY <1>1, <1>3, <3>2
    <2> QED
      BY <2>3, <2>4, <2>5
  <1>9. ASSUME NEW n \in Node, pc'[n] = "settle", phase'[n] = "ext", pc'[MASTER] \notin Outside
        PROVE  IF phase'[MASTER] = "ext" /\ pc'[MASTER] = "settle"
                 THEN /\ since'[n] + timer'[MASTER] >= Settle
                      /\ timer'[n] <= timer'[MASTER] + MaxSkew
                 ELSE since'[n] = Settle /\ timer'[n] <= MaxSkew
    <2>1. CASE n = a
      <3>1. /\ Begins(a) /\ pc[a] = "begin" /\ phase'[a] = "ext"
            /\ timer'[a] = WaitLed /\ since'[a] = 0
        BY <1>4, <1>5, <1>6, <1>7, <1>9, <2>1
      <3>2. CASE a = MASTER
        BY <1>9, <2>1, <3>1, <3>2
      <3>3. CASE a # MASTER
        <4>1. /\ pc[MASTER] = "settle" /\ phase[MASTER] = "ext"
              /\ timer[MASTER] + lag >= WaitLed
          BY <1>1, <1>2, <1>9, <3>1, <3>3 DEF SkewInv, Skew, Outside
        <4>2. /\ pc'[MASTER] = "settle" /\ phase'[MASTER] = "ext"
              /\ timer'[MASTER] = timer[MASTER]
          BY <1>1, <1>2, <3>3, <4>1
        <4> QED
          BY <1>1, <2>1, <3>1, <4>1, <4>2
      <3> QED
        BY <3>2, <3>3
    <2>2. CASE n # a /\ a # MASTER
      BY <1>1, <1>2, <1>9, <2>2 DEF SkewInv, Skew
    <2>3. CASE n # a /\ a = MASTER
      <3>1. pc[n] = "settle" /\ phase[n] = "ext" /\ timer'[n] = timer[n] /\ since'[n] = since[n]
        BY <1>2, <1>9, <2>3
      <3>2. CASE Begins(a)
        <4>1. timer[n] <= WaitLed
          BY <3>1 DEF TypeInv, Lamp
        <4>2. /\ timer'[MASTER] = WaitLed /\ pc'[MASTER] = "settle" /\ phase'[MASTER] = "ext"
          BY <1>4, <2>3, <3>2
        <4> QED
          BY <1>1, <3>1, <4>1, <4>2
      <3>3. CASE ~ Begins(a)
        <4>1. /\ pc[MASTER] \notin Outside
              /\ ~(phase'[MASTER] = "ext" /\ pc'[MASTER] = "settle")
              /\ pc[MASTER] = "settle" => timer[MASTER] = 0
          BY <1>3, <1>5, <1>6, <1>7, <1>9, <2>3, <3>3
        <4>2. IF phase[MASTER] = "ext" /\ pc[MASTER] = "settle"
                THEN /\ since[n] + timer[MASTER] >= Settle
                     /\ timer[n] <= timer[MASTER] + MaxSkew
                ELSE since[n] = Settle /\ timer[n] <= MaxSkew
          BY <3>1, <4>1 DEF SkewInv, Skew
        <4>3. since[n] = Settle /\ timer[n] <= MaxSkew
          BY <1>1, <4>1, <4>2
        <4> QED
          BY <3>1, <4>1, <4>3
      <3> QED
        BY <3>2, <3>3
    <2> QED
      BY <2>1, <2>2, <2>3
  <1> QED
    BY <1>8, <1>9 DEF SkewInv, Skew

(* A board that has packets to send has found everybody in calibrate. *)
LEMMA SkewSends ==
    ASSUME TypeInv, SkewInv, NEW a \in Node, pc[a] \in {"send", "reply"},
           NEW l \in {"poll", "replied"}, pc' = [pc EXCEPT ![a] = l],
           UNCHANGED <<phase, since>>, \A n \in Node : n # a => timer'[n] = timer[n]
    PROVE  SkewInv'
  <1>1. ASSUME NEW n \in Node PROVE pc[n] \notin Outside
    BY DEF SkewInv, Skew, Outside
  <1>2. \A n \in Node : pc'[n] = IF n = a THEN l ELSE pc[n]
    BY DEF TypeInv, TypeOK
  <1>3. \A n \in Node : pc'[n] \notin Outside
    BY <1>1, <1>2 DEF Outside
  <1>4. ASSUME NEW n \in Node, pc'[n] = "settle", phase'[n] = "ext"
        PROVE  IF phase'[MASTER] = "ext" /\ pc'[MASTER] = "settle"
                 THEN /\ since'[n] + timer'[MASTER] >= Settle
                      /\ timer'[n] <= timer'[MASTER] + MaxSkew
                 ELSE since'[n] = Settle /\ timer'[n] <= MaxSkew
    <2>1. n # a /\ pc[n] = "settle" /\ phase[n] = "ext"
      BY <1>2, <1>4
    <2>2. IF phase[MASTER] = "ext" /\ pc[MASTER] = "settle"
            THEN /\ since[n] + timer[MASTER] >= Settle
                 /\ timer[n] <= timer[MASTER] + MaxSkew
            ELSE since[n] = Settle /\ timer[n] <= MaxSkew
      BY <1>1, <2>1, NodeFacts DEF SkewInv, Skew
    <2>3. /\ pc'[MASTER] = "settle" <=> pc[MASTER] = "settle"
          /\ pc[MASTER] = "settle" => timer'[MASTER] = timer[MASTER]
      BY <1>2, NodeFacts
    <2> QED
      BY <2>1, <2>2, <2>3
  <1> QED
    BY <1>3, <1>4 DEF SkewInv, Skew

LEMMA SkewTick ==
    ASSUME TypeInv, SkewInv, Passes
    PROVE  SkewInv'
  <1>1. /\ UNCHANGED <<pc, phase>> /\ MASTER \in Node
        /\ lag \in Nat /\ lag <= MaxSkew /\ lag' = (IF lag < MaxSkew THEN lag + 1 ELSE MaxSkew)
    BY TickFrame, NodeFacts
  <1>2. ASSUME NEW n \in Node
        PROVE  /\ timer[n] \in Nat /\ since[n] \in 0 .. Settle
               /\ timer'[n] = IF timer[n] > 0 THEN timer[n] - 1 ELSE 0
               /\ since'[n] = IF since[n] < Settle THEN since[n] + 1 ELSE Settle
               /\ pc[n] = "settle" => timer[n] > 0
               /\ pc[n] \in Outside => pc[n] = "idle"
    <2>1. ~ Busy(n) /\ timer[n] \in Nat
      BY TickFrame
    <2>2. pc[n] = "settle" => timer[n] > 0
      BY <2>1 DEF Busy
    <2>3. pc[n] \in Outside => pc[n] = "idle"
      BY <2>1 DEF Busy, Outside
    <2> QED
      BY <2>2, <2>3, TickFrame
  <1>3. ASSUME NEW n \in Node, pc[n] \in Outside, NEW m \in Node, pc[m] \notin Outside
        PROVE  pc[m] = "settle" /\ phase[m] = "ext" /\ timer'[m] + lag' >= WaitLed
    <2>1. pc[m] = "settle" /\ phase[m] = "ext" /\ timer[m] + lag >= WaitLed
      BY <1>3 DEF SkewInv, Skew
    <2>2. lag < MaxSkew
      <3>1. Started # Node
        BY <1>2, <1>3 DEF Started
      <3> QED
        BY <3>1, TickFrame
    <2>3. lag' = lag + 1 /\ timer'[m] = timer[m] - 1 /\ timer[m] \in Nat
      BY <1>1, <1>2, <2>1, <2>2
    <2> QED
      BY <1>1, <2>1, <2>3
  <1>4. ASSUME NEW n \in Node, pc[n] = "settle", phase[n] = "ext", pc[MASTER] \notin Outside
        PROVE  IF phase[MASTER] = "ext" /\ pc[MASTER] = "settle"
                 THEN /\ since'[n] + timer'[MASTER] >= Settle
                      /\ timer'[n] <= timer'[MASTER] + MaxSkew
                 ELSE since'[n] = Settle /\ timer'[n] <= MaxSkew
    <2>1. IF phase[MASTER] = "ext" /\ pc[MASTER] = "settle"
            THEN /\ since[n] + timer[MASTER] >= Settle
                 /\ timer[n] <= timer[MASTER] + MaxSkew
            ELSE since[n] = Settle /\ timer[n] <= MaxSkew
      BY <1>4 DEF SkewInv, Skew
    <2>2. /\ timer'[n] = timer[n] - 1 /\ timer[n] \in Nat /\ since[n] \in 0 .. Settle
          /\ since'[n] = IF since[n] < Settle THEN since[n] + 1 ELSE Settle
          /\ timer[MASTER] \in Nat
          /\ pc[MASTER] = "settle" => timer[MASTER] > 0 /\ timer'[MASTER] = timer[MASTER] - 1
      BY <1>1, <1>2, <1>4
    <2> QED
      BY <2>1, <2>2
  <1> QED
    BY <1>1, <1>3, <1>4 DEF SkewInv, Skew

-----------------------------------------------------------------------------
(* What a sensor sees. *)

(* A receiver does not leave a handshake before its sender has served it.  *)
LEMMA Follows ==
    ASSUME BarrierInv, NEW s \in Node, NEW m \in Node, m # s,
           NEW p \in {"ext", "on", "off"}, NEW k \in SampleIndex, Handshake(s, p, k),
           Past(m, s, p, k)
    PROVE  Past(s, s, p, k) \/ (At(s, s, p, k) /\ pc[s] \in Sending \cup {"external"})
  <1>1. Served(s, m, p, k)
    BY DEF BarrierInv, Barrier, Replied
  <1> QED
    BY <1>1 DEF Served

(* While a board has its own lamp lit all boards have the external light,  *)
(* and the lamps of the others have been off for long enough.              *)
LEMMA OthersDark ==
    ASSUME IInv, NEW n \in Node, NEW k \in SampleIndex, At(n, n, "on", k), NEW p \in Node, p # n
    PROVE  led[p] = Off /\ since[p] = Settle
  <1>1. /\ pc[n] \notin Outside /\ phase[n] = "on" /\ sender[n] = n /\ sample[n] = k
        /\ TypeInv /\ HandshakeInv /\ BarrierInv /\ SkewInv
    BY DEF At, IInv, Sample
  <1>2. /\ Structure(p) /\ Lamp(p) /\ phase[p] \in {"ext", "on", "off"}
        /\ sender[p] \in 0 .. N /\ sample[p] \in 0 .. Samples
    BY <1>1 DEF TypeInv, TypeOK
  <1>3. pc[p] \notin Outside
    BY <1>1 DEF SkewInv, Skew
  <1>4. MASTER \in Node /\ MASTER = 0 /\ 0 \in SampleIndex
    BY NodeFacts, SampleFacts
  <1>5. phase[MASTER] # "ext"
    <2>1. CASE n = MASTER
      BY <1>1, <2>1
    <2>2. CASE n # MASTER
      <3>1. Handshake(MASTER, "off", 0) /\ Past(n, MASTER, "off", 0)
        BY <1>1, <1>4, <2>2 DEF Handshake, Past, Node, SampleIndex, Sample
      <3>2. Past(MASTER, MASTER, "off", 0) \/ At(MASTER, MASTER, "off", 0)
        BY <1>1, <1>4, <2>2, <3>1, Follows
      <3> QED
        BY <3>2 DEF Past, At
    <2> QED
      BY <2>1, <2>2
  <1>6. phase[p] # "ext"
    <2> SUFFICES ASSUME phase[p] = "ext" PROVE FALSE
      OBVIOUS
    <2>1. p # MASTER
      BY <1>5
    <2>2. Handshake(MASTER, "ext", 0) /\ Served(MASTER, p, "ext", 0)
      BY <1>4, <1>5 DEF Handshake, Served, Past
    <2>3. Has(p, MASTER, "ext", 0)
      BY <1>1, <1>4, <2>1, <2>2 DEF BarrierInv, Barrier
    <2>4. Engaged(p) /\ sender[p] = MASTER
      BY <2>3 DEF Has, Past, At
    <2> QED
      BY <1>1, <1>5, <2>4 DEF HandshakeInv, SenderDelays
  (* Another turn of a board is over when n is in its own. *)
  <1>7. ASSUME sender[p] = p PROVE phase[p] = "off" /\ pc[p] # "settle"
    <2> DEFINE j == sample[p]
    <2>1. pc[p] # "done" /\ j \in SampleIndex
      BY <1>2, <1>3, <1>6, <1>7, NodeFacts, SampleFacts DEF Structure
    <2>2. At(p, p, phase[p], j)
      BY <1>3, <1>6, <1>7 DEF At, Sample
    <2>3. ~(j > k \/ (j = k /\ p > n))
      <3> SUFFICES ASSUME j > k \/ (j = k /\ p > n) PROVE FALSE
        OBVIOUS
      <3>1. Handshake(n, "off", k) /\ Past(p, n, "off", k)
        BY <1>6, <1>7 DEF Handshake, Past, Sample
      <3>2. Past(n, n, "off", k) \/ At(n, n, "off", k)
        BY <1>1, <3>1, Follows
      <3> QED
        BY <1>1, <3>2 DEF Past, At, Node, SampleIndex
    <2>4. k > j \/ (k = j /\ n > p)
      <3>1. k \in Int /\ j \in Int /\ n \in Int /\ p \in Int
        BY <2>1 DEF Node, SampleIndex
      <3> QED
        BY <2>3, <3>1
    <2>5. Handshake(p, "off", j) /\ Past(n, p, "off", j)
      BY <1>1, <2>1, <2>4 DEF Handshake, Past, Sample
    <2>6. Past(p, p, "off", j) \/ (At(p, p, "off", j) /\ pc[p] \in Sending \cup {"external"})
      BY <1>1, <2>1, <2>5, Follows
    <2>7. ~ Past(p, p, "off", j)
      BY <1>6, <1>7, <2>1 DEF Past, Node, SampleIndex, Sample
    <2> QED
      BY <2>6, <2>7 DEF At, Sending, Offering
  <1>8. led[p] = Off
    BY <1>2, <1>3, <1>7 DEF Lamp
  <1>9. pc[p] # "settle"
    BY <1>2, <1>6, <1>7 DEF Structure
  <1> QED
    BY <1>2, <1>8, <1>9 DEF Lamp

(* While there is light to be measured every board takes part: none has    *)
(* still to begin, and none has finished.                                  *)
LEMMA AllTakePart ==
    ASSUME IInv, NEW n \in Node, pc[n] \notin Outside, sender[n] = n, phase[n] # "off",
           pc[n] = "settle" /\ phase[n] = "ext" => timer[n] = 0, NEW m \in Node
    PROVE  pc[m] \notin Outside /\ pc[m] # "done"
  <1>1. /\ TypeInv /\ BarrierInv /\ SkewInv
        /\ Structure(n) /\ Structure(m) /\ n \in 0 .. N /\ n # N
        /\ lag \in 0 .. MaxSkew /\ phase[n] \in {"ext", "on", "off"}
        /\ sample[n] \in 0 .. Samples
    BY NodeFacts DEF IInv, TypeInv, TypeOK
  <1>2. pc[m] \notin Outside
    BY <1>1 DEF SkewInv, Skew
  <1>3. ASSUME pc[m] = "done" PROVE FALSE
    <2> DEFINE p == IF phase[n] = "ext" THEN "on" ELSE "off"
    <2>1. m # n /\ phase[m] = "off" /\ sample[m] = Samples
      BY <1>1, <1>3 DEF Structure
    <2>2. Sample(n) \in SampleIndex /\ (phase[n] = "ext" => n = MASTER)
      BY <1>1, SampleFacts, NodeFacts DEF Structure, Sample
    <2>3. Handshake(n, p, Sample(n)) /\ Past(m, n, p, Sample(n))
      BY <2>1, <2>2 DEF Handshake, Past, Sample, SampleIndex
    <2>4. Past(n, n, p, Sample(n)) \/ At(n, n, p, Sample(n))
      BY <1>1, <2>1, <2>2, <2>3, Follows
    <2> QED
      BY <1>1, <2>2, <2>4 DEF Past, At, Sample, Node, SampleIndex
  <1> QED
    BY <1>2, <1>3

(* So a board whose lamp has settled sees it alone. *)
LEMMA ReadingLamp ==
    ASSUME IInv, NEW n \in Node, NEW k \in SampleIndex, At(n, n, "on", k),
           pc[n] # "settle" \/ timer[n] = 0
    PROVE  Reading = OnlyLamp(n, k)
  <1>1. led \in [Node -> Level] /\ Lamp(n) /\ since[n] \in 0 .. Settle
    BY DEF IInv, TypeInv, TypeOK
  <1>2. led[n] = Lit(k) /\ since[n] = Settle
    BY <1>1 DEF Lamp, At, Sample
  <1>3. \A p \in Node : p # n => led[p] = Off /\ since[p] = Settle
    BY OthersDark
  <1>4. Reading = led
    BY <1>2, <1>3 DEF Reading
  <1>5. led = OnlyLamp(n, k)
    BY <1>1, <1>2, <1>3 DEF OnlyLamp, AllOff
  <1> QED
    BY <1>4, <1>5

(* While the master measures the external light, or has the others measure *)
(* it, no lamp is lit and all have settled.                                *)
LEMMA ReadingDark ==
    ASSUME IInv, phase[MASTER] = "ext",
           pc[MASTER] = "send" \/ (pc[MASTER] = "settle" /\ timer[MASTER] = 0)
    PROVE  Reading = AllOff
  <1>1. /\ TypeInv /\ HandshakeInv /\ BarrierInv /\ SkewInv
        /\ MASTER \in Node /\ MASTER = 0 /\ 0 \in SampleIndex
    BY NodeFacts, SampleFacts DEF IInv
  <1>2. led \in [Node -> Level] /\ lag \in 0 .. MaxSkew /\ since \in [Node -> 0 .. Settle]
    BY <1>1 DEF TypeInv, TypeOK
  <1>3. ASSUME NEW p \in Node PROVE led[p] = Off /\ since[p] = Settle
    <2>1. /\ Structure(p) /\ Lamp(p) /\ phase[p] \in {"ext", "on", "off"}
          /\ sender[p] \in 0 .. N /\ sample[p] \in 0 .. Samples
      BY <1>1 DEF TypeInv, TypeOK
    <2>2. pc[p] \notin Outside
      BY <1>1, <1>2 DEF SkewInv, Skew, Outside
    <2>3. phase[p] # "ext" => pc[MASTER] = "send" /\ phase[p] = "on" /\ sender[p] = 0
      <3> SUFFICES ASSUME phase[p] # "ext"
                   PROVE  pc[MASTER] = "send" /\ phase[p] = "on" /\ sender[p] = 0
        OBVIOUS
      <3>1. p # MASTER
        OBVIOUS
      <3>2. Handshake(MASTER, "ext", 0) /\ Past(p, MASTER, "ext", 0)
        BY <1>1 DEF Handshake, Past
      <3>3. ~ Past(MASTER, MASTER, "ext", 0)
        BY DEF Past
      <3>4. pc[MASTER] \in Sending \cup {"external"}
        BY <1>1, <3>1, <3>2, <3>3, Follows
      <3>5. Handshake(MASTER, "on", 0)
        BY <1>1 DEF Handshake
      <3>6. ~ Past(p, MASTER, "on", 0)
        <4>1. ~ Past(MASTER, MASTER, "on", 0) /\ ~ At(MASTER, MASTER, "on", 0)
          BY DEF Past, At
        <4> QED
          BY <1>1, <3>1, <3>5, <4>1, Follows
      <3> QED
        BY <1>1, <2>1, <3>4, <3>6 DEF Past, Sending, Offering, Sample
    <2>4. led[p] = Off
      BY <1>1, <2>1, <2>2, <2>3 DEF Lamp
    <2>5. pc[p] = "settle" => phase[p] = "ext"
      BY <1>1, <2>1, <2>3 DEF Structure
    <2>6. pc[p] = "settle" => since[p] = Settle
      <3> SUFFICES ASSUME pc[p] = "settle" PROVE since[p] = Settle
        OBVIOUS
      <3>1. IF pc[MASTER] = "settle" THEN since[p] + timer[MASTER] >= Settle
                                     ELSE since[p] = Settle
        BY <1>1, <2>5 DEF SkewInv, Skew, Outside
      <3>2. since[p] \in 0 .. Settle
        BY <1>2
      <3> QED
        BY <3>1, <3>2
    <2> QED
      BY <2>1, <2>4, <2>6 DEF Lamp
  <1>4. Reading = led
    BY <1>3 DEF Reading
  <1>5. led = AllOff
    BY <1>2, <1>3 DEF AllOff
  <1> QED
    BY <1>4, <1>5

-----------------------------------------------------------------------------
(* The measurements. *)

(* What a step must leave of a board for its data and its next request to  *)
(* stay what they are.                                                     *)
Keeps(n) ==
    /\ dark'[n] = dark[n] /\ Y'[n] = Y[n]
    /\ DarkMeasured(n)' => DarkMeasured(n)
    /\ \A s \in Node, k \in SampleIndex : Measured(n, s, k)' => Measured(n, s, k)

LEMMA KeepsData ==
    ASSUME NEW n \in Node, Data(n), Keeps(n)
    PROVE  Data(n)'
  BY DEF Data, Keeps

(* A step that leaves the program of a board alone keeps its data. *)
LEMMA QuietData ==
    ASSUME DataInv, NEW n \in Node,
           pc'[n] = pc[n] \/ (pc[n] = "send" /\ pc'[n] = "poll" /\ sender[n] = n)
                          \/ (pc[n] = "reply" /\ pc'[n] = "replied" /\ sender[n] # n),
           phase'[n] = phase[n], sender'[n] = sender[n], sample'[n] = sample[n],
           dark'[n] = dark[n], Y'[n] = Y[n], state'[n] = state[n],
           Engaged(n)' <=> Engaged(n)
    PROVE  Data(n)' /\ Request(n)'
  <1>1. Data(n) /\ Request(n)
    BY DEF DataInv
  <1>2. /\ pc'[n] \in Outside <=> pc[n] \in Outside
        /\ pc'[n] = "settle" <=> pc[n] = "settle"
        /\ pc'[n] = "external" <=> pc[n] = "external"
    BY DEF Outside
  <1>3. ASSUME NEW s, NEW p, NEW k
        PROVE  /\ Past(n, s, p, k)' <=> Past(n, s, p, k)
               /\ At(n, s, p, k)' <=> At(n, s, p, k)
    BY <1>2 DEF Past, At, Sample
  <1>4. ASSUME NEW s, NEW p, NEW k PROVE Has(n, s, p, k)' <=> Has(n, s, p, k)
    BY <1>3 DEF Has
  <1>5. DarkMeasured(n)' <=> DarkMeasured(n)
    BY <1>2, <1>4 DEF DarkMeasured
  <1>6. ASSUME NEW s, NEW k PROVE Measured(n, s, k)' <=> Measured(n, s, k)
    BY <1>2, <1>3, <1>4 DEF Measured
  <1>7. Data(n)'
    BY <1>1, <1>5, <1>6, KeepsData DEF Keeps
  <1>8. Request(n)'
    BY <1>1, <1>2 DEF Request
  <1> QED
    BY <1>7, <1>8

(* What the steps of a board's program have had it measure: its own lamp   *)
(* when the delay after lighting it is over, and as the master the dark.   *)
LEMMA LocalMeasured ==
    ASSUME TypeInv, TypeInv', HandshakeInv, NEW n \in Node, Local(n),
           NEW s \in Node, NEW k \in SampleIndex
    PROVE  Measured(n, s, k)' => \/ Measured(n, s, k)
                                 \/ s = n /\ Settled(n) /\ At(n, n, "on", k)
  <1>1. Handshake(s, "on", k)
    BY DEF Handshake
  <1>2. CASE s # n
    BY <1>1, <1>2, LocalHas DEF Measured
  <1>3. CASE s = n
    <2>1. Measured(n, n, k) <=> Past(n, n, "on", k) \/ (At(n, n, "on", k) /\ pc[n] # "settle")
      BY DEF Measured
    <2>2. Measured(n, n, k)' <=> Past(n, n, "on", k)' \/ (At(n, n, "on", k)' /\ pc'[n] # "settle")
      BY DEF Measured
    <2>3. CASE Stays(n)
      <3>1. /\ Past(n, n, "on", k)' <=> Past(n, n, "on", k)
            /\ At(n, n, "on", k)' <=> At(n, n, "on", k)
        BY <2>3 DEF Stays, Past, At
      <3>2. pc[n] = "settle" => Settled(n)
        BY DEF Local, Start, Install, Unready, Begin, Target, NextReceiver, Poll, Clear,
          Heard, Take, External, FirstStage, TurnOff, WaitOff, Leave
      <3> QED
        BY <1>3, <2>1, <2>2, <3>1, <3>2
    <2>4. CASE Begins(n)
      BY <1>3, <2>2, <2>4 DEF Begins, Past, At
    <2>5. CASE Advances(n)
      <3>1. Past(n, n, "on", k)' <=> Past(n, n, "on", k) \/ At(n, n, "on", k)
        BY <1>1, <1>3, <2>5, AdvancePast
      <3>2. pc[n] # "settle"
        BY <2>5 DEF Advances, Answered
      <3>3. ~(At(n, n, "on", k)' /\ pc'[n] # "settle")
        <4>1. Structure(n)' /\ pc'[n] \in {"settle", "wait", "done"}
          BY <2>5 DEF TypeInv, Advances
        <4> QED
          BY <4>1 DEF Structure, At, Outside
      <3> QED
        BY <1>3, <2>1, <2>2, <3>1, <3>2, <3>3
    <2> QED
      BY <2>3, <2>4, <2>5, LocalStage
  <1> QED
    BY <1>2, <1>3

LEMMA LocalDark ==
    ASSUME TypeInv, HandshakeInv, NEW n \in Node, Local(n)
    PROVE  DarkMeasured(n)' => \/ DarkMeasured(n)
                               \/ n = MASTER /\ Settled(n) /\ phase[n] = "ext"
  <1>1. CASE n # MASTER
    <2>1. Handshake(MASTER, "ext", 0) /\ MASTER \in Node /\ 0 \in SampleIndex
      BY NodeFacts, SampleFacts DEF Handshake
    <2> QED
      BY <1>1, <2>1, LocalHas DEF DarkMeasured
  <1>2. CASE n = MASTER
    <2>1. CASE Stays(n)
      <3>1. pc[n] = "settle" => Settled(n)
        BY DEF Local, Start, Install, Unready, Begin, Target, NextReceiver, Poll, Clear,
          Heard, Take, External, FirstStage, TurnOff, WaitOff, Leave
      <3> QED
        BY <1>2, <2>1, <3>1 DEF Stays, DarkMeasured
    <2>2. CASE Begins(n)
      BY <1>2, <2>2 DEF Begins, DarkMeasured
    <2>3. CASE Advances(n)
      BY <1>2, <2>3 DEF Advances, DarkMeasured, Outside, Answered
    <2> QED
      BY <2>1, <2>2, <2>3, LocalStage
  <1> QED
    BY <1>1, <1>2

(* What the steps of a board's program do to what it has measured and to   *)
(* what its callback will do with the next request.                        *)
LEMMA LocalMeasure ==
    ASSUME TypeInv, NEW n \in Node, Local(n)
    PROVE  /\ ~ Settled(n) => dark' = dark /\ Y' = Y
           /\ Begin(n) => state'[n] = "ext"
           /\ External(n) => state'[n] = "on"
           /\ ~ Begin(n) /\ ~ External(n) => state' = state
  <1> USE DEF exchanged, measured
  <1>1. CASE Begin(n) \/ External(n)
    BY <1>1 DEF Begin, External, Settled, TypeInv, TypeOK
  <1>2. CASE FirstStage(n) \/ Leave(n)
    <2>1. UNCHANGED <<state, dark, Y>> /\ pc[n] \in Answered \cup {"endturn"}
      BY <1>2, StageStep
    <2>2. ~ Begin(n)
      BY <2>1 DEF Begin, Answered
    <2> QED
      BY <1>2, <2>1, <2>2 DEF FirstStage, Leave, External
  <1>3. CASE Settled(n)
    BY <1>3 DEF Settled, Begin, External
  <1>4. CASE Start(n) \/ Install(n) \/ Unready(n) \/ Target(n) \/ NextReceiver(n) \/ Poll(n)
    BY <1>4 DEF Start, Install, Unready, Target, NextReceiver, Poll, Begin, External
  <1>5. CASE Clear(n) \/ Heard(n) \/ Take(n) \/ TurnOff(n) \/ WaitOff(n)
    BY <1>5 DEF Clear, Heard, Take, TurnOff, WaitOff, Begin, External
  <1> QED
    BY <1>1, <1>2, <1>3, <1>4, <1>5 DEF Local

LEMMA DataLocalHere ==
    ASSUME IInv, TypeInv', NEW n \in Node, Local(n)
    PROVE  Data(n)'
  <1>1. TypeInv /\ HandshakeInv /\ Data(n)
    BY DEF IInv, DataInv
  <1>2. CASE ~ Settled(n)
    <2>1. dark'[n] = dark[n] /\ Y'[n] = Y[n]
      BY <1>1, <1>2, LocalMeasure
    <2>2. DarkMeasured(n)' => DarkMeasured(n)
      BY <1>1, <1>2, LocalDark
    <2>3. ASSUME NEW s \in Node, NEW k \in SampleIndex
          PROVE  Measured(n, s, k)' => Measured(n, s, k)
      BY <1>1, <1>2, LocalMeasured
    <2> QED
      BY <1>1, <2>1, <2>2, <2>3, KeepsData DEF Keeps
  <1>3. CASE Settled(n)
    <2>1. pc[n] = "settle" /\ timer[n] = 0
      BY <1>3 DEF Settled
    <2>2. DarkMeasured(n)' => dark'[n] = AllOff
      <3>1. CASE n = MASTER /\ phase[n] = "ext"
        <4>1. dark'[n] = Reading
          BY <1>1, <1>3, <3>1, SettledTypes
        <4>2. Reading = AllOff
          BY <2>1, <3>1, ReadingDark
        <4> QED
          BY <4>1, <4>2
      <3>2. CASE ~(n = MASTER /\ phase[n] = "ext")
        <4>1. dark' = dark
          BY <1>1, <1>3, <3>2, SettledTypes
        <4>2. DarkMeasured(n)' => DarkMeasured(n)
          BY <1>1, <3>2, LocalDark
        <4> QED
          BY <1>1, <4>1, <4>2 DEF Data
      <3> QED
        BY <3>1, <3>2
    <2>3. ASSUME NEW s \in Node, NEW k \in SampleIndex, Measured(n, s, k)'
          PROVE  Y'[n][s][k] = OnlyLamp(s, k)
      <3>1. Measured(n, s, k) \/ (s = n /\ At(n, n, "on", k))
        BY <1>1, <2>3, LocalMeasured
      <3>2. CASE s = n /\ At(n, n, "on", k)
        <4>1. phase[n] = "on" /\ sample[n] = k
          BY <3>2 DEF At, Sample
        <4>2. IsPut(Y', Y, n, n, k, Reading)
          BY <1>1, <1>3, <4>1, SettledTypes
        <4>3. Reading = OnlyLamp(n, k)
          BY <2>1, <3>2, ReadingLamp
        <4> QED
          BY <3>2, <4>2, <4>3 DEF IsPut
      <3>3. CASE Measured(n, s, k) /\ ~(s = n /\ At(n, n, "on", k))
        <4>1. Y[n][s][k] = OnlyLamp(s, k)
          BY <1>1, <3>3 DEF Data
        <4>2. Y'[n][s][k] = Y[n][s][k]
          <5>1. CASE phase[n] # "on"
            BY <1>1, <1>3, <5>1, SettledTypes
          <5>2. CASE phase[n] = "on"
            <6>1. sender[n] = n /\ IsPut(Y', Y, n, n, sample[n], Reading)
              BY <1>1, <1>3, <5>2, SettledTypes
            <6>2. s # n \/ k # sample[n]
              BY <2>1, <3>3, <5>2, <6>1 DEF At, Outside, Sample
            <6> QED
              BY <6>1, <6>2 DEF IsPut
          <5> QED
            BY <5>1, <5>2
        <4> QED
          BY <4>1, <4>2
      <3> QED
        BY <3>1, <3>2, <3>3
    <2> QED
      BY <2>2, <2>3 DEF Data
  <1> QED
    BY <1>2, <1>3

LEMMA RequestLocalHere ==
    ASSUME IInv, TypeInv', NEW n \in Node, Local(n)
    PROVE  Request(n)'
  <1>1. TypeInv /\ HandshakeInv /\ Structure(n) /\ Structure(n)' /\ Request(n)
    BY DEF IInv, DataInv, TypeInv
  <1>2. CASE Begin(n)
    <2>1. Begins(n)
      <3>1. ~ Stays(n)
        BY <1>1, <1>2, WriteLedFacts, SampleFacts DEF Begin, Stays
      <3>2. ~ Advances(n)
        BY <1>2 DEF Begin, Advances, Answered
      <3> QED
        BY <1>1, <3>1, <3>2, LocalStage
    <2>2. state'[n] = "ext"
      BY <1>1, <1>2, LocalMeasure
    <2> QED
      BY <2>1, <2>2 DEF Begins, Request
  <1>3. CASE External(n)
    <2>1. state'[n] = "on"
      BY <1>1, <1>3, LocalMeasure
    <2>2. pc'[n] = "external" /\ phase'[n] = "ext"
      BY <1>1, <1>3 DEF External, Goto, TypeInv, TypeOK
    <2> QED
      BY <2>1, <2>2 DEF Request
  <1>4. CASE ~ Begin(n) /\ ~ External(n)
    <2>1. state'[n] = state[n]
      BY <1>1, <1>4, LocalMeasure
    <2>2. CASE Stays(n)
      <3>1. /\ phase'[n] = phase[n] /\ sender'[n] = sender[n]
            /\ pc'[n] \in Outside <=> pc[n] \in Outside
            /\ Engaged(n)' <=> Engaged(n)
        BY <2>2 DEF Stays
      <3>2. pc'[n] # "external" /\ pc[n] # "external"
        <4>1. ~ FirstStage(n)
          <5>1. ~ Advances(n) => ~ FirstStage(n)
            BY <1>1, StagesAdvance
          <5>2. FirstStage(n) => phase[n] = "ext" /\ phase'[n] = "on"
            <6>1. FirstStage(n) => phase[n] = "ext"
              BY <1>1 DEF FirstStage, Structure
            <6>2. FirstStage(n) => phase'[n] = "on"
              BY <1>1 DEF FirstStage, BeginStage, TypeInv, TypeOK
            <6> QED
              BY <6>1, <6>2
          <5> QED
            BY <3>1, <5>2
        <4>2. pc[n] # "external"
          BY <4>1 DEF Local, Start, Install, Unready, Begin, Settled, Target, NextReceiver,
            Poll, Clear, Heard, Take, External, FirstStage, TurnOff, WaitOff, Leave
        <4>3. pc'[n] # "external"
          BY <1>1, <1>4, <3>1, <4>1, <4>2 DEF TypeInv, TypeOK, Local, Start, Install, Unready,
            Begin, Settled, Target, NextReceiver, Poll, Clear, Heard, Take, External,
            TurnOff, WaitOff, Leave, EndStage, BeginStage, WriteLed, Goto
        <4> QED
          BY <4>2, <4>3
      <3> QED
        BY <1>1, <2>1, <3>1, <3>2 DEF Request
    <2>3. CASE Advances(n)
      <3>1. ~ Engaged(n)' /\ pc'[n] # "external" /\ pc[n] \notin Outside
        BY <2>3 DEF Advances, Engaged, Answered, Outside
      <3>2. sender[n] # n => Engaged(n)
        BY <1>1, <2>3 DEF Advances, Engaged, Structure, Sending, Answered
      <3>3. phase'[n] # "ext" /\ (phase[n] = "ext" => pc[n] = "external")
        BY <2>3 DEF Advances
      <3>4. state[n] # "ext"
        BY <1>1, <3>1, <3>3 DEF Request
      <3>5. state[n] = "off" <=> phase[n] = "on" /\ sender[n] \in Node \ {n}
        BY <1>1, <3>1, <3>2 DEF Request
      <3>6. state[n] = "off" <=> phase'[n] = "off" /\ sender'[n] \in Node \ {n}
        BY <2>3, <3>5, NodeFacts DEF Advances
      <3>7. phase'[n] \in {"ext", "on", "off"}
        BY DEF TypeInv, TypeOK
      <3> QED
        BY <2>1, <3>1, <3>3, <3>4, <3>6, <3>7 DEF Request
    <2>4. ~ Begins(n)
      BY <1>4 DEF Begins, Local, Start, Install, Unready, Settled, Target, NextReceiver, Poll,
        Clear, Heard, Take, External, FirstStage, TurnOff, WaitOff, Leave
    <2> QED
      BY <1>1, <2>2, <2>3, <2>4, LocalStage
  <1> QED
    BY <1>2, <1>3, <1>4

LEMMA DataLocal ==
    ASSUME IInv, TypeInv', NEW n \in Node, Local(n)
    PROVE  DataInv'
  <1>1. ASSUME NEW m \in Node, m # n PROVE Data(m)' /\ Request(m)'
    <2>1. /\ pc'[m] = pc[m] /\ phase'[m] = phase[m] /\ sender'[m] = sender[m]
          /\ sample'[m] = sample[m] /\ ready'[m] = ready[m] /\ state'[m] = state[m]
          /\ dark'[m] = dark[m] /\ Y'[m] = Y[m]
      BY <1>1, LocalFrame DEF IInv
    <2>2. Engaged(m)' <=> Engaged(m)
      BY <2>1 DEF Engaged
    <2> QED
      BY <2>1, <2>2, QuietData DEF IInv
  <1>2. Data(n)' /\ Request(n)'
    BY DataLocalHere, RequestLocalHere
  <1> QED
    BY <1>1, <1>2 DEF DataInv

(* The receiver of a request measures what its sender's handshake is for.  *)
LEMMA DataAccept ==
    ASSUME IInv, NEW n \in Node, NEW m \in Node, pc[n] = "send", m = receiver[n],
           Accepts(m, n, "SYN"), Measure(m), ready'[m],
           pc'[m] = pc[m], UNCHANGED <<phase, sender, sample>>
    PROVE  Data(m)' /\ Request(m)'
  <1> DEFINE k == Sample(n)
  <1>1. /\ TypeInv /\ HandshakeInv /\ BarrierInv /\ SkewInv /\ Data(m) /\ Request(m)
        /\ Structure(n)
    BY DEF IInv, DataInv, TypeInv
  <1>2. /\ m # n /\ sender[m] = n /\ sender[n] = n
        /\ pc[m] \in {"settle", "wait"} /\ ~ Engaged(m)
        /\ phase[m] = phase[n] /\ Sample(m) = k
    BY <1>1, AcceptRequest
  <1>3. /\ pc[m] \notin Outside /\ pc[m] # "external" /\ Engaged(m)'
    BY <1>2 DEF Outside, Engaged
  <1>4. k \in SampleIndex /\ phase[m] \in {"ext", "on", "off"}
    BY <1>1, <1>2, AcceptsFacts DEF TypeInv, TypeOK
  (* What m has is what it had, and the request it accepts. *)
  <1>5. ASSUME NEW s, NEW p, NEW j
        PROVE  Has(m, s, p, j)' => Has(m, s, p, j) \/ (s = n /\ p = phase[n] /\ j = k)
    <2>1. /\ Past(m, s, p, j)' <=> Past(m, s, p, j)
          /\ At(m, s, p, j)' <=> At(m, s, p, j)
      BY <1>2 DEF Past, At, Outside, Sample
    <2> QED
      BY <1>2, <2>1 DEF Has, At, Sample
  <1>6. ASSUME NEW s \in Node, NEW j \in SampleIndex, Measured(m, s, j)'
        PROVE  Measured(m, s, j) \/ (s = n /\ phase[n] = "on" /\ j = k)
    <2>1. CASE s = m
      <3>1. /\ Past(m, m, "on", j)' <=> Past(m, m, "on", j)
            /\ At(m, m, "on", j)' <=> At(m, m, "on", j)
        BY <1>2 DEF Past, At, Outside, Sample
      <3> QED
        BY <1>6, <2>1, <3>1 DEF Measured
    <2>2. CASE s # m
      BY <1>5, <1>6, <2>2 DEF Measured
    <2> QED
      BY <2>1, <2>2
  <1>7. ASSUME DarkMeasured(m)'
        PROVE  DarkMeasured(m) \/ phase[n] = "ext"
    <2>1. CASE m = MASTER
      BY <1>7, <2>1 DEF DarkMeasured
    <2>2. CASE m # MASTER
      BY <1>5, <1>7, <2>2 DEF DarkMeasured
    <2> QED
      BY <2>1, <2>2
  <1>8. Measure(m) /\ Accepts(m, n, "SYN") /\ m \in Node
    OBVIOUS
  <1>9. CASE phase[n] = "ext"
    <2>1. n = MASTER
      BY <1>1, <1>2, <1>9 DEF Structure, Outside
    <2>2. state[m] = "ext"
      BY <1>1, <1>2, <1>3, <1>9 DEF Request
    <2>3. dark'[m] = Reading /\ state'[m] = "ext" /\ Y' = Y
      BY <1>1, <2>2, MeasureFacts
    <2>4. Reading = AllOff
      BY <1>9, <2>1, ReadingDark
    <2>5. Data(m)'
      BY <1>1, <1>6, <1>9, <2>3, <2>4 DEF Data
    <2>6. Request(m)'
      BY <1>2, <1>3, <1>9, <2>3 DEF Request
    <2> QED
      BY <2>5, <2>6
  <1>10. CASE phase[n] = "on"
    <2>1. state[m] = "on"
      BY <1>1, <1>2, <1>3, <1>10 DEF Request, TypeInv, TypeOK
    <2>2. /\ dark' = dark /\ state'[m] = "off" /\ Y'[m][n][k] = Reading
          /\ \A p, q \in Node, j \in SampleIndex :
                p # m \/ q # n \/ j # sample[m] => Y'[p][q][j] = Y[p][q][j]
      BY <1>1, <1>2, <1>10, <2>1, MeasureFacts DEF Sample
    <2>3. At(n, n, "on", k)
      BY <1>2, <1>10 DEF At, Outside, Sample
    <2>4. Reading = OnlyLamp(n, k)
      BY <1>4, <2>3, ReadingLamp
    <2>5. ASSUME NEW s \in Node, NEW j \in SampleIndex, Measured(m, s, j)'
          PROVE  Y'[m][s][j] = OnlyLamp(s, j)
      <3>1. CASE s = n /\ j = k
        BY <2>2, <2>4, <3>1
      <3>2. CASE ~(s = n /\ j = k)
        <4>1. Y[m][s][j] = OnlyLamp(s, j)
          BY <1>1, <1>6, <2>5, <3>2 DEF Data
        <4>2. Y'[m][s][j] = Y[m][s][j]
          BY <1>2, <1>10, <2>2, <3>2 DEF Sample
        <4> QED
          BY <4>1, <4>2
      <3> QED
        BY <3>1, <3>2
    <2>6. DarkMeasured(m)' => dark'[m] = AllOff
      BY <1>1, <1>7, <1>10, <2>2 DEF Data
    <2>7. Request(m)'
      BY <1>2, <1>3, <1>10, <2>2 DEF Request
    <2> QED
      BY <2>5, <2>6, <2>7 DEF Data
  <1>11. CASE phase[n] = "off"
    <2>1. state[m] = "off"
      BY <1>1, <1>2, <1>3, <1>11 DEF Request
    <2>2. dark' = dark /\ state'[m] = "on" /\ Y' = Y
      BY <1>1, <2>1, MeasureFacts
    <2>3. Data(m)'
      BY <1>1, <1>6, <1>7, <1>11, <2>2 DEF Data
    <2>4. Request(m)'
      BY <1>2, <1>3, <1>11, <2>2 DEF Request
    <2> QED
      BY <2>3, <2>4
  <1> QED
    BY <1>2, <1>4, <1>9, <1>10, <1>11

LEMMA DataTransmit ==
    ASSUME IInv, NEW n \in Node, NEW a, Transmit(n, a)
    PROVE  DataInv'
  <1> DEFINE m == receiver[n]
  <1>1. /\ pc[n] = "send" /\ sender[n] = n /\ m \in Node \ {n}
        /\ pc' = [pc EXCEPT ![n] = "poll"]
        /\ UNCHANGED <<phase, sender, sample>>
    BY TransmitFrame DEF IInv
  <1>2. TypeInv /\ TypeOK /\ DataInv
    BY DEF IInv, TypeInv
  <1>3. ASSUME NEW p \in Node PROVE pc'[p] = IF p = n THEN "poll" ELSE pc[p]
    BY <1>1, <1>2 DEF TypeOK
  <1>4. ASSUME NEW p \in Node, ready'[p] = ready[p], state'[p] = state[p],
               dark'[p] = dark[p], Y'[p] = Y[p]
        PROVE  Data(p)' /\ Request(p)'
    <2>1. /\ pc'[p] = pc[p] \/ (pc[p] = "send" /\ pc'[p] = "poll" /\ sender[p] = p)
          /\ phase'[p] = phase[p] /\ sender'[p] = sender[p] /\ sample'[p] = sample[p]
      BY <1>1, <1>3
    <2>2. Engaged(p)' <=> Engaged(p)
      BY <1>4, <2>1 DEF Engaged, Answered
    <2> QED
      BY <1>2, <1>4, <2>1, <2>2, QuietData
  <1>5. CASE UNCHANGED exchanged
    BY <1>4, <1>5 DEF DataInv, exchanged, measured
  <1>6. CASE /\ Accepts(m, n, "SYN") /\ Measure(m)
             /\ ready' = [ready EXCEPT ![m] = TRUE]
    <2>1. ASSUME NEW p \in Node, p # m PROVE Data(p)' /\ Request(p)'
      <3>1. ready'[p] = ready[p]
        BY <1>2, <1>6, <2>1 DEF TypeOK
      <3>2. state'[p] = state[p] /\ dark'[p] = dark[p]
        BY <1>1, <1>2, <1>6, <2>1, MeasureFacts
      <3>3. Y'[p] = Y[p]
        <4>1. m \in Node /\ state[m] \in {"ext", "on", "off"}
          BY <1>1, <1>2 DEF TypeOK
        <4>2. Y \in Table
          BY <1>2 DEF TypeOK, Table
        <4>3. CASE state[m] # "on"
          BY <1>6, <4>1, <4>3 DEF Measure
        <4>4. CASE state[m] = "on"
          <5> DEFINE at == Place(m)
          <5>1. Y' = [Y EXCEPT ![m][at[1]][at[2]] = Reading]
            BY <1>6, <4>4 DEF Measure, PutReading
          <5> HIDE DEF at
          <5> QED
            BY <2>1, <4>1, <4>2, <5>1 DEF Table
        <4> QED
          BY <4>3, <4>4
      <3> QED
        BY <1>4, <3>1, <3>2, <3>3
    <2>2. ASSUME NEW p \in Node, p = m PROVE Data(p)' /\ Request(p)'
      <3>1. /\ Accepts(p, n, "SYN") /\ Measure(p)
            /\ p = receiver[n] /\ p # n /\ pc[n] = "send"
        BY <1>1, <1>6, <2>2
      <3>2. ready'[p] /\ pc'[p] = pc[p]
        BY <1>2, <1>3, <1>6, <2>2, <3>1 DEF TypeOK
      <3> HIDE DEF m
      <3> QED
        BY <1>1, <3>1, <3>2, DataAccept
    <2>3. ASSUME NEW p \in Node PROVE Data(p)' /\ Request(p)'
      BY <2>1, <2>2
    <2> QED
      BY <2>3 DEF DataInv
  <1> QED
    BY <1>2, <1>5, <1>6, TransmitFrame

(* An answer, and time, are no measurements. *)
LEMMA DataReply ==
    ASSUME IInv, NEW n \in Node, Reply(n, TRUE)
    PROVE  DataInv'
  <1> DEFINE s == sender[n]
  <1>1. /\ pc[n] = "reply" /\ s \in Node \ {n}
        /\ pc' = [pc EXCEPT ![n] = "replied"]
        /\ UNCHANGED <<phase, sender, sample, state, dark, Y>>
    BY ReplyFrame DEF IInv, measured
  <1>2. TypeInv /\ TypeOK /\ DataInv /\ HandshakeInv
    BY DEF IInv, TypeInv
  <1>3. ready' = [ready EXCEPT ![s] = TRUE] /\ sender[s] = s
    BY <1>1, <1>2, HandshakeReply, AcceptReply
  <1>4. ASSUME NEW p \in Node
        PROVE  /\ pc'[p] = IF p = n THEN "replied" ELSE pc[p]
               /\ ready'[p] = IF p = s THEN TRUE ELSE ready[p]
    BY <1>1, <1>2, <1>3 DEF TypeOK
  <1>5. ASSUME NEW p \in Node PROVE Data(p)' /\ Request(p)'
    <2>1. pc'[p] = pc[p] \/ (pc[p] = "reply" /\ pc'[p] = "replied" /\ sender[p] # p)
      BY <1>1, <1>4
    <2>2. Engaged(p)' <=> Engaged(p)
      BY <1>1, <1>3, <1>4 DEF Engaged, Answered
    <2> QED
      BY <1>1, <1>2, <2>1, <2>2, QuietData
  <1> QED
    BY <1>5 DEF DataInv

LEMMA DataTick ==
    ASSUME IInv, Passes
    PROVE  DataInv'
  <1>1. UNCHANGED <<pc, phase, sender, ready, sample, state, dark, Y>>
    BY TickFrame DEF IInv
  <1>2. ASSUME NEW p \in Node PROVE Data(p)' /\ Request(p)'
    <2>1. Engaged(p)' <=> Engaged(p)
      BY <1>1 DEF Engaged
    <2> QED
      BY <1>1, <2>1, QuietData DEF IInv
  <1> QED
    BY <1>2 DEF DataInv

-----------------------------------------------------------------------------
(* The inductive invariant and what follows from it. *)

LEMMA InvIdle ==
    ASSUME TypeInv, \A n \in Node : pc[n] = "idle" /\ ~ ready[n]
    PROVE  IInv
  <1>1. \A n \in Node : pc[n] = "idle" /\ phase[n] = "ext" /\ ~ ready[n]
    BY DEF TypeInv, Structure, Outside
  <1>2. \A n \in Node : ReadyDiscipline(n) /\ ~ Engaged(n)
    BY <1>1 DEF ReadyDiscipline, Engaged, Answered
  <1>3. HandshakeInv
    BY <1>2 DEF HandshakeInv, SenderDelays
  <1>4. ASSUME NEW n \in Node, NEW s, NEW p, NEW k
        PROVE  ~ Past(n, s, p, k) /\ ~ At(n, s, p, k)
    BY <1>1 DEF Past, At, Outside
  <1>5. BarrierInv
    BY <1>4 DEF BarrierInv, Barrier, Served, Replied
  <1>6. SkewInv
    BY <1>1 DEF SkewInv, Skew, Outside
  <1>7. DataInv
    BY <1>1, <1>4 DEF DataInv, Data, Request, DarkMeasured, Measured, Has, Outside
  <1> QED
    BY <1>3, <1>5, <1>6, <1>7 DEF IInv

LEMMA InvInit == Init => IInv
  BY TypeInit, InvIdle DEF Init

LEMMA InvPasses == IInv /\ Passes => IInv'
  BY TickType, HandshakeTick, BarrierTick, SkewTick, DataTick DEF IInv

LEMMA InvStep == RepliesArrive /\ IInv /\ [Next]_vars => IInv'
  <1> SUFFICES ASSUME RepliesArrive, IInv, [Next]_vars PROVE IInv'
    OBVIOUS
  <1>1. TypeInv /\ HandshakeInv /\ BarrierInv /\ SkewInv /\ DataInv /\ TypeInv'
    BY TypeStep DEF IInv
  <1>2. ASSUME NEW n \in Node, Local(n) PROVE IInv'
    BY <1>1, <1>2, HandshakeLocal, BarrierLocal, SkewLocal, DataLocal DEF IInv
  <1>3. ASSUME NEW n \in Node, NEW a, Transmit(n, a) PROVE IInv'
    <2>1. SkewInv'
      <3>1. /\ pc[n] = "send" /\ pc' = [pc EXCEPT ![n] = "poll"]
            /\ timer' = [timer EXCEPT ![n] = Wait] /\ UNCHANGED <<phase, since>>
        BY <1>1, <1>3, TransmitFrame DEF lamps
      <3>2. \A m \in Node : m # n => timer'[m] = timer[m]
        BY <1>1, <3>1 DEF TypeInv, TypeOK
      <3> QED
        BY <1>1, <3>1, <3>2, SkewSends
    <2> QED
      BY <1>1, <1>3, <2>1, HandshakeTransmit, BarrierTransmit, DataTransmit DEF IInv
  <1>4. ASSUME NEW n \in Node, Reply(n, TRUE) PROVE IInv'
    <2>1. SkewInv'
      <3>1. /\ pc[n] = "reply" /\ pc' = [pc EXCEPT ![n] = "replied"]
            /\ UNCHANGED <<phase, since, timer>>
        BY <1>1, <1>4, ReplyFrame DEF lamps
      <3> QED
        BY <1>1, <3>1, SkewSends
    <2> QED
      BY <1>1, <1>4, <2>1, HandshakeReply, BarrierReply, DataReply DEF IInv
  <1>5. CASE Tick
    BY <1>5, InvPasses DEF Tick, Passes
  <1>6. CASE UNCHANGED vars
    <2>1. HandshakeInv'
      BY <1>1, <1>6 DEF vars, HandshakeInv, ReadyDiscipline, SenderDelays, Engaged, Sample
    <2>2. BarrierInv'
      BY <1>1, <1>6 DEF vars, BarrierInv, Barrier, Served, Replied, Has, Past, At, Engaged,
            Sample
    <2>3. SkewInv'
      BY <1>1, <1>6 DEF vars, SkewInv, Skew
    <2>4. ASSUME NEW p \in Node PROVE Data(p)' /\ Request(p)'
      <3>1. UNCHANGED <<pc, phase, sender, ready, sample, state, dark, Y>>
        BY <1>6 DEF vars
      <3>2. Engaged(p)' <=> Engaged(p)
        BY <3>1 DEF Engaged
      <3> QED
        BY <1>1, <3>1, <3>2, QuietData
    <2> QED
      BY <1>1, <2>1, <2>2, <2>3, <2>4 DEF IInv, DataInv
  <1>7. Arrival("ACK") = {TRUE}
    BY DEF RepliesArrive, Arrival
  <1> QED
    BY <1>2, <1>3, <1>4, <1>5, <1>6, <1>7 DEF Next, Step, Terminated

(* The invariant holds however the boards' programs interleave, however    *)
(* far apart they have started and whichever requests are lost, if no      *)
(* answer is.                                                              *)
THEOREM InductiveInvariant ==
    ASSUME RepliesArrive
    PROVE  Spec => []IInv
  BY InvInit, InvStep, PTL DEF Spec

LEMMA DarkData == IInv => DarkIsDark
  <1> SUFFICES ASSUME IInv, NEW n \in Node, state[n] # "ext", pc[n] \notin Outside
               PROVE  dark[n] = AllOff
    BY DEF DarkIsDark, Outside
  <1>1. Request(n) /\ Data(n) /\ Structure(n)
    BY DEF IInv, DataInv, TypeInv
  <1>2. phase[n] # "ext" \/ pc[n] = "external"
    BY <1>1 DEF Request
  <1>3. CASE n = MASTER
    BY <1>1, <1>2, <1>3 DEF Data, DarkMeasured
  <1>4. CASE n # MASTER
    <2>1. Has(n, MASTER, "ext", 0)
      BY <1>1, <1>2, <1>4 DEF Has, Past, At, Engaged, Answered, Structure, Sample
    <2> QED
      BY <1>1, <1>4, <2>1 DEF Data, DarkMeasured
  <1> QED
    BY <1>3, <1>4

(* A board that has the external light has measured it with every lamp     *)
(* off.                                                                    *)
THEOREM ExternalLightIsDark ==
    ASSUME RepliesArrive
    PROVE  Spec => []DarkIsDark
  BY DarkData, InductiveInvariant, PTL

LEMMA IdealData == IInv => SamplesIdeal
  <1> SUFFICES ASSUME IInv, NEW n \in Node, pc[n] = "done",
                      NEW s \in Node, NEW k \in SampleIndex
               PROVE  Y[n][s][k] = [AllOff EXCEPT ![s] = Lit(k)]
    BY DEF SamplesIdeal, SampleIndex
  <1>1. Structure(n) /\ Data(n)
    BY DEF IInv, TypeInv, DataInv
  <1>2. sample[n] = Samples /\ phase[n] = "off"
    BY <1>1 DEF Structure
  <1>3. Past(n, s, "on", k)
    BY <1>2 DEF Past, SampleIndex, Sample
  <1>4. Measured(n, s, k)
    BY <1>3 DEF Measured, Has
  <1> QED
    BY <1>1, <1>4 DEF Data, OnlyLamp

(* execute's data are what they are meant to be: each sample is of one     *)
(* settled lamp, at the level of that sample.                              *)
THEOREM SamplesAreIdeal ==
    ASSUME RepliesArrive
    PROVE  Spec => []SamplesIdeal
  BY IdealData, InductiveInvariant, PTL

(* A lamp that is lit for a sample is that of the board whose turn it is.  *)
LEMMA LitLamp ==
    ASSUME IInv, NEW n \in Node, led[n] \in 1 .. Samples
    PROVE  /\ pc[n] \notin Outside /\ phase[n] = "on" /\ sender[n] = n
           /\ sample[n] \in SampleIndex /\ At(n, n, "on", sample[n])
  <1>1. Lamp(n) /\ Structure(n) /\ led[n] # Controlled /\ led[n] # Off
        /\ sample[n] \in 0 .. Samples
    <2>1. Lamp(n) /\ Structure(n) /\ sample[n] \in 0 .. Samples
      BY DEF IInv, TypeInv, TypeOK
    <2>2. \A l \in 1 .. Samples : l # Samples + 1 /\ l # 0
      OBVIOUS
    <2> QED
      BY <2>1, <2>2 DEF Controlled, Off
  <1>2. pc[n] \notin Outside /\ phase[n] = "on" /\ sender[n] = n
    BY <1>1 DEF Lamp
  <1>3. sample[n] # Samples
    BY <1>1, <1>2 DEF Structure
  <1> QED
    BY <1>1, <1>2, <1>3, SampleFacts DEF At, Sample

LEMMA SingleLamp == IInv => OneLamp
  BY LitLamp, OthersDark DEF OneLamp

(* No two lamps are lit for a sample at once, and none is while another    *)
(* board still has the light that control left.                            *)
THEOREM OneLampAtATime ==
    ASSUME RepliesArrive
    PROVE  Spec => []OneLamp
  BY SingleLamp, InductiveInvariant, PTL
=============================================================================
