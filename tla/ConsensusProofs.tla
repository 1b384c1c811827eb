--------------------------- MODULE ConsensusProofs --------------------------
(***************************************************************************)
(* Theorems about Consensus, for any number of boards and of iterations    *)
(* and whatever packets the bus loses.                                     *)
(***************************************************************************)
EXTENDS ConsensusInvariant, TLAPS

USE NAssumption, IterationsAssumption, DelayAssumption

-----------------------------------------------------------------------------
(* Type correctness. *)

(* The master is a node, and the loops over nodes stay within 0 .. N. *)
LEMMA NodeFacts ==
    /\ 0 \in Node
    /\ \A n \in Node : n \in 0 .. N /\ n + 1 \in 0 .. N /\ n # N
  BY DEF Node

(* The states in which solve may be called satisfy the types and the       *)
(* structure.                                                              *)
LEMMA TypeInit == Init => TypeInv
  <1> SUFFICES ASSUME Init PROVE TypeInv
    OBVIOUS
  <1>1. TypeOK
    BY NodeFacts DEF Init, TypeOK, Callback, Location, None
  <1>2. \A n \in Node : Structure(n)
    BY NodeFacts DEF Init, Structure, Sending, Receiving, Answering, Offering, Outside
  <1> QED
    BY <1>1, <1>2 DEF TypeInv

(* Until solve returns, the iteration is one of the ITERATIONS of its      *)
(* loop.                                                                   *)
LEMMA IterFacts ==
    ASSUME TypeInv, NEW n \in Node, pc[n] # "done"
    PROVE  iter[n] \in 0 .. Iterations - 1 /\ iter[n] + 1 \in 0 .. Iterations
  <1>1. iter[n] \in 0 .. Iterations /\ Structure(n)
    BY DEF TypeInv, TypeOK
  <1>2. iter[n] # Iterations
    BY <1>1 DEF Structure
  <1> QED
    BY <1>1, <1>2

(* The effect of a packet on the types of what the callback writes. *)
LEMMA SendPacketType ==
    ASSUME TypeInv,
           NEW n \in Node, NEW m, NEW type, NEW arrives,
           pc[n] # "done",
           SendPacket(n, m, type, arrives)
    PROVE  /\ ready' \in [Node -> BOOLEAN]
           /\ copies' \in [Node -> [Solution -> Nat]]
  <1>1. CASE arrives /\ Accepts(m, n, type) /\ m \in Node
    <2>1. <<n, iter[n]>> \in Solution
      BY IterFacts DEF Solution
    <2>2. ready' \in [Node -> BOOLEAN]
      BY <1>1 DEF SendPacket, OnReceive, TypeInv, TypeOK
    <2>3. CASE type = "CON"
      <3> DEFINE sum == [copies[m] EXCEPT ![<<n, iter[n]>>] = @ + 1]
      <3>1. sum \in [Solution -> Nat]
        BY <1>1, <2>1 DEF TypeInv, TypeOK
      <3>2. copies' = [copies EXCEPT ![m] = sum]
        BY <1>1, <2>3 DEF SendPacket, OnReceive, TypeInv, TypeOK
      <3> QED
        BY <2>2, <3>1, <3>2 DEF TypeInv, TypeOK
    <2> QED
      BY <1>1, <2>2, <2>3 DEF SendPacket, OnReceive, TypeInv, TypeOK
  <1>2. CASE ~ (arrives /\ Accepts(m, n, type))
    BY <1>2 DEF SendPacket, OnReceive, TypeInv, TypeOK
  <1>3. CASE m \notin Node
    BY <1>3 DEF SendPacket, OnReceive, TypeInv, TypeOK
  <1> QED
    BY <1>1, <1>2, <1>3

(* A loop over senders that starts or goes on. *)
LEMMA BeginStageType ==
    ASSUME TypeInv, NEW n \in Node, NEW s \in 0 .. N, BeginStage(n, s),
           handler[n] = "consensus", pc[n] \notin {"idle", "done"}
    PROVE  TypeInv'
  <1> DEFINE l == IF s = N THEN "average" ELSE IF s = n THEN "turn" ELSE "wait"
  <1>1. pc' = [pc EXCEPT ![n] = l] /\ l \in {"average", "turn", "wait"}
    BY DEF BeginStage, Goto
  <1>2. sender' = [sender EXCEPT ![n] = s]
    BY DEF BeginStage
  <1>3. TypeOK'
    BY <1>1, <1>2 DEF BeginStage, TypeInv, TypeOK, Location
  <1>4. Structure(n)'
    <2>1. pc'[n] = l /\ sender'[n] = s
      BY <1>1, <1>2 DEF TypeInv, TypeOK
    <2>2. handler'[n] = "consensus" /\ iter'[n] = iter[n] /\ iter[n] # Iterations
      BY IterFacts DEF BeginStage
    <2>3. CASE s = N
      BY <2>1, <2>2, <2>3, NodeFacts
         DEF Structure, Sending, Receiving, Answering, Offering, Outside
    <2>4. CASE s # N
      <3>1. s \in Node /\ (l = "turn" <=> s = n)
        BY <2>4, NodeFacts DEF Node
      <3> QED
        BY <1>1, <2>1, <2>2, <2>4, <3>1
           DEF Structure, Sending, Receiving, Answering, Offering, Outside
    <2> QED
      BY <2>3, <2>4
  <1>5. ASSUME NEW m \in Node, m # n PROVE Structure(m)'
    <2>1. pc'[m] = pc[m] /\ sender'[m] = sender[m]
      BY <1>1, <1>2, <1>5 DEF TypeInv, TypeOK
    <2> QED
      BY <2>1 DEF BeginStage, TypeInv, Structure
  <1> QED
    BY <1>3, <1>4, <1>5 DEF TypeInv

(* Every step of the main program keeps the types and the structure. *)
LEMMA LocalType ==
    ASSUME TypeInv, NEW n \in Node, Local(n)
    PROVE  TypeInv'
  <1> USE NodeFacts DEF TypeInv, TypeOK, Structure, Goto, Location,
        Sending, Receiving, Answering, Offering, Outside
  <1>1. CASE Solve(n)
    BY <1>1 DEF Solve, None
  <1>2. CASE Fill(n)
    BY <1>2 DEF Fill, None
  <1>3. CASE Install(n)
    BY <1>3 DEF Install, Callback
  <1>4. CASE Enter(n)
    BY <1>4 DEF Enter, BeginStage
  <1>5. CASE Turn(n)
    BY <1>5 DEF Turn
  <1>6. CASE Target(n)
    BY <1>6 DEF Target
  <1>7. CASE NextReceiver(n)
    BY <1>7 DEF NextReceiver
  <1>8. CASE EndTurn(n)
    BY <1>8, BeginStageType DEF EndTurn
  <1>9. CASE Poll(n)
    BY <1>9 DEF Poll
  <1>10. CASE Clear(n)
    BY <1>10 DEF Clear
  <1>11. CASE Heard(n)
    BY <1>11 DEF Heard
  <1>12. CASE Take(n)
    BY <1>12 DEF Take
  <1>13. CASE Leave(n)
    <2>1. sender[n] + 1 \in 0 .. N
      BY <1>13 DEF Leave, Node
    <2> QED
      BY <1>13, <2>1, BeginStageType DEF Leave
  <1>14. CASE Average(n)
    <2>1. <<n, iter[n]>> \in Solution /\ iter[n] + 1 \in 0 .. Iterations
      BY <1>14, IterFacts DEF Average, Solution
    <2>2. [copies[n] EXCEPT ![<<n, iter[n]>>] = @ + 1] \in [Solution -> Nat]
      BY <2>1
    <2>3. TypeOK'
      BY <1>14, <2>1, <2>2 DEF Average
    <2>4. (\A m \in Node : Structure(m))'
      BY <1>14, <2>1 DEF Average
    <2> QED
      BY <2>3, <2>4
  <1> QED
    BY <1>1, <1>2, <1>3, <1>4, <1>5, <1>6, <1>7, <1>8, <1>9, <1>10, <1>11, <1>12, <1>13, <1>14 DEF Local

(* A transmission of getCopies keeps the types and the structure. *)
LEMMA TransmitType ==
    ASSUME TypeInv, NEW n \in Node, NEW arrives, Transmit(n, arrives)
    PROVE  TypeInv'
  <1>1. /\ ready' \in [Node -> BOOLEAN]
        /\ copies' \in [Node -> [Solution -> Nat]]
    BY SendPacketType DEF Transmit
  <1>2. TypeOK'
    <2>1. TypeOK /\ Delay \in 0 .. Delay
      BY DEF TypeInv
    <2> QED
      BY <1>1, <2>1 DEF Transmit, TypeOK, Goto, Location
  <1>3. ASSUME NEW m \in Node PROVE Structure(m)'
    <2>1. Structure(m) /\ Structure(n)
      BY DEF TypeInv
    <2>2. /\ pc'[m] = IF m = n THEN "poll" ELSE pc[m]
          /\ pc[n] = "send"
      BY DEF Transmit, Goto, TypeInv, TypeOK
    <2> QED
      BY <2>1, <2>2
         DEF Transmit, Structure, Sending, Receiving, Answering, Offering, Outside
  <1> QED
    BY <1>2, <1>3 DEF TypeInv

(* An acknowledgement keeps the types and the structure. *)
LEMMA ReplyType ==
    ASSUME TypeInv, NEW n \in Node, NEW arrives, Reply(n, arrives)
    PROVE  TypeInv'
  <1>1. /\ ready' \in [Node -> BOOLEAN]
        /\ copies' \in [Node -> [Solution -> Nat]]
    BY SendPacketType DEF Reply
  <1> QED
    BY <1>1, NodeFacts DEF Reply, TypeInv, TypeOK, Structure, Goto, Location,
      Sending, Receiving, Answering, Offering, Outside

(* Time keeps the types and the structure. *)
LEMMA TickType == TypeInv /\ Tick => TypeInv'
  BY DEF Tick, Elapsed, TypeInv, TypeOK, Structure

(* So does a step that changes nothing. *)
LEMMA StutterType == TypeInv /\ UNCHANGED vars => TypeInv'
  BY DEF vars, TypeInv, TypeOK, Structure

(* The types and the structure are inductive by themselves. *)
LEMMA TypeStep == TypeInv /\ [Next]_vars => TypeInv'
  <1> SUFFICES ASSUME TypeInv, [Next]_vars PROVE TypeInv'
    OBVIOUS
  <1>1. ASSUME NEW n \in Node, Local(n) PROVE TypeInv'
    BY <1>1, LocalType
  <1>2. ASSUME NEW n \in Node, NEW a, Transmit(n, a) PROVE TypeInv'
    BY <1>2, TransmitType
  <1>3. ASSUME NEW n \in Node, NEW a, Reply(n, a) PROVE TypeInv'
    BY <1>3, ReplyType
  <1>4. CASE Tick
    BY <1>4, TickType
  <1>5. CASE UNCHANGED vars
    BY <1>5, StutterType
  <1> QED
    BY <1>1, <1>2, <1>3, <1>4, <1>5 DEF Next, Step, Terminated

(* Type correctness: in particular no counter leaves its range and each    *)
(* callback works on a node that exists.                                   *)
THEOREM TypeCorrect == Spec => []TypeOK
  <1>1. TypeInv => TypeOK
    BY DEF TypeInv
  <1> QED
    BY <1>1, TypeInit, TypeStep, PTL DEF Spec
-----------------------------------------------------------------------------
(* The steps of one node's program: what they leave alone, and how they    *)
(* move the node through the stages.                                       *)

(* Where the stage of a node is read from, by the part of getCopies it is  *)
(* in.                                                                     *)
LEMMA StageFacts ==
    ASSUME TypeInv, NEW n \in Node
    PROVE  /\ Stage(n) \in 0 .. N
           /\ pc[n] \in Sending => Stage(n) = n
           /\ pc[n] \in Receiving => Stage(n) = sender[n]
           /\ pc[n] = "average" => Stage(n) = N
           /\ pc[n] \in Outside => Stage(n) = 0
  BY NodeFacts DEF TypeInv, TypeOK, Structure, Stage, Sending, Receiving,
       Answering, Offering, Outside

(* A step of n's own program changes nothing of another node. *)
LEMMA LocalFrame ==
    ASSUME TypeInv, NEW n \in Node, Local(n), NEW m \in Node, m # n
    PROVE  /\ handler'[m] = handler[m]
           /\ pc'[m] = pc[m]
           /\ sender'[m] = sender[m]
           /\ receiver'[m] = receiver[m]
           /\ ready'[m] = ready[m]
           /\ iter'[m] = iter[m]
           /\ copies'[m] = copies[m]
           /\ average'[m] = average[m]
           /\ timer' = timer
  BY DEF Local, TypeInv, TypeOK, Goto, Solve, Fill, Install, Enter, Turn, Target,
       NextReceiver, EndTurn, Poll, Clear, Heard, Take, Leave, Average, BeginStage

(* What a node has is not disturbed by its own steps within an iteration. *)
LEMMA LocalHas ==
    ASSUME TypeInv, HandshakeInv, NEW n \in Node, Local(n), ~ Average(n),
           NEW p \in Node, p # n
    PROVE  Has(n, p)' <=> Has(n, p)
  <1> USE DEF Has, Stage, Engaged, Goto, Sending, Receiving, Answering, Offering, Outside
  <1>1. /\ Structure(n) /\ ReadyDiscipline(n)
        /\ pc \in [Node -> Location] /\ sender \in [Node -> 0 .. N]
        /\ ready \in [Node -> BOOLEAN]
    BY DEF TypeInv, TypeOK, HandshakeInv
  <1>2. CASE Solve(n) \/ Fill(n) \/ Install(n)
    BY <1>1, <1>2 DEF Solve, Fill, Install, ReadyDiscipline
  <1>3. CASE Enter(n)
    BY <1>1, <1>3, NodeFacts DEF Enter, BeginStage, ReadyDiscipline, Structure, Node
  <1>4. CASE Turn(n) \/ Target(n) \/ NextReceiver(n)
    BY <1>1, <1>4 DEF Turn, Target, NextReceiver, ReadyDiscipline
  <1>5. CASE EndTurn(n)
    BY <1>1, <1>5, NodeFacts DEF EndTurn, BeginStage, ReadyDiscipline, Structure, Node
  <1>6. CASE Poll(n) \/ Clear(n)
    BY <1>1, <1>6 DEF Poll, Clear, ReadyDiscipline
  <1>7. CASE Heard(n) \/ Take(n)
    BY <1>1, <1>7 DEF Heard, Take, ReadyDiscipline
  <1>8. CASE Leave(n)
    BY <1>1, <1>8, NodeFacts DEF Leave, BeginStage, ReadyDiscipline, Structure, Node
  <1> QED
    BY <1>2, <1>3, <1>4, <1>5, <1>6, <1>7, <1>8 DEF Local

(* A node averages when it has everybody's solution, and then starts       *)
(* anew.                                                                   *)
LEMMA AverageHas ==
    ASSUME TypeInv, HandshakeInv, NEW n \in Node, Average(n), NEW p \in Node
    PROVE  Has(n, p) /\ ~ Has(n, p)' /\ iter'[n] = iter[n] + 1
  BY NodeFacts DEF TypeInv, TypeOK, HandshakeInv, Structure, ReadyDiscipline, Average, Has,
       Stage, Engaged, Goto, Outside, Node

(* A node does not settle a handshake by itself. *)
LEMMA LocalSettled ==
    ASSUME TypeInv, HandshakeInv, NEW n \in Node, Local(n),
           NEW m \in Node, m # n, NEW k \in 0 .. Iterations - 1, Settled(n, m, k)'
    PROVE  Settled(n, m, k)
  <1>1. /\ Structure(n) /\ ReadyDiscipline(n)
        /\ pc \in [Node -> Location] /\ sender \in [Node -> 0 .. N]
        /\ receiver \in [Node -> 0 .. N] /\ iter \in [Node -> 0 .. Iterations]
        /\ ready \in [Node -> BOOLEAN]
    BY DEF TypeInv, TypeOK, HandshakeInv
  <1>2. /\ n \in Int /\ m \in Int /\ ~ (n < 0) /\ ~ (m < 0) /\ n < N /\ m < N
        /\ k \in Int /\ N \in Int
        /\ iter[n] \in Int /\ sender[n] \in Int /\ receiver[n] \in Int
    BY <1>1 DEF Node
  <1>3. \/ iter'[n] > k
        \/ /\ iter'[n] = k
           /\ \/ n < (IF pc'[n] \in Outside THEN 0 ELSE sender'[n])
              \/ /\ pc'[n] \in Sending \ {"turn"}
                 /\ m < receiver'[n] \/ (m = receiver'[n] /\ (ready'[n] \/ pc'[n] = "next"))
    BY DEF Settled, Stage
  (* While a node prepares its exchange it has settled nothing yet. *)
  <1>4. CASE Solve(n) \/ Fill(n) \/ Install(n) \/ Enter(n)
    <2>1. CASE Solve(n)
      <3>1. iter[n] = 0 /\ iter'[n] = 0 /\ pc'[n] = "minimise"
        BY <1>1, <2>1 DEF Solve, Goto, Structure
      <3> QED
        BY <1>2, <1>3, <3>1 DEF Settled, Outside, Sending, Offering
    <2>2. CASE Fill(n)
      <3>1. iter'[n] = iter[n] /\ pc'[n] = "install"
        BY <1>1, <2>2 DEF Fill, Goto
      <3> QED
        BY <1>2, <1>3, <3>1 DEF Settled, Outside, Sending, Offering
    <2>3. CASE Install(n)
      <3>1. iter'[n] = iter[n] /\ pc'[n] = "enter"
        BY <1>1, <2>3 DEF Install, Goto
      <3> QED
        BY <1>2, <1>3, <3>1 DEF Settled, Outside, Sending, Offering
    <2>4. CASE Enter(n)
      <3>1. iter'[n] = iter[n] /\ sender'[n] = 0 /\ pc'[n] \in {"average", "turn", "wait"}
        BY <1>1, <2>4 DEF Enter, BeginStage, Goto
      <3> QED
        BY <1>2, <1>3, <3>1 DEF Settled, Outside, Sending, Offering
    <2> QED
      BY <1>4, <2>1, <2>2, <2>3, <2>4
  (* In its own turn it has settled the receivers before the present one. *)
  <1>5. CASE Turn(n)
    <2>1. /\ sender'[n] = n /\ ~ ready'[n] /\ iter'[n] = iter[n]
          /\ pc'[n] = "target" /\ receiver'[n] = 0
      BY <1>1, <1>5 DEF Turn, Goto, Structure, ReadyDiscipline, Sending
    <2> QED
      BY <1>2, <1>3, <2>1 DEF Settled, Outside
  <1>6. CASE Target(n)
    <2>1. /\ pc[n] = "target" /\ pc'[n] = "poll" /\ ~ ready'[n] /\ sender'[n] = n
          /\ receiver'[n] = receiver[n] /\ iter'[n] = iter[n]
      BY <1>1, <1>6 DEF Target, Goto, Structure, ReadyDiscipline, Sending
    <2> QED
      BY <1>2, <1>3, <2>1 DEF Settled, Outside, Sending
  <1>7. CASE NextReceiver(n)
    <2>1. /\ sender'[n] = n /\ ~ ready'[n] /\ iter'[n] = iter[n]
          /\ pc'[n] = "target" /\ receiver'[n] = receiver[n] + 1
          /\ pc[n] = "next" \/ (pc[n] = "target" /\ receiver[n] = n)
      BY <1>1, <1>7 DEF NextReceiver, Goto, Structure, ReadyDiscipline, Sending, Offering
    <2>2. iter[n] > k \/ (iter[n] = k /\ m < receiver[n] + 1)
      BY <1>2, <1>3, <2>1 DEF Outside
    <2>3. iter[n] > k \/ (iter[n] = k /\ (m < receiver[n] \/ m = receiver[n]))
      BY <1>2, <2>2
    <2> QED
      BY <2>1, <2>3 DEF Settled, Sending, Offering
  <1>8. CASE EndTurn(n)
    <2>1. /\ pc[n] = "target" /\ receiver[n] = N /\ iter'[n] = iter[n]
          /\ pc'[n] \in {"average", "turn", "wait"}
      BY <1>1, <1>8 DEF EndTurn, BeginStage, Goto
    <2>2. iter[n] > k \/ iter[n] = k
      BY <1>3, <2>1
    <2> QED
      BY <1>2, <2>1, <2>2 DEF Settled, Sending
  <1>9. CASE Poll(n)
    <2>1. /\ pc[n] = "poll" /\ pc'[n] \in {"clear", "send"} /\ sender'[n] = sender[n]
          /\ receiver'[n] = receiver[n] /\ iter'[n] = iter[n] /\ ready'[n] = ready[n]
      BY <1>1, <1>9 DEF Poll, Goto
    <2> QED
      BY <1>3, <2>1 DEF Settled, Stage, Outside, Sending, Offering
  <1>10. CASE Clear(n)
    <2>1. /\ pc[n] = "clear" /\ ready[n] /\ pc'[n] = "next" /\ sender'[n] = sender[n]
          /\ receiver'[n] = receiver[n] /\ iter'[n] = iter[n]
      BY <1>1, <1>10 DEF Clear, Goto, ReadyDiscipline
    <2> QED
      BY <1>3, <2>1 DEF Settled, Stage, Outside, Sending, Offering
  (* In the turn of another node it has settled what it had before. *)
  <1>11. CASE Heard(n) \/ Take(n)
    <2>1. /\ pc[n] \in {"wait", "take"} /\ pc'[n] \in {"take", "reply"}
          /\ sender'[n] = sender[n] /\ iter'[n] = iter[n]
      BY <1>1, <1>11 DEF Heard, Take, Goto
    <2> QED
      BY <1>3, <2>1 DEF Settled, Stage, Outside, Sending, Offering
  <1>12. CASE Leave(n)
    <2>1. /\ pc[n] = "leave" /\ sender[n] # n /\ sender'[n] = sender[n] + 1
          /\ pc'[n] \in {"average", "turn", "wait"} /\ iter'[n] = iter[n]
      BY <1>1, <1>12 DEF Leave, BeginStage, Goto, Structure, Receiving, Answering
    <2>2. iter[n] > k \/ (iter[n] = k /\ n < sender[n] + 1)
      BY <1>3, <2>1 DEF Outside, Sending, Offering
    <2>3. iter[n] > k \/ (iter[n] = k /\ n < sender[n])
      BY <1>2, <2>1, <2>2
    <2> QED
      BY <2>1, <2>3 DEF Settled, Stage, Outside
  <1>13. CASE Average(n)
    <2>1. /\ pc[n] = "average" /\ sender[n] = N /\ iter'[n] = iter[n] + 1
          /\ pc'[n] \in {"minimise", "done"}
      BY <1>1, <1>13 DEF Average, Goto, Structure
    <2>2. iter[n] + 1 > k
      BY <1>2, <1>3, <2>1 DEF Outside, Sending, Offering
    <2>3. iter[n] > k \/ (iter[n] = k /\ n < sender[n])
      BY <1>2, <2>1, <2>2
    <2> QED
      BY <2>1, <2>3 DEF Settled, Stage, Outside
  <1> QED
    BY <1>4, <1>5, <1>6, <1>7, <1>8, <1>9, <1>10, <1>11, <1>12, <1>13 DEF Local

-----------------------------------------------------------------------------
(* The two ends of a packet. *)

(* A receiver that accepts a solution is in the sender's iteration, waits  *)
(* for that sender and does not have the solution yet.                     *)
LEMMA AcceptSolution ==
    ASSUME TypeInv, HandshakeInv, BarrierInv, NEW n \in Node, pc[n] = "send",
           NEW m \in Node, Accepts(m, n, "CON")
    PROVE  /\ m # n /\ sender[m] = n /\ Stage(m) = n
           /\ receiver[n] \in Node \ {n}
           /\ sender[n] = n
           /\ pc[m] \in {"enter", "wait"}
           /\ ~ Engaged(m) /\ ~ ready[m] /\ ~ Has(m, n)
           /\ iter[m] = iter[n]
  <1>1. sender[m] = n /\ m # n
    BY DEF Accepts
  <1>2. receiver[n] \in Node \ {n} /\ sender[n] = n /\ Stage(n) = n
    BY DEF TypeInv, Structure, Stage, Sending, Offering, Outside
  <1>3. ~ Engaged(m)
    BY <1>1 DEF HandshakeInv, SenderDelays
  <1>4. pc[m] \in {"enter", "wait"} /\ ~ ready[m]
    <2>1. pc[m] \in Location /\ Structure(m) /\ ReadyDiscipline(m)
      BY DEF TypeInv, TypeOK, HandshakeInv
    <2>2. pc[m] \notin Sending /\ pc[m] \notin {"average", "done"}
      BY <1>1, <2>1, NodeFacts DEF Structure
    <2>3. pc[m] \notin {"idle", "minimise", "install"}
      BY <1>1, <2>1, NodeFacts DEF Structure, Accepts
    <2>4. pc[m] \notin {"take", "reply", "leave"}
      BY <1>3, <2>1 DEF Engaged, ReadyDiscipline
    <2> QED
      BY <1>3, <2>1, <2>2, <2>3, <2>4 DEF Location, Engaged, Sending, Offering
  <1>5. Stage(m) = n
    <2>1. Structure(m)
      BY DEF TypeInv
    <2> QED
      BY <1>1, <1>4, <2>1, NodeFacts DEF Stage, Outside, Structure
  <1>6. ~ Has(m, n)
    BY <1>3, <1>5 DEF Has, Node
  <1>7. iter[n] \in 0 .. Iterations - 1 /\ iter[m] \in 0 .. Iterations - 1
    BY <1>4, IterFacts
  <1>8. ~ (iter[m] < iter[n])
    <2> SUFFICES ASSUME iter[m] < iter[n] PROVE FALSE
      OBVIOUS
    <2>1. Settled(n, m, iter[m])
      BY <1>7 DEF Settled
    <2>2. HasIn(m, n, iter[m])
      BY <1>1, <1>7, <2>1 DEF BarrierInv, Barrier
    <2> QED
      BY <1>6, <1>7, <2>2 DEF HasIn
  <1>9. ~ (iter[m] > iter[n])
    <2> SUFFICES ASSUME iter[m] > iter[n] PROVE FALSE
      OBVIOUS
    <2>1. Settled(m, n, iter[n])
      BY <1>7 DEF Settled
    <2>2. HasIn(n, m, iter[n])
      BY <1>1, <1>7, <2>1 DEF BarrierInv, Barrier
    <2>3. Has(n, m)
      BY <1>7, <2>2 DEF HasIn
    <2>4. m < n
      BY <1>1, <1>2, <2>3 DEF Has, Node
    <2>5. Settled(m, n, iter[m])
      BY <1>5, <1>7, <2>4 DEF Settled
    <2>6. HasIn(n, m, iter[m])
      BY <1>1, <1>7, <2>5 DEF BarrierInv, Barrier
    <2> QED
      BY <1>7, <2>6 DEF HasIn
  <1> QED
    BY <1>1, <1>2, <1>3, <1>4, <1>5, <1>6, <1>7, <1>8, <1>9

(* A node that acknowledges finds its sender in the delay that follows the *)
(* transmission, waiting for this very acknowledgement.                    *)
LEMMA AcceptReply ==
    ASSUME TypeInv, HandshakeInv, NEW n \in Node, pc[n] = "reply"
    PROVE  /\ sender[n] \in Node \ {n}
           /\ pc[sender[n]] = "poll"
           /\ timer[sender[n]] = Delay
           /\ sender[sender[n]] = sender[n]
           /\ receiver[sender[n]] = n
           /\ iter[sender[n]] = iter[n]
           /\ Has(n, sender[n])
           /\ ~ ready[n]
           /\ Accepts(sender[n], n, "ACK")
  <1>1. Engaged(n) /\ Stage(n) = sender[n]
    BY DEF Engaged, Stage, Outside
  <1>2. Structure(sender[n]) /\ sender[n] \in Node \ {n}
    BY <1>1 DEF HandshakeInv, SenderDelays, TypeInv
  <1> QED
    BY <1>1, <1>2 DEF HandshakeInv, SenderDelays, ReadyDiscipline, Has, Accepts, Structure

(* What a transmission changes. *)
LEMMA TransmitFrame ==
    ASSUME TypeInv, NEW n \in Node, NEW a, Transmit(n, a)
    PROVE  /\ pc[n] = "send"
           /\ pc' = [pc EXCEPT ![n] = "poll"]
           /\ timer' = [timer EXCEPT ![n] = Delay]
           /\ UNCHANGED <<handler, sender, receiver, iter, average>>
           /\ \/ UNCHANGED <<ready, copies>>
              \/ /\ receiver[n] \in Node
                 /\ Accepts(receiver[n], n, "CON")
                 /\ ready' = [ready EXCEPT ![receiver[n]] = TRUE]
                 /\ copies' = [copies EXCEPT ![receiver[n]][<<n, iter[n]>>] = @ + 1]
  BY DEF TypeInv, Structure, Transmit, SendPacket, OnReceive, Goto, Offering

(* What an acknowledgement changes. *)
LEMMA ReplyFrame ==
    ASSUME TypeInv, HandshakeInv, NEW n \in Node, NEW a, Reply(n, a)
    PROVE  /\ pc[n] = "reply"
           /\ pc' = [pc EXCEPT ![n] = "leave"]
           /\ UNCHANGED <<handler, sender, receiver, iter, copies, average, timer>>
           /\ \/ ready' = ready
              \/ ready' = [ready EXCEPT ![sender[n]] = TRUE]
  BY DEF Reply, SendPacket, OnReceive, Goto

-----------------------------------------------------------------------------
(* The handshake. *)

(* The steps of one node's program keep the discipline of `ready' and the  *)
(* timing of the handshakes.                                               *)
LEMMA HandshakeLocal ==
    ASSUME TypeInv, HandshakeInv, NEW n \in Node, Local(n)
    PROVE  HandshakeInv'
  <1>1. ASSUME NEW m \in Node, m # n PROVE ReadyDiscipline(m)'
    <2>1. ReadyDiscipline(m)
      BY DEF HandshakeInv
    <2> QED
      BY <1>1, <2>1, LocalFrame DEF ReadyDiscipline
  <1>2. ReadyDiscipline(n)'
    <2> USE DEF ReadyDiscipline, Goto
    <2>1. /\ ReadyDiscipline(n) /\ Structure(n) /\ n # N
          /\ pc \in [Node -> Location] /\ ready \in [Node -> BOOLEAN]
          /\ sender \in [Node -> 0 .. N]
      BY NodeFacts DEF HandshakeInv, TypeInv, TypeOK
    <2>2. CASE Solve(n) \/ Fill(n) \/ Average(n)
      BY <2>1, <2>2 DEF Solve, Fill, Average
    <2>3. CASE Install(n) \/ Turn(n) \/ Target(n) \/ NextReceiver(n)
      BY <2>1, <2>3 DEF Install, Turn, Target, NextReceiver
    <2>4. CASE Enter(n)
      BY <2>1, <2>4, NodeFacts DEF Enter, BeginStage, Structure, Outside
    <2>5. CASE EndTurn(n) \/ Leave(n)
      BY <2>1, <2>5 DEF EndTurn, Leave, BeginStage
    <2>6. CASE Poll(n) \/ Clear(n) \/ Heard(n) \/ Take(n)
      BY <2>1, <2>6 DEF Poll, Clear, Heard, Take
    <2> QED
      BY <2>2, <2>3, <2>4, <2>5, <2>6 DEF Local
  <1>3. ASSUME NEW m \in Node, m # n PROVE SenderDelays(m)'
    <2> SUFFICES ASSUME Engaged(m)' PROVE SenderDelays(m)'
      BY DEF SenderDelays
    <2>1. Engaged(m) /\ SenderDelays(m)
      BY <1>3, LocalFrame DEF Engaged, HandshakeInv
    <2>2. sender[m] \in Node \ {m}
      BY <2>1 DEF SenderDelays
    <2>3. sender[m] # n
      <3> SUFFICES ASSUME sender[m] = n PROVE FALSE
        OBVIOUS
      <3>1. pc[n] = "poll" /\ timer[n] = Delay
        BY <2>1 DEF SenderDelays
      <3> QED
        BY <3>1 DEF Local, Solve, Fill, Install, Enter, Turn, Target,
             NextReceiver, EndTurn, Poll, Clear, Heard, Take, Leave, Average
    <2> QED
      BY <1>3, <2>1, <2>2, <2>3, LocalFrame DEF SenderDelays
  <1>4. SenderDelays(n)'
    <2> SUFFICES ASSUME Engaged(n)' PROVE SenderDelays(n)'
      BY DEF SenderDelays
    <2>1. /\ ReadyDiscipline(n) /\ SenderDelays(n) /\ Structure(n)
          /\ pc \in [Node -> Location] /\ sender \in [Node -> 0 .. N]
          /\ ready \in [Node -> BOOLEAN]
      BY DEF HandshakeInv, TypeInv, TypeOK
    <2>2. Enter(n) \/ Heard(n) \/ Take(n)
      BY <2>1 DEF Engaged, ReadyDiscipline, Local, Goto, Solve, Fill, Install, Enter,
           Turn, Target, NextReceiver, EndTurn, Poll, Clear, Heard, Take, Leave,
           Average, BeginStage
    <2>3. /\ Engaged(n) /\ sender'[n] = sender[n] /\ iter' = iter
      BY <2>1, <2>2, NodeFacts DEF Engaged, ReadyDiscipline, Structure, Goto, Enter,
           Heard, Take, BeginStage, Outside
    <2> QED
      BY <2>1, <2>3, LocalFrame DEF SenderDelays
  <1> QED
    BY <1>1, <1>2, <1>3, <1>4 DEF HandshakeInv

(* A transmission keeps them: the receiver it engages is in its sender's   *)
(* stage, and the delay has just begun.                                    *)
LEMMA HandshakeTransmit ==
    ASSUME TypeInv, HandshakeInv, BarrierInv, NEW n \in Node, NEW a, Transmit(n, a)
    PROVE  HandshakeInv'
  <1> DEFINE m == receiver[n]
  <1>1. /\ pc[n] = "send"
        /\ pc' = [pc EXCEPT ![n] = "poll"]
        /\ timer' = [timer EXCEPT ![n] = Delay]
        /\ UNCHANGED <<sender, receiver, iter>>
    BY TransmitFrame
  <1>2. TypeOK
    BY DEF TypeInv
  <1>3. CASE UNCHANGED ready
    <2>1. ASSUME NEW p \in Node
          PROVE  ReadyDiscipline(p)' /\ SenderDelays(p)'
      <3>1. ReadyDiscipline(p) /\ SenderDelays(p) /\ ReadyDiscipline(n)
        BY DEF HandshakeInv
      <3>2. ReadyDiscipline(p)'
        BY <1>1, <1>2, <1>3, <3>1 DEF ReadyDiscipline, TypeOK
      <3>3. Engaged(p)' => Engaged(p)
        BY <1>1, <1>2, <1>3, <3>1 DEF Engaged, ReadyDiscipline, TypeOK
      <3> QED
        BY <1>1, <1>2, <3>1, <3>2, <3>3 DEF SenderDelays, TypeOK
    <2> QED
      BY <2>1 DEF HandshakeInv
  <1>4. CASE /\ m \in Node /\ Accepts(m, n, "CON")
             /\ ready' = [ready EXCEPT ![m] = TRUE]
    <2>1. /\ m # n /\ sender[m] = n /\ pc[m] \in {"enter", "wait"}
          /\ sender[n] = n /\ iter[m] = iter[n]
      BY <1>1, <1>4, AcceptSolution
    <2>2. ASSUME NEW p \in Node
          PROVE  ReadyDiscipline(p)' /\ SenderDelays(p)'
      <3>1. ReadyDiscipline(p) /\ SenderDelays(p) /\ ReadyDiscipline(n)
        BY DEF HandshakeInv
      <3>2. ReadyDiscipline(p)'
        BY <1>1, <1>2, <1>4, <2>1, <3>1 DEF ReadyDiscipline, TypeOK
      <3>3. CASE p = m
        BY <1>1, <1>2, <2>1, <3>2, <3>3 DEF SenderDelays, TypeOK
      <3>4. CASE p # m
        <4>1. Engaged(p)' => Engaged(p)
          BY <1>1, <1>2, <1>4, <3>1, <3>4 DEF Engaged, ReadyDiscipline, TypeOK
        <4> QED
          BY <1>1, <1>2, <3>1, <3>2, <4>1 DEF SenderDelays, TypeOK
      <3> QED
        BY <3>3, <3>4, <3>2
    <2> QED
      BY <2>2 DEF HandshakeInv
  <1> QED
    BY <1>3, <1>4, TransmitFrame

(* An acknowledgement keeps them: the sender that it sets free is still    *)
(* delaying.                                                               *)
LEMMA HandshakeReply ==
    ASSUME TypeInv, HandshakeInv, NEW n \in Node, NEW a, Reply(n, a)
    PROVE  HandshakeInv'
  <1> DEFINE s == sender[n]
  <1>1. /\ pc[n] = "reply"
        /\ pc' = [pc EXCEPT ![n] = "leave"]
        /\ UNCHANGED <<sender, receiver, iter, timer>>
        /\ ready' = ready \/ ready' = [ready EXCEPT ![s] = TRUE]
    BY ReplyFrame
  <1>2. s \in Node \ {n} /\ pc[s] = "poll" /\ ~ ready[n]
    BY <1>1, AcceptReply
  <1>3. TypeOK
    BY DEF TypeInv
  <1>4. ASSUME NEW p \in Node
        PROVE  ReadyDiscipline(p)' /\ SenderDelays(p)'
    <2>1. ReadyDiscipline(p) /\ SenderDelays(p)
      BY DEF HandshakeInv
    <2>2. ReadyDiscipline(p)'
      BY <1>1, <1>2, <1>3, <2>1 DEF ReadyDiscipline, TypeOK
    <2>3. Engaged(p)' => Engaged(p)
      BY <1>1, <1>2, <1>3, <2>1 DEF Engaged, ReadyDiscipline, TypeOK
    <2>4. sender[p] \in Node /\ pc[sender[p]] = "poll" => pc'[sender[p]] = "poll"
      BY <1>1, <1>3 DEF TypeOK
    <2> QED
      BY <1>1, <2>1, <2>2, <2>3, <2>4 DEF SenderDelays
  <1> QED
    BY <1>4 DEF HandshakeInv

(* No time passes while a receiver is engaged. *)
LEMMA HandshakeTick ==
    ASSUME TypeInv, HandshakeInv, Tick
    PROVE  HandshakeInv'
  <1>1. ASSUME NEW m \in Node PROVE ~ Engaged(m)
    BY DEF Tick, Busy, Engaged
  <1> QED
    BY <1>1 DEF Tick, HandshakeInv, ReadyDiscipline, SenderDelays, Engaged

-----------------------------------------------------------------------------
(* The barriers. *)

(* Nobody's progress is undone, and a handshake is settled by the answer   *)
(* only: what this asks of a step is enough to keep the barriers.          *)
LEMMA BarrierPreserved ==
    ASSUME BarrierInv,
           ASSUME NEW p \in Node, NEW q \in Node, p # q,
                  NEW k \in 0 .. Iterations - 1, Settled(p, q, k)'
           PROVE  Settled(p, q, k) \/ HasIn(q, p, k),
           ASSUME NEW p \in Node, NEW q \in Node, p # q,
                  NEW k \in 0 .. Iterations - 1, HasIn(p, q, k)
           PROVE  HasIn(p, q, k)'
    PROVE  BarrierInv'
  <1> SUFFICES ASSUME NEW p \in Node, NEW q \in Node, p # q,
                      NEW k \in 0 .. Iterations - 1, Settled(p, q, k)'
               PROVE  HasIn(q, p, k)'
    BY DEF BarrierInv, Barrier
  <1>1. Settled(p, q, k) => HasIn(q, p, k)
    BY DEF BarrierInv, Barrier
  <1> QED
    BY <1>1

(* The steps of one node's program settle no handshake, and lose no        *)
(* solution.                                                               *)
LEMMA BarrierLocal ==
    ASSUME TypeInv, HandshakeInv, BarrierInv, NEW n \in Node, Local(n)
    PROVE  BarrierInv'
  <1>1. ASSUME NEW p \in Node, NEW q \in Node, p # q,
               NEW k \in 0 .. Iterations - 1, Settled(p, q, k)'
        PROVE  Settled(p, q, k)
    <2>1. CASE p = n
      BY <1>1, <2>1, LocalSettled
    <2>2. CASE p # n
      BY <1>1, <2>2, LocalFrame DEF Settled, Stage
    <2> QED
      BY <2>1, <2>2
  <1>2. ASSUME NEW p \in Node, NEW q \in Node, p # q,
               NEW k \in 0 .. Iterations - 1, HasIn(p, q, k)
        PROVE  HasIn(p, q, k)'
    <2>1. CASE p # n
      BY <1>2, <2>1, LocalFrame DEF HasIn, Has, Stage, Engaged
    <2>2. CASE p = n /\ Average(n)
      <3>1. iter'[n] = iter[n] + 1 /\ iter[n] \in Int
        BY <2>2, AverageHas DEF TypeInv, TypeOK
      <3> QED
        BY <1>2, <2>2, <3>1 DEF HasIn
    <2>3. CASE p = n /\ ~ Average(n)
      <3>1. CASE Solve(n)
        <4>1. iter[n] = 0 /\ iter'[n] = 0
          BY <3>1 DEF Solve, TypeInv, TypeOK, Structure
        <4> QED
          BY <1>2, <2>3, <3>1, <4>1, LocalHas DEF HasIn
      <3>2. CASE ~ Solve(n)
        <4>1. iter' = iter
          BY <2>3, <3>2 DEF Local, Fill, Install, Enter, Turn, Target, NextReceiver,
               EndTurn, Poll, Clear, Heard, Take, Leave, BeginStage
        <4> QED
          BY <1>2, <2>3, <4>1, LocalHas DEF HasIn
      <3> QED
        BY <3>1, <3>2
    <2> QED
      BY <2>1, <2>2, <2>3
  <1> QED
    BY <1>1, <1>2, BarrierPreserved

(* A transmission gives a solution to its receiver and settles nothing. *)
LEMMA BarrierTransmit ==
    ASSUME TypeInv, HandshakeInv, BarrierInv, NEW n \in Node, NEW a, Transmit(n, a)
    PROVE  BarrierInv'
  <1> DEFINE m == receiver[n]
  <1>1. /\ pc[n] = "send"
        /\ pc' = [pc EXCEPT ![n] = "poll"]
        /\ UNCHANGED <<sender, receiver, iter>>
    BY TransmitFrame
  <1>2. /\ TypeOK /\ ~ ready[n] /\ m \in Node \ {n} /\ sender[n] = n
    BY <1>1 DEF TypeInv, HandshakeInv, ReadyDiscipline, Structure, Offering, Sending
  <1>3. \/ ready' = ready
        \/ /\ ready' = [ready EXCEPT ![m] = TRUE]
           /\ pc[m] \in {"enter", "wait"}
    BY <1>1, AcceptSolution, TransmitFrame
  <1>4. \A p \in Node : Stage(p)' = Stage(p)
    BY <1>1, <1>2 DEF Stage, Outside, TypeOK
  <1>5. ASSUME NEW p \in Node, NEW q \in Node, p # q,
               NEW k \in 0 .. Iterations - 1, Settled(p, q, k)'
        PROVE  Settled(p, q, k)
    <2>1. CASE p = n
      BY <1>1, <1>2, <1>3, <1>4, <1>5, <2>1 DEF Settled, TypeOK, Sending, Offering
    <2>2. CASE p # n
      <3>1. pc'[p] = pc[p] /\ (pc[p] \in Sending => ready'[p] = ready[p])
        BY <1>1, <1>2, <1>3, <2>2 DEF TypeOK, Sending, Offering
      <3> QED
        BY <1>1, <1>4, <1>5, <3>1 DEF Settled
    <2> QED
      BY <2>1, <2>2
  <1>6. ASSUME NEW p \in Node, NEW q \in Node, p # q,
               NEW k \in 0 .. Iterations - 1, HasIn(p, q, k)
        PROVE  HasIn(p, q, k)'
    <2>1. Engaged(p) => Engaged(p)'
      BY <1>1, <1>2, <1>3 DEF Engaged, TypeOK
    <2> QED
      BY <1>1, <1>4, <1>6, <2>1 DEF HasIn, Has
  <1> QED
    BY <1>5, <1>6, BarrierPreserved

(* An acknowledgement settles the handshake of a receiver that has the     *)
(* solution.                                                               *)
LEMMA BarrierReply ==
    ASSUME TypeInv, HandshakeInv, BarrierInv, NEW n \in Node, NEW a, Reply(n, a)
    PROVE  BarrierInv'
  <1> DEFINE s == sender[n]
  <1>1. /\ pc[n] = "reply"
        /\ pc' = [pc EXCEPT ![n] = "leave"]
        /\ UNCHANGED <<sender, receiver, iter>>
        /\ ready' = ready \/ ready' = [ready EXCEPT ![s] = TRUE]
    BY ReplyFrame
  <1>2. /\ s \in Node \ {n} /\ pc[s] = "poll" /\ receiver[s] = n
        /\ iter[s] = iter[n] /\ Has(n, s) /\ ~ ready[n] /\ TypeOK
    BY <1>1, AcceptReply DEF TypeInv
  <1>3. \A p \in Node : Stage(p)' = Stage(p)
    BY <1>1, <1>2 DEF Stage, Outside, TypeOK
  <1>4. ASSUME NEW p \in Node, NEW q \in Node, p # q,
               NEW k \in 0 .. Iterations - 1, Settled(p, q, k)'
        PROVE  Settled(p, q, k) \/ HasIn(q, p, k)
    <2>1. CASE p = s /\ q = n
      <3>1. iter[s] \in Int /\ iter[n] = iter[s]
        BY <1>2 DEF TypeOK
      <3>2. iter[s] > k \/ iter[s] = k
        BY <1>1, <1>4, <2>1 DEF Settled
      <3> QED
        BY <1>2, <2>1, <3>1, <3>2 DEF HasIn
    <2>2. CASE p = s /\ q # n
      BY <1>1, <1>2, <1>3, <1>4, <2>2 DEF Settled, TypeOK
    <2>3. CASE p # s
      <3>1. ready'[p] = ready[p] /\ (pc'[p] = pc[p] \/ (p = n /\ pc'[p] \notin Sending))
        BY <1>1, <1>2, <2>3 DEF TypeOK, Sending, Offering
      <3> QED
        BY <1>1, <1>3, <1>4, <3>1 DEF Settled
    <2> QED
      BY <2>1, <2>2, <2>3
  <1>5. ASSUME NEW p \in Node, NEW q \in Node, p # q,
               NEW k \in 0 .. Iterations - 1, HasIn(p, q, k)
        PROVE  HasIn(p, q, k)'
    <2>1. Engaged(p) => Engaged(p)'
      BY <1>1, <1>2 DEF Engaged, TypeOK
    <2> QED
      BY <1>1, <1>3, <1>5, <2>1 DEF HasIn, Has
  <1> QED
    BY <1>4, <1>5, BarrierPreserved

-----------------------------------------------------------------------------
(* The sums. *)

(* The sum of a node is right as long as neither it nor what the node has  *)
(* changes.                                                                *)
LEMMA SumFrame ==
    ASSUME NEW n \in Node, Sum(n), copies'[n] = copies[n], iter'[n] = iter[n],
           pc'[n] \in {"idle", "minimise"} <=> pc[n] \in {"idle", "minimise"},
           pc'[n] \in {"idle", "minimise", "done"}
             <=> pc[n] \in {"idle", "minimise", "done"},
           \A q \in Node \ {n} : Has(n, q)' <=> Has(n, q)
    PROVE  Sum(n)'
  <1> SUFFICES ASSUME NEW q \in Node, NEW k \in 0 .. Iterations - 1
               PROVE  /\ pc'[n] \notin {"idle", "minimise", "done"} =>
                           copies'[n][<<q, k>>]
                             = IF q # n /\ k = iter'[n] /\ Has(n, q)' THEN 1 ELSE 0
                      /\ (pc'[n] \in {"idle", "minimise"} /\ k = iter'[n])
                           => copies'[n][<<q, k>>] = 0
    BY DEF Sum
  <1> QED
    BY DEF Sum

(* The average of a node is right as long as neither it nor the iteration  *)
(* changes.                                                                *)
LEMMA MeanFrame ==
    ASSUME NEW n \in Node, Mean(n), average'[n] = average[n], iter'[n] = iter[n]
    PROVE  Mean(n)'
  BY DEF Mean

(* The steps of one node's program keep the sums and averages exact. *)
LEMMA SumLocal ==
    ASSUME TypeInv, HandshakeInv, SumInv, NEW n \in Node, Local(n)
    PROVE  SumInv'
  <1>1. ASSUME NEW m \in Node, m # n PROVE Sum(m)' /\ Mean(m)'
    <2>1. Sum(m) /\ Mean(m)
      BY DEF SumInv
    <2>2. \A p \in Node : Has(m, p)' <=> Has(m, p)
      BY <1>1, LocalFrame DEF Has, Stage, Engaged
    <2>3. /\ pc'[m] = pc[m] /\ iter'[m] = iter[m]
          /\ copies'[m] = copies[m] /\ average'[m] = average[m]
      BY <1>1, LocalFrame
    <2> QED
      BY <2>1, <2>2, <2>3, SumFrame, MeanFrame
  <1>2. Sum(n) /\ Mean(n) /\ Structure(n) /\ ReadyDiscipline(n) /\ TypeOK
    BY DEF SumInv, TypeInv, HandshakeInv
  <1>3. \A m \in Node, k \in 0 .. Iterations - 1 : <<m, k>> \in Solution
    BY DEF Solution
  <1>4. CASE Solve(n)
    <2>1. /\ pc'[n] = "minimise" /\ iter'[n] = 0 /\ copies' = copies
          /\ pc[n] = "idle" /\ iter[n] = 0 /\ average'[n] = None
      BY <1>2, <1>4 DEF Solve, Goto, TypeOK, Structure
    <2> QED
      BY <1>1, <1>2, <1>3, <2>1 DEF SumInv, Sum, Mean, None
  <1>5. CASE Fill(n)
    <2>1. /\ pc[n] = "minimise" /\ pc'[n] = "install" /\ iter' = iter
          /\ copies'[n] = None /\ average' = average
      BY <1>2, <1>5 DEF Fill, Goto, TypeOK
    <2>2. ASSUME NEW p \in Node PROVE ~ Has(n, p)'
      BY <1>2, <1>5, <2>1, <2>2
         DEF Fill, Has, Stage, Engaged, Outside, ReadyDiscipline, Node
    <2> QED
      BY <1>1, <1>2, <1>3, <2>1, <2>2 DEF SumInv, Sum, Mean, None
  <1>6. CASE Average(n)
    <2>1. /\ pc[n] = "average" /\ pc'[n] \in {"minimise", "done"}
          /\ iter'[n] = iter[n] + 1 /\ iter[n] \in 0 .. Iterations - 1
          /\ copies' = copies
          /\ average'[n] = [copies[n] EXCEPT ![<<n, iter[n]>>] = @ + 1]
      BY <1>2, <1>6, IterFacts DEF Average, Goto, TypeOK
    <2>2. ASSUME NEW m \in Node, NEW k \in 0 .. Iterations - 1
          PROVE  copies[n][<<m, k>>] = IF m # n /\ k = iter[n] THEN 1 ELSE 0
      BY <1>2, <1>6, <2>1, AverageHas DEF Sum
    <2>3. Sum(n)'
      <3>1. ASSUME NEW m \in Node, NEW k \in 0 .. Iterations - 1, k = iter'[n]
            PROVE  copies'[n][<<m, k>>] = 0
        BY <2>1, <2>2, <3>1
      <3> QED
        BY <2>1, <3>1 DEF Sum
    <2>4. ASSUME NEW m \in Node, NEW k \in 0 .. Iterations - 1
          PROVE  average'[n][<<m, k>>] = IF k + 1 = iter'[n] THEN 1 ELSE 0
      <3>1. <<m, k>> \in DOMAIN copies[n]
        BY <1>2, <1>3 DEF TypeOK
      <3>2. <<m, k>> = <<n, iter[n]>> <=> m = n /\ k = iter[n]
        OBVIOUS
      <3> QED
        BY <2>1, <2>2, <3>1, <3>2
    <2> QED
      BY <1>1, <2>3, <2>4 DEF SumInv, Mean
  <1>7. CASE ~ (Solve(n) \/ Fill(n) \/ Average(n))
    <2>1. /\ UNCHANGED <<iter, copies, average>>
          /\ pc[n] \notin {"idle", "minimise", "done"}
          /\ pc'[n] \notin {"idle", "minimise", "done"}
      BY <1>2, <1>7 DEF TypeOK, Goto, Local, Install, Enter, Turn, Target,
           NextReceiver, EndTurn, Poll, Clear, Heard, Take, Leave, BeginStage
    <2>2. \A p \in Node \ {n} : Has(n, p)' <=> Has(n, p)
      BY <1>7, LocalHas
    <2> QED
      BY <1>1, <1>2, <2>1, <2>2 DEF SumInv, Sum, Mean
  <1> QED
    BY <1>4, <1>5, <1>6, <1>7

(* A solution that is accepted was not in the receiver's sum: it is added  *)
(* once.                                                                   *)
LEMMA SumTransmit ==
    ASSUME TypeInv, HandshakeInv, BarrierInv, SumInv,
           NEW n \in Node, NEW a, Transmit(n, a)
    PROVE  SumInv'
  <1> PICK m \in Node : m = receiver[n]
    BY TransmitFrame DEF TypeInv, Structure, Offering
  <1>1. /\ pc[n] = "send"
        /\ pc' = [pc EXCEPT ![n] = "poll"]
        /\ UNCHANGED <<sender, receiver, iter, average>>
    BY TransmitFrame
  <1>2. TypeOK /\ ~ ready[n]
    BY <1>1 DEF TypeInv, HandshakeInv, ReadyDiscipline
  <1>3. \A p \in Node : Stage(p)' = Stage(p)
    BY <1>1, <1>2 DEF Stage, Outside, TypeOK
  <1>4. \A p \in Node : Mean(p)'
    BY <1>1 DEF SumInv, Mean
  <1>5. CASE UNCHANGED <<ready, copies>>
    <2>1. ASSUME NEW p \in Node PROVE Sum(p)'
      <3>1. \A q \in Node : Has(p, q)' <=> Has(p, q)
        BY <1>1, <1>2, <1>3, <1>5 DEF Has, Engaged, TypeOK
      <3>2. pc'[p] \in {"idle", "minimise", "done"} <=> pc[p] \in {"idle", "minimise", "done"}
        BY <1>1, <1>2 DEF TypeOK
      <3>3. pc'[p] \in {"idle", "minimise"} <=> pc[p] \in {"idle", "minimise"}
        BY <1>1, <1>2 DEF TypeOK
      <3> QED
        BY <1>1, <1>5, <3>1, <3>2, <3>3, SumFrame DEF SumInv
    <2> QED
      BY <1>4, <2>1 DEF SumInv
  <1>6. CASE /\ Accepts(m, n, "CON")
             /\ ready' = [ready EXCEPT ![m] = TRUE]
             /\ copies' = [copies EXCEPT ![m][<<n, iter[n]>>] = @ + 1]
    <2>1. /\ m # n /\ Stage(m) = n /\ pc[m] \in {"enter", "wait"}
          /\ ~ Engaged(m) /\ ~ Has(m, n) /\ iter[m] = iter[n]
      BY <1>1, <1>6, AcceptSolution
    <2>2. ASSUME NEW p \in Node, p # m PROVE Sum(p)'
      <3>1. \A q \in Node : Has(p, q)' <=> Has(p, q)
        BY <1>1, <1>2, <1>3, <1>6, <2>2 DEF Has, Engaged, TypeOK
      <3>2. copies'[p] = copies[p]
        BY <1>2, <1>6, <2>2 DEF TypeOK
      <3>3. pc'[p] \in {"idle", "minimise", "done"} <=> pc[p] \in {"idle", "minimise", "done"}
        BY <1>1, <1>2 DEF TypeOK
      <3>4. pc'[p] \in {"idle", "minimise"} <=> pc[p] \in {"idle", "minimise"}
        BY <1>1, <1>2 DEF TypeOK
      <3> QED
        BY <1>1, <3>1, <3>2, <3>3, <3>4, SumFrame DEF SumInv
    <2>3. Sum(m)'
      <3>1. pc'[m] = pc[m] /\ pc'[m] \notin {"idle", "minimise", "done"}
        BY <1>1, <1>2, <1>6, <2>1 DEF TypeOK
      <3>2. \A q \in Node : Has(m, q)' <=> (Has(m, q) \/ q = n)
        <4>1. ready'[m] /\ pc'[m] \in {"enter", "wait", "take"}
          BY <1>2, <1>6, <2>1, <3>1 DEF TypeOK
        <4>2. Engaged(m)'
          BY <4>1 DEF Engaged
        <4>3. Stage(m)' = n
          BY <1>3, <1>6, <2>1
        <4> QED
          BY <2>1, <4>2, <4>3 DEF Has
      <3>3. ASSUME NEW q \in Node, NEW k \in 0 .. Iterations - 1
            PROVE  copies'[m][<<q, k>>]
                     = IF q # m /\ k = iter'[m] /\ Has(m, q)' THEN 1 ELSE 0
        <4>1. copies[m][<<q, k>>] = IF q # m /\ k = iter[m] /\ Has(m, q) THEN 1 ELSE 0
          BY <1>1, <1>6, <2>1, <3>1 DEF SumInv, Sum
        <4>2. <<q, k>> \in DOMAIN copies[m] /\ m \in DOMAIN copies
          BY <1>2, <1>6 DEF TypeOK, Solution
        <4>3. <<q, k>> = <<n, iter[n]>> <=> q = n /\ k = iter[n]
          OBVIOUS
        <4>4. copies'[m][<<q, k>>]
                = IF q = n /\ k = iter[n] THEN copies[m][<<q, k>>] + 1 ELSE copies[m][<<q, k>>]
          BY <1>6, <4>2, <4>3
        <4>5. CASE q = n /\ k = iter[n]
          BY <1>1, <2>1, <3>2, <4>1, <4>4, <4>5
        <4>6. CASE ~ (q = n /\ k = iter[n])
          BY <1>1, <2>1, <3>2, <4>1, <4>4, <4>6
        <4> QED
          BY <4>5, <4>6
      <3> QED
        BY <3>1, <3>3 DEF Sum
    <2> QED
      BY <1>4, <2>2, <2>3 DEF SumInv
  <1> QED
    BY <1>5, <1>6, TransmitFrame

(* An acknowledgement changes no sum. *)
LEMMA SumReply ==
    ASSUME TypeInv, HandshakeInv, SumInv, NEW n \in Node, NEW a, Reply(n, a)
    PROVE  SumInv'
  <1> DEFINE s == sender[n]
  <1>1. /\ pc[n] = "reply"
        /\ pc' = [pc EXCEPT ![n] = "leave"]
        /\ UNCHANGED <<sender, iter, copies, average>>
        /\ ready' = ready \/ ready' = [ready EXCEPT ![s] = TRUE]
    BY ReplyFrame
  <1>2. s \in Node \ {n} /\ pc[s] = "poll" /\ TypeOK
    BY <1>1, AcceptReply DEF TypeInv
  <1>3. ASSUME NEW p \in Node PROVE Sum(p)' /\ Mean(p)'
    <2>1. \A q \in Node : Has(p, q)' <=> Has(p, q)
      BY <1>1, <1>2 DEF Has, Stage, Outside, Engaged, TypeOK
    <2>2. pc'[p] \in {"idle", "minimise", "done"} <=> pc[p] \in {"idle", "minimise", "done"}
      BY <1>1, <1>2 DEF TypeOK
    <2>3. pc'[p] \in {"idle", "minimise"} <=> pc[p] \in {"idle", "minimise"}
      BY <1>1, <1>2 DEF TypeOK
    <2>4. Sum(p) /\ Mean(p)
      BY DEF SumInv
    <2> QED
      BY <1>1, <2>1, <2>2, <2>3, <2>4, SumFrame, MeanFrame
  <1> QED
    BY <1>3 DEF SumInv

-----------------------------------------------------------------------------
(* The invariant. *)

(* The invariant holds when solve is called. *)
LEMMA IInvInit == Init => IInv
  <1> SUFFICES ASSUME Init PROVE IInv
    OBVIOUS
  <1>1. /\ \A n \in Node : pc[n] = "idle" /\ ~ ready[n] /\ iter[n] = 0
        /\ \A n \in Node, s \in Solution : copies[n][s] = 0 /\ average[n][s] = 0
    BY DEF Init, None
  <1>2. \A m \in Node, k \in 0 .. Iterations - 1 : <<m, k>> \in Solution
    BY DEF Solution
  <1>3. HandshakeInv
    BY <1>1 DEF HandshakeInv, ReadyDiscipline, SenderDelays, Engaged
  <1>4. ASSUME NEW n \in Node, NEW m \in Node, NEW k \in 0 .. Iterations - 1
        PROVE  ~ Settled(n, m, k)
    BY <1>1 DEF Settled, Stage, Outside, Sending, Offering, Node
  <1>5. SumInv
    BY <1>1, <1>2 DEF SumInv, Sum, Mean
  <1> QED
    BY <1>3, <1>4, <1>5, TypeInit DEF IInv, BarrierInv, Barrier

(* Time changes only what the handshake's timing speaks of. *)
LEMMA TimeFrame ==
    ASSUME BarrierInv, SumInv,
           UNCHANGED <<handler, pc, sender, receiver, ready, iter, copies, average>>
    PROVE  BarrierInv' /\ SumInv'
  BY DEF BarrierInv, Barrier, Settled, HasIn, Has, Stage, Engaged, SumInv, Sum, Mean

(* The invariant is inductive. *)
LEMMA IInvStep == IInv /\ [Next]_vars => IInv'
  <1> SUFFICES ASSUME TypeInv, HandshakeInv, BarrierInv, SumInv, [Next]_vars
               PROVE  HandshakeInv' /\ BarrierInv' /\ SumInv'
    BY TypeStep DEF IInv
  <1>1. ASSUME NEW n \in Node, Local(n)
        PROVE  HandshakeInv' /\ BarrierInv' /\ SumInv'
    BY <1>1, HandshakeLocal, BarrierLocal, SumLocal
  <1>2. ASSUME NEW n \in Node, NEW a, Transmit(n, a)
        PROVE  HandshakeInv' /\ BarrierInv' /\ SumInv'
    BY <1>2, HandshakeTransmit, BarrierTransmit, SumTransmit
  <1>3. ASSUME NEW n \in Node, NEW a, Reply(n, a)
        PROVE  HandshakeInv' /\ BarrierInv' /\ SumInv'
    BY <1>3, HandshakeReply, BarrierReply, SumReply
  <1>4. CASE Tick
    BY <1>4, HandshakeTick, TimeFrame DEF Tick
  <1>5. CASE UNCHANGED vars
    <2>1. HandshakeInv'
      BY <1>5 DEF vars, HandshakeInv, ReadyDiscipline, SenderDelays, Engaged
    <2> QED
      BY <1>5, <2>1, TimeFrame DEF vars
  <1> QED
    BY <1>1, <1>2, <1>3, <1>4, <1>5 DEF Next, Step, Terminated

(* The inductive invariant of solve and getCopies: control structure,      *)
(* handshake timing, barriers and sums hold in every state, whatever the   *)
(* bus loses.                                                              *)
THEOREM Invariance == Spec => []IInv
  BY IInvInit, IInvStep, PTL DEF Spec

-----------------------------------------------------------------------------
(* What it gives. *)

(* When getCopies returns, d_copies has every other node's solution of the *)
(* iteration exactly once, whatever was lost or sent again.                *)
THEOREM CopiesAreExact == Spec => []CopiesExact
  <1>1. IInv => CopiesExact
    <2> SUFFICES ASSUME IInv, NEW n \in Node, pc[n] = "average"
                 PROVE  copies[n] = [s \in Solution |->
                                       IF s[1] # n /\ s[2] = iter[n] THEN 1 ELSE 0]
      BY DEF CopiesExact
    <2>1. copies[n] \in [Solution -> Nat] /\ Sum(n) /\ sender[n] = N
      BY DEF IInv, TypeInv, TypeOK, Structure, SumInv
    <2>2. ASSUME NEW m \in Node PROVE Has(n, m)
      BY <2>1 DEF Has, Stage, Outside, Node
    <2>3. ASSUME NEW s \in Solution
          PROVE  copies[n][s] = IF s[1] # n /\ s[2] = iter[n] THEN 1 ELSE 0
      <3>1. PICK m \in Node, k \in 0 .. Iterations - 1 : s = <<m, k>>
        BY DEF Solution
      <3> QED
        BY <2>1, <2>2, <3>1 DEF Sum
    <2> QED
      BY <2>1, <2>3
  <1> QED
    BY <1>1, Invariance, PTL

(* When getCopies returns, every other node has this node's solution, or   *)
(* has gone on with it to the next iteration and no further.               *)
THEOREM OthersHaveTheirs == Spec => []OthersHaveIt
  <1>1. IInv => OthersHaveIt
    <2> SUFFICES ASSUME IInv, NEW n \in Node, NEW m \in Node, pc[n] = "average", m # n
                 PROVE  \/ iter[m] = iter[n] /\ copies[m][<<n, iter[n]>>] = 1
                        \/ iter[m] = iter[n] + 1
      BY DEF OthersHaveIt
    <2> USE DEF IInv
    <2>1. /\ iter[n] \in 0 .. Iterations - 1 /\ iter[m] \in 0 .. Iterations
          /\ Structure(n) /\ Structure(m) /\ Sum(m) /\ ReadyDiscipline(m)
      BY IterFacts DEF TypeInv, TypeOK, SumInv, HandshakeInv
    <2>2. Stage(n) = N
      BY <2>1 DEF Stage, Structure, Outside
    <2>3. HasIn(m, n, iter[n])
      <3>1. Settled(n, m, iter[n])
        BY <2>1, <2>2 DEF Settled, Node
      <3> QED
        BY <2>1, <3>1 DEF BarrierInv, Barrier
    <2>4. CASE iter[m] = iter[n]
      <3>1. Has(m, n)
        BY <2>1, <2>3, <2>4 DEF HasIn
      <3>2. pc[m] \notin {"idle", "minimise", "done"}
        BY <2>1, <2>4, <3>1
           DEF Has, Stage, Engaged, Outside, Structure, ReadyDiscipline, Node
      <3> QED
        BY <2>1, <2>4, <3>1, <3>2 DEF Sum
    <2>5. CASE iter[m] > iter[n] + 1
      <3>1. Settled(m, n, iter[n] + 1) /\ iter[n] + 1 \in 0 .. Iterations - 1
        BY <2>1, <2>5 DEF Settled
      <3>2. HasIn(n, m, iter[n] + 1)
        BY <3>1 DEF BarrierInv, Barrier
      <3> QED
        BY <2>1, <3>2 DEF HasIn
    <2> QED
      BY <2>1, <2>3, <2>4, <2>5 DEF HasIn
  <1> QED
    BY <1>1, Invariance, PTL

(* Nodes in the same iteration hold the same average. *)
THEOREM AveragesAgree == Spec => []Agreement
  <1>1. IInv => Agreement
    <2> SUFFICES ASSUME IInv, NEW n \in Node, NEW m \in Node, iter[n] = iter[m]
                 PROVE  average[n] = average[m]
      BY DEF Agreement
    <2>1. /\ average[n] \in [Solution -> Nat] /\ average[m] \in [Solution -> Nat]
          /\ Mean(n) /\ Mean(m)
      BY DEF IInv, TypeInv, TypeOK, SumInv
    <2>2. ASSUME NEW s \in Solution PROVE average[n][s] = average[m][s]
      <3>1. PICK p \in Node, k \in 0 .. Iterations - 1 : s = <<p, k>>
        BY DEF Solution
      <3> QED
        BY <2>1, <3>1 DEF Mean
    <2> QED
      BY <2>1, <2>2
  <1> QED
    BY <1>1, Invariance, PTL

-----------------------------------------------------------------------------
(* getCopies implements the abstract all-to-all exchange, for any number of *)
(* boards and iterations and whatever packets the bus loses: accepting a    *)
(* solution is Collect, averaging is Complete, and every other step of the  *)
(* program is invisible.                                                    *)

(* What the refinement mapping shows of a state: whom each node has. *)
Holding(n) == {m \in Node \ {n} : Has(n, m)}

(* What the refinement mapping reads from d_copies is what the control     *)
(* says a node has.                                                        *)
LEMMA HeldIsHolding == IInv => held = [n \in Node |-> Holding(n)]
  <1> SUFFICES ASSUME IInv, NEW n \in Node, NEW m \in Node \ {n}
               PROVE  iter[n] < Iterations /\ copies[n][<<m, iter[n]>>] > 0
                        <=> Has(n, m)
    BY DEF held, Holding
  <1>1. /\ Structure(n) /\ ReadyDiscipline(n) /\ Sum(n)
        /\ iter[n] \in 0 .. Iterations /\ TypeInv
    BY DEF IInv, TypeInv, TypeOK, HandshakeInv, SumInv
  <1>2. CASE pc[n] \in {"idle", "minimise", "done"}
    <2>1. ~ Has(n, m)
      BY <1>1, <1>2 DEF Has, Stage, Engaged, Outside, ReadyDiscipline, Node
    <2>2. CASE pc[n] = "done"
      BY <1>1, <2>1, <2>2 DEF Structure
    <2>3. CASE pc[n] # "done"
      <3>1. copies[n][<<m, iter[n]>>] = 0
        BY <1>1, <1>2, <2>3, IterFacts DEF Sum
      <3> QED
        BY <2>1, <3>1
    <2> QED
      BY <2>2, <2>3
  <1>3. CASE pc[n] \notin {"idle", "minimise", "done"}
    <2>1. iter[n] \in 0 .. Iterations - 1
      BY <1>1, <1>3, IterFacts
    <2>2. copies[n][<<m, iter[n]>>] = IF Has(n, m) THEN 1 ELSE 0
      BY <1>1, <1>3, <2>1 DEF Sum
    <2> QED
      BY <2>1, <2>2
  <1> QED
    BY <1>2, <1>3

(* The same in the next state. *)
LEMMA HeldIsHoldingNext == IInv' => (held = [n \in Node |-> Holding(n)])'
  BY HeldIsHolding, PTL

(* A step that moves no iteration and gives nobody a solution is a stutter. *)
LEMMA Stutter ==
    ASSUME IInv, IInv', iter' = iter,
           \A n \in Node : \A m \in Node \ {n} : Has(n, m)' <=> Has(n, m)
    PROVE  UNCHANGED Exchange!vars
  <1>1. \A n \in Node : Holding(n)' = Holding(n)
    BY DEF Holding
  <1>2. held' = held
    BY <1>1, HeldIsHolding, HeldIsHoldingNext
  <1> QED
    BY <1>2 DEF Exchange!vars

(* A node that averages completes its round. *)
LEMMA AverageIsComplete ==
    ASSUME IInv, IInv', NEW n \in Node, Average(n)
    PROVE  Exchange!Complete(n)
  <1> USE DEF IInv
  <1>1. /\ iter' = [iter EXCEPT ![n] = @ + 1] /\ Local(n)
        /\ iter[n] \in 0 .. Iterations - 1 /\ pc[n] = "average" /\ TypeOK
    BY IterFacts DEF Average, Local, TypeInv
  <1>2. ASSUME NEW m \in Node \ {n} PROVE iter[m] > iter[n] \/ Has(m, n)
    <2>1. Settled(n, m, iter[n])
      BY <1>1 DEF Settled, Stage, Outside, TypeInv, Structure, Node
    <2> QED
      BY <1>1, <2>1 DEF BarrierInv, Barrier, HasIn, TypeOK
  <1>3. Holding(n) = Node \ {n} /\ Holding(n)' = {}
    BY AverageHas DEF Holding
  <1>4. ASSUME NEW m \in Node \ {n} PROVE Holding(m)' = Holding(m)
    BY <1>1, LocalFrame DEF Holding, Has, Stage, Engaged
  <1>5. held' = [held EXCEPT ![n] = {}]
    BY <1>3, <1>4, HeldIsHolding, HeldIsHoldingNext
  <1>6. \A m \in Node \ {n} : iter[m] > iter[n] \/ n \in held[m]
    BY <1>2, HeldIsHolding DEF Holding
  <1> QED
    BY <1>1, <1>3, <1>5, <1>6, HeldIsHolding
       DEF Exchange!Complete, Exchange!Others, Exchange!Obtained

(* A solution that arrives is collected by its receiver, if it is          *)
(* accepted.                                                               *)
LEMMA TransmitIsCollect ==
    ASSUME IInv, IInv', NEW n \in Node, NEW a, Transmit(n, a)
    PROVE  UNCHANGED Exchange!vars \/ \E m \in Node : Exchange!Collect(m, n)
  <1> USE DEF IInv
  <1> PICK m \in Node : m = receiver[n]
    BY TransmitFrame DEF TypeInv, Structure, Offering
  <1>1. /\ pc[n] = "send"
        /\ pc' = [pc EXCEPT ![n] = "poll"]
        /\ UNCHANGED <<sender, receiver, iter>>
    BY TransmitFrame
  <1>2. TypeOK /\ ~ ready[n]
    BY <1>1 DEF TypeInv, HandshakeInv, ReadyDiscipline
  <1>3. \A p \in Node : Stage(p)' = Stage(p)
    BY <1>1, <1>2 DEF Stage, Outside, TypeOK
  <1>4. CASE UNCHANGED ready
    <2>1. \A p, q \in Node : Has(p, q)' <=> Has(p, q)
      BY <1>1, <1>2, <1>3, <1>4 DEF Has, Engaged, TypeOK
    <2> QED
      BY <1>1, <2>1, Stutter
  <1>5. CASE Accepts(m, n, "CON") /\ ready' = [ready EXCEPT ![m] = TRUE]
    <2>1. /\ m # n /\ Stage(m) = n /\ pc[m] \in {"enter", "wait"}
          /\ ~ Engaged(m) /\ ~ Has(m, n) /\ iter[m] = iter[n]
      BY <1>1, <1>5, AcceptSolution
    <2>2. \A q \in Node : Has(m, q)' <=> (Has(m, q) \/ q = n)
      <3>1. ready'[m] /\ pc'[m] \in {"enter", "wait", "take"}
        BY <1>1, <1>2, <1>5, <2>1 DEF TypeOK
      <3>2. Engaged(m)' /\ Stage(m)' = n
        BY <1>3, <2>1, <3>1 DEF Engaged
      <3> QED
        BY <2>1, <3>2 DEF Has
    <2>3. ASSUME NEW p \in Node, p # m
          PROVE  \A q \in Node : Has(p, q)' <=> Has(p, q)
      BY <1>1, <1>2, <1>3, <1>5, <2>3 DEF Has, Engaged, TypeOK
    <2>4. Holding(m)' = Holding(m) \cup {n} /\ n \notin Holding(m)
      BY <2>1, <2>2 DEF Holding
    <2>5. ASSUME NEW p \in Node, p # m PROVE Holding(p)' = Holding(p)
      BY <2>3, <2>5 DEF Holding
    <2>6. held' = [held EXCEPT ![m] = @ \cup {n}]
      BY <2>4, <2>5, HeldIsHolding, HeldIsHoldingNext
    <2>7. iter[m] < Iterations
      BY <2>1, IterFacts
    <2> QED
      BY <1>1, <2>1, <2>4, <2>6, <2>7, HeldIsHolding
         DEF Exchange!Collect, Exchange!Others
  <1> QED
    BY <1>4, <1>5, TransmitFrame

(* An acknowledgement is no step of the exchange. *)
LEMMA ReplyIsStutter ==
    ASSUME IInv, IInv', NEW n \in Node, NEW a, Reply(n, a)
    PROVE  UNCHANGED Exchange!vars
  <1> USE DEF IInv
  <1> PICK s \in Node : s = sender[n]
    BY ReplyFrame, AcceptReply
  <1>1. /\ pc[n] = "reply"
        /\ pc' = [pc EXCEPT ![n] = "leave"]
        /\ UNCHANGED <<sender, iter>>
        /\ ready' = ready \/ ready' = [ready EXCEPT ![s] = TRUE]
    BY ReplyFrame
  <1>2. pc[s] = "poll" /\ s # n /\ TypeOK
    BY <1>1, AcceptReply DEF TypeInv
  <1>3. \A p, q \in Node : Has(p, q)' <=> Has(p, q)
    BY <1>1, <1>2 DEF Has, Stage, Outside, Engaged, TypeOK
  <1> QED
    BY <1>1, <1>3, Stutter

(* Nor is any other step of a node's program. *)
LEMMA LocalIsStutter ==
    ASSUME IInv, IInv', NEW n \in Node, Local(n), ~ Average(n)
    PROVE  UNCHANGED Exchange!vars
  <1> USE DEF IInv
  <1>1. iter' = iter
    <2>1. CASE Solve(n)
      <3>1. iter[n] = 0 /\ iter \in [Node -> 0 .. Iterations]
        BY <2>1 DEF Solve, TypeInv, TypeOK, Structure
      <3> QED
        BY <2>1, <3>1 DEF Solve
    <2>2. CASE ~ Solve(n)
      BY <2>2 DEF Local, Fill, Install, Enter, Turn, Target, NextReceiver, EndTurn,
           Poll, Clear, Heard, Take, Leave, BeginStage
    <2> QED
      BY <2>1, <2>2
  <1>2. ASSUME NEW p \in Node, NEW q \in Node \ {p} PROVE Has(p, q)' <=> Has(p, q)
    <2>1. CASE p = n
      BY <2>1, LocalHas
    <2>2. CASE p # n
      BY <2>2, LocalFrame DEF Has, Stage, Engaged
    <2> QED
      BY <2>1, <2>2
  <1> QED
    BY <1>1, <1>2, Stutter

(* The exchange starts when solve is called. *)
LEMMA InitRefines == Init => Exchange!Init
  <1> SUFFICES ASSUME Init PROVE Exchange!Init
    OBVIOUS
  <1>1. IInv
    BY IInvInit
  <1>2. \A n \in Node : Holding(n) = {}
    BY DEF Init, Holding, Has, Stage, Engaged, Outside, Node
  <1>3. held = [n \in Node |-> {}]
    BY <1>1, <1>2, HeldIsHolding
  <1> QED
    BY <1>3 DEF Init, Exchange!Init

(* Every step of solve and getCopies is a step of the exchange, or none. *)
LEMMA StepRefines ==
    IInv /\ IInv' /\ [Next]_vars => [Exchange!Next]_(Exchange!vars)
  <1> SUFFICES ASSUME IInv, IInv', [Next]_vars
               PROVE  [Exchange!Next]_(Exchange!vars)
    OBVIOUS
  <1>1. ASSUME NEW n \in Node, Local(n) PROVE [Exchange!Next]_(Exchange!vars)
    BY <1>1, AverageIsComplete, LocalIsStutter DEF Exchange!Next
  <1>2. ASSUME NEW n \in Node, NEW a, Transmit(n, a)
        PROVE  [Exchange!Next]_(Exchange!vars)
    BY <1>2, TransmitIsCollect DEF Exchange!Next
  <1>3. ASSUME NEW n \in Node, NEW a, Reply(n, a) PROVE [Exchange!Next]_(Exchange!vars)
    BY <1>3, ReplyIsStutter
  <1>4. CASE Tick \/ UNCHANGED vars
    <2>1. UNCHANGED <<iter, copies>>
      BY <1>4 DEF Tick, vars
    <2> QED
      BY <2>1 DEF Exchange!vars, held
  <1> QED
    BY <1>1, <1>2, <1>3, <1>4 DEF Next, Step, Terminated

(* Every behaviour of the boards is one of the abstract exchange: no node  *)
(* leaves a round before it has everybody's solution of that round and     *)
(* everybody has its own.                                                  *)
THEOREM Refinement == Spec => ExchangeSpec
  BY InitRefines, StepRefines, Invariance, PTL DEF Spec, ExchangeSpec, Exchange!Spec
=============================================================================
