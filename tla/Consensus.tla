----------------------------- MODULE Consensus ------------------------------
(***************************************************************************)
(* One run of the distributed optimisation of multiple_board/main/         *)
(* consensus.cpp.  In each iteration of Consensus::solve a node minimises  *)
(* its own cost, exchanges its best solution with every other node         *)
(* (getCopies) and averages.  The exchange is a stop-and-wait protocol: in *)
(* stage `sender' the node of that number sends its solution to the others *)
(* one by one, each time until it is acknowledged, and the others wait.    *)
(* The receive callback runs as an interrupt between any two steps of the  *)
(* main program, with which it shares `ready', `d_copies', `sender' and    *)
(* `receiver'.                                                             *)
(*                                                                         *)
(* Solutions are abstract: <<n, k>> is what node n found in iteration k,   *)
(* and a sum of solutions is the number of times each one was added.       *)
(*                                                                         *)
(* Time is discrete.  delay(50) lasts Delay ticks; a finite sequence of    *)
(* instructions takes less than a tick, so time passes only when every     *)
(* node is computing its minimum, delaying or spinning on `ready'.         *)
(***************************************************************************)
EXTENDS I2CBus

CONSTANTS
    Iterations,  \* ITERATIONS
    Delay        \* ticks that delay(50) lasts

ASSUME IterationsAssumption == Iterations \in Nat /\ Iterations > 0
ASSUME DelayAssumption      == Delay \in Nat /\ Delay > 0

VARIABLES
    handler,   \* handler[n], the callback that n has given to Wire.onReceive
    pc,        \* pc[n], the next step of n in solve or getCopies
    sender,    \* sender[n], n's view of whose turn it is to send
    receiver,  \* receiver[n], whom n sends to in its own turn
    ready,     \* ready[n], the flag that locks n's progression
    iter,      \* iter[n], the iteration that n is in
    copies,    \* copies[n], d_copies as the number of times it has each solution
    average,   \* average[n], d_i_avg times N, in the same way
    timer      \* timer[n], the ticks that n still has to delay

vars == <<handler, pc, sender, receiver, ready, iter, copies, average, timer>>

Solution == Node \X (0 .. Iterations - 1)

None == [s \in Solution |-> 0]

Location ==
    {"idle", "minimise", "install", "enter", "turn", "target", "poll", "send",
     "clear", "next", "wait", "take", "reply", "leave", "average", "done"}

Init ==
    /\ handler = [n \in Node |-> "communication"]
    /\ pc = [n \in Node |-> "idle"]
    /\ \E i \in {0, N} :   \* the first run since power-up, or a later one
         sender = [n \in Node |-> i] /\ receiver = [n \in Node |-> i]
    /\ ready = [n \in Node |-> FALSE]
    /\ iter = [n \in Node |-> 0]
    /\ copies = [n \in Node |-> None]
    /\ average = [n \in Node |-> None]
    /\ timer = [n \in Node |-> 0]

Goto(n, l) == pc' = [pc EXCEPT ![n] = l]

-----------------------------------------------------------------------------
(* The receive callback. *)

(* Fault: an acknowledgement is expected from the sender of the stage. *)
AcceptsFromSender(m, n, type) ==
    /\ handler[m] = "consensus"
    /\ n = sender[m]
    /\ type = IF m = sender[m] THEN "ACK" ELSE "CON"

(* m is in the branch of onReceive that takes a packet of a type from n. *)
Accepts(m, n, type) ==
    /\ handler[m] = "consensus"
    /\ IF m = sender[m]
         THEN n = receiver[m] /\ type = "ACK"
         ELSE n = sender[m] /\ type = "CON"

(* m's callback runs on a packet from n, which carries n's current solution *)
(* when its type is CON.                                                    *)
OnReceive(m, n, type) ==
    IF Accepts(m, n, type)
      THEN /\ ready' = [ready EXCEPT ![m] = TRUE]
           /\ copies' = IF type = "CON"
                          THEN [copies EXCEPT ![m][<<n, iter[n]>>] = @ + 1]
                          ELSE copies
      ELSE UNCHANGED <<ready, copies>>

(* n puts a packet for m on the bus. *)
SendPacket(n, m, type, arrives) ==
    IF arrives THEN OnReceive(m, n, type) ELSE UNCHANGED <<ready, copies>>

-----------------------------------------------------------------------------
(* The main program: solve and getCopies. *)

Solve(n) ==
    /\ pc[n] = "idle"
    /\ iter' = [iter EXCEPT ![n] = 0]
    /\ average' = [average EXCEPT ![n] = None]
    /\ Goto(n, "minimise")
    /\ UNCHANGED <<handler, sender, receiver, ready, copies, timer>>

(* Fault: getCopies does not clear the sum. *)
FillKeepsSum(n) ==
    /\ pc[n] = "minimise"
    /\ Goto(n, "install")
    /\ UNCHANGED <<handler, sender, receiver, ready, iter, copies, average, timer>>

(* The local minimum is found; getCopies starts by clearing the sum. *)
Fill(n) ==
    /\ pc[n] = "minimise"
    /\ copies' = [copies EXCEPT ![n] = None]
    /\ Goto(n, "install")
    /\ UNCHANGED <<handler, sender, receiver, ready, iter, average, timer>>

Install(n) ==
    /\ pc[n] = "install"
    /\ handler' = [handler EXCEPT ![n] = "consensus"]
    /\ Goto(n, "enter")
    /\ UNCHANGED <<sender, receiver, ready, iter, copies, average, timer>>

(* The head of the loop over senders. *)
BeginStage(n, s) ==
    /\ sender' = [sender EXCEPT ![n] = s]
    /\ Goto(n, IF s = N THEN "average" ELSE IF s = n THEN "turn" ELSE "wait")
    /\ UNCHANGED <<handler, receiver, ready, iter, copies, average, timer>>

Enter(n) == pc[n] = "enter" /\ BeginStage(n, 0)

Turn(n) ==
    /\ pc[n] = "turn"
    /\ receiver' = [receiver EXCEPT ![n] = 0]
    /\ Goto(n, "target")
    /\ UNCHANGED <<handler, sender, ready, iter, copies, average, timer>>

(* The head of the loop over receivers: after the last one, on another     *)
(* node, on the node itself.                                               *)
EndTurn(n) == pc[n] = "target" /\ receiver[n] = N /\ BeginStage(n, n + 1)

Target(n) ==
    /\ pc[n] = "target"
    /\ receiver[n] \in Node \ {n}
    /\ Goto(n, "poll")
    /\ UNCHANGED <<handler, sender, receiver, ready, iter, copies, average, timer>>

NextReceiver(n) ==
    /\ pc[n] = "next" \/ (pc[n] = "target" /\ receiver[n] = n)
    /\ receiver' = [receiver EXCEPT ![n] = @ + 1]
    /\ Goto(n, "target")
    /\ UNCHANGED <<handler, sender, ready, iter, copies, average, timer>>

(* The condition of the retransmission loop, read after any delay. *)
Poll(n) ==
    /\ pc[n] = "poll"
    /\ timer[n] = 0
    /\ Goto(n, IF ready[n] THEN "clear" ELSE "send")
    /\ UNCHANGED <<handler, sender, receiver, ready, iter, copies, average, timer>>

(* Fault: no delay between two transmissions. *)
TransmitAtOnce(n, arrives) ==
    /\ pc[n] = "send"
    /\ SendPacket(n, receiver[n], "CON", arrives)
    /\ Goto(n, "poll")
    /\ UNCHANGED <<handler, sender, receiver, iter, average, timer>>

(* The body of that loop: send the solution, then delay(50). *)
Transmit(n, arrives) ==
    /\ pc[n] = "send"
    /\ SendPacket(n, receiver[n], "CON", arrives)
    /\ timer' = [timer EXCEPT ![n] = Delay]
    /\ Goto(n, "poll")
    /\ UNCHANGED <<handler, sender, receiver, iter, average>>

(* Fault: the sender forgets to clear the flag between two receivers. *)
ClearKeepsReady(n) ==
    /\ pc[n] = "clear"
    /\ Goto(n, "next")
    /\ UNCHANGED <<handler, sender, receiver, ready, iter, copies, average, timer>>

Clear(n) ==
    /\ pc[n] = "clear"
    /\ ready' = [ready EXCEPT ![n] = FALSE]
    /\ Goto(n, "next")
    /\ UNCHANGED <<handler, sender, receiver, iter, copies, average, timer>>

(* The other nodes: spin until `ready', clear it, acknowledge once. *)
Heard(n) ==
    /\ pc[n] = "wait"
    /\ ready[n]
    /\ Goto(n, "take")
    /\ UNCHANGED <<handler, sender, receiver, ready, iter, copies, average, timer>>

(* Fault: a receiver does not clear the flag that ended its wait. *)
TakeKeepsReady(n) ==
    /\ pc[n] = "take"
    /\ Goto(n, "reply")
    /\ UNCHANGED <<handler, sender, receiver, ready, iter, copies, average, timer>>

Take(n) ==
    /\ pc[n] = "take"
    /\ ready' = [ready EXCEPT ![n] = FALSE]
    /\ Goto(n, "reply")
    /\ UNCHANGED <<handler, sender, receiver, iter, copies, average, timer>>

Reply(n, arrives) ==
    /\ pc[n] = "reply"
    /\ SendPacket(n, sender[n], "ACK", arrives)
    /\ Goto(n, "leave")
    /\ UNCHANGED <<handler, sender, receiver, iter, average, timer>>

Leave(n) == pc[n] = "leave" /\ BeginStage(n, sender[n] + 1)

(* Back in solve: add the node's own solution and go to the next iteration. *)
Average(n) ==
    /\ pc[n] = "average"
    /\ average' = [average EXCEPT ![n] = [copies[n] EXCEPT ![<<n, iter[n]>>] = @ + 1]]
    /\ iter' = [iter EXCEPT ![n] = @ + 1]
    /\ Goto(n, IF iter[n] + 1 < Iterations THEN "minimise" ELSE "done")
    /\ UNCHANGED <<handler, sender, receiver, ready, copies, timer>>

-----------------------------------------------------------------------------
(* Time. *)

(* n executes instructions: no time passes before its next step. *)
Busy(n) ==
    \/ pc[n] \notin {"idle", "minimise", "poll", "wait", "done"}
    \/ pc[n] = "poll" /\ timer[n] = 0
    \/ pc[n] = "wait" /\ ready[n]

Elapsed(t) == [n \in Node |-> IF t[n] > 0 THEN t[n] - 1 ELSE 0]

Tick ==
    /\ \A n \in Node : ~ Busy(n)
    /\ \E n \in Node : timer[n] > 0
    /\ timer' = Elapsed(timer)
    /\ UNCHANGED <<handler, pc, sender, receiver, ready, iter, copies, average>>

-----------------------------------------------------------------------------
Local(n) ==
    \/ Solve(n) \/ Fill(n) \/ Install(n) \/ Enter(n)
    \/ Turn(n) \/ Target(n) \/ NextReceiver(n) \/ EndTurn(n)
    \/ Poll(n) \/ Clear(n)
    \/ Heard(n) \/ Take(n) \/ Leave(n)
    \/ Average(n)

Step(n) ==
    \/ Local(n)
    \/ \E a \in Arrival("CON") : Transmit(n, a)
    \/ \E a \in Arrival("ACK") : Reply(n, a)

(* The run is over: solve has returned on every node. *)
Terminated == (\A n \in Node : pc[n] = "done") /\ UNCHANGED vars

Next == (\E n \in Node : Step(n)) \/ Tick \/ Terminated

Spec == Init /\ [][Next]_vars

(* Every board executes its program and time passes.  The bus may lose a   *)
(* solution again and again, not for ever.                                 *)
Fairness ==
    /\ \A n \in Node : WF_vars(Step(n)) /\ SF_vars(Transmit(n, TRUE))
    /\ WF_vars(Tick)

FairSpec == Spec /\ Fairness

-----------------------------------------------------------------------------
(* Properties. *)

TypeOK ==
    /\ handler \in [Node -> Callback]
    /\ pc \in [Node -> Location]
    /\ sender \in [Node -> 0 .. N]
    /\ receiver \in [Node -> 0 .. N]
    /\ ready \in [Node -> BOOLEAN]
    /\ iter \in [Node -> 0 .. Iterations]
    /\ copies \in [Node -> [Solution -> Nat]]
    /\ average \in [Node -> [Solution -> Nat]]
    /\ timer \in [Node -> 0 .. Delay]

(* When getCopies returns, d_copies is the sum of exactly one solution of  *)
(* every other node, the one of this iteration: none is missing, none was  *)
(* added twice by a retransmission, none is left from the last iteration.  *)
CopiesExact ==
    \A n \in Node : pc[n] = "average" =>
        copies[n] = [s \in Solution |-> IF s[1] # n /\ s[2] = iter[n] THEN 1 ELSE 0]

(* When getCopies returns on a node, every other node has the solution of  *)
(* that node too, or has already averaged it.                              *)
OthersHaveIt ==
    \A n, m \in Node : (pc[n] = "average" /\ m # n) =>
        \/ iter[m] = iter[n] /\ copies[m][<<n, iter[n]>>] = 1
        \/ iter[m] = iter[n] + 1

(* Nodes that have completed the same number of iterations have computed   *)
(* the same average: the multipliers they derive from it stay consistent.  *)
Agreement ==
    \A n, m \in Node : iter[n] = iter[m] => average[n] = average[m]

(* getCopies implements the abstract all-to-all exchange. *)
held == [n \in Node |->
           {m \in Node \ {n} : iter[n] < Iterations /\ copies[n][<<m, iter[n]>>] > 0}]

Exchange == INSTANCE AllToAll WITH Rounds <- Iterations, round <- iter

ExchangeSpec == Exchange!Spec

(* What the comment of getCopies says, of the last iteration: every node    *)
(* has every other node's solution in the end.                              *)
EveryNodeHasEverySolution ==
    \A n, m \in Node : n # m => <>(copies[n][<<m, Iterations - 1>>] = 1)

(* solve returns on every node. *)
Completes == <>(\A n \in Node : pc[n] = "done")
=============================================================================
