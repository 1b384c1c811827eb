------------------------- MODULE ConsensusInvariant -------------------------
(***************************************************************************)
(* The inductive invariant of Consensus.  TypeOK and the safety properties *)
(* are not inductive: that a solution is added exactly once rests on where *)
(* both ends of a handshake are, on the acknowledgement being sent before  *)
(* the sender's delay(50) is over, and on the stages being barriers.       *)
(***************************************************************************)
EXTENDS Consensus

(* The steps of getCopies before its loop, and those of a node's own turn   *)
(* and of the turn of another node.                                         *)
Outside   == {"idle", "minimise", "install", "enter", "done"}
Offering  == {"poll", "send", "clear", "next"}
Sending   == Offering \cup {"turn", "target"}
Answering == {"take", "reply", "leave"}
Receiving == Answering \cup {"wait"}

(* Where the control is determines whose turn a node believes it is, whom  *)
(* it serves and whether it listens.                                       *)
Structure(n) ==
    /\ pc[n] \in Sending => sender[n] = n
    /\ pc[n] \in Receiving => sender[n] \in Node \ {n}
    /\ pc[n] \in Offering => receiver[n] \in Node \ {n}
    /\ pc[n] \in {"average", "done"} => sender[n] = N
    /\ pc[n] \in Outside => sender[n] = N \/ (sender[n] = 0 /\ iter[n] = 0)
    /\ handler[n] # "consensus" => pc[n] \in {"idle", "minimise", "install"}
    /\ (pc[n] \in {"idle", "minimise", "install"} /\ handler[n] = "consensus")
         => sender[n] = N
    /\ pc[n] = "done" <=> iter[n] = Iterations
    /\ pc[n] = "idle" => iter[n] = 0

(* `ready' is set only while its node can still consume it. *)
ReadyDiscipline(n) ==
    /\ ready[n] => pc[n] \in {"enter", "wait", "take", "poll", "clear"}
    /\ pc[n] \in {"take", "clear"} => ready[n]
    /\ (ready[n] /\ pc[n] = "enter") => sender[n] \in Node \ {n}

(* m has accepted a solution in the current stage and has not left it yet. *)
Engaged(m) ==
    \/ pc[m] \in {"reply", "leave"}
    \/ ready[m] /\ pc[m] \in {"enter", "wait", "take"}

(* While a receiver is engaged its sender is in the delay that follows the *)
(* transmission: it cannot repeat what is being acknowledged.              *)
SenderDelays(m) ==
    Engaged(m) =>
        LET n == sender[m] IN
        /\ n \in Node \ {m}
        /\ pc[n] = "poll"
        /\ timer[n] = Delay
        /\ sender[n] = n
        /\ receiver[n] = m
        /\ iter[n] = iter[m]

(* The stage that n has reached in its iteration. *)
Stage(n) == IF pc[n] \in Outside THEN 0 ELSE sender[n]

(* n has the solution of another node m for its current iteration. *)
Has(n, m) == m < Stage(n) \/ (m = Stage(n) /\ Engaged(n))

HasIn(n, m, k) == iter[n] > k \/ (iter[n] = k /\ Has(n, m))

(* n has seen m's acknowledgement for iteration k. *)
Settled(n, m, k) ==
    \/ iter[n] > k
    \/ /\ iter[n] = k
       /\ \/ n < Stage(n)
          \/ /\ pc[n] \in Sending \ {"turn"}
             /\ \/ m < receiver[n]
                \/ m = receiver[n] /\ (ready[n] \/ pc[n] = "next")

(* The turns are barriers: a node goes on only when the others have taken  *)
(* what it sent.                                                           *)
Barrier(n, m) ==
    \A k \in 0 .. Iterations - 1 : Settled(n, m, k) => HasIn(m, n, k)

(* d_copies holds exactly one copy of each solution received so far. *)
Sum(n) ==
    \A m \in Node, k \in 0 .. Iterations - 1 :
        /\ pc[n] \notin {"idle", "minimise", "done"} =>
             copies[n][<<m, k>>] = IF m # n /\ k = iter[n] /\ Has(n, m) THEN 1 ELSE 0
        /\ (pc[n] \in {"idle", "minimise"} /\ k = iter[n]) => copies[n][<<m, k>>] = 0

(* d_i_avg is the average of everybody's solutions of the last iteration. *)
Mean(n) ==
    \A m \in Node, k \in 0 .. Iterations - 1 :
        average[n][<<m, k>>] = IF k + 1 = iter[n] THEN 1 ELSE 0

TypeInv == TypeOK /\ \A n \in Node : Structure(n)

HandshakeInv == \A n \in Node : ReadyDiscipline(n) /\ SenderDelays(n)

BarrierInv == \A n, m \in Node : n # m => Barrier(n, m)

SumInv == \A n \in Node : Sum(n) /\ Mean(n)

(* The inductive invariant: the control structure, the handshake's timing, *)
(* the barriers and what has been summed, of every node.                   *)
IInv == TypeInv /\ HandshakeInv /\ BarrierInv /\ SumInv
=============================================================================
