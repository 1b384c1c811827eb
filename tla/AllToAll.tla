------------------------------ MODULE AllToAll ------------------------------
(***************************************************************************)
(* What an iteration of the consensus algorithm promises, whatever the     *)
(* packets that achieve it: the nodes go through a sequence of rounds, in  *)
(* each of which every node contributes one solution.  A node can collect  *)
(* the solution of another one only while both are in the same round, and  *)
(* it leaves the round when it has everybody's solution and everybody has  *)
(* its own.                                                                *)
(***************************************************************************)
EXTENDS Integers

CONSTANTS
    Node,    \* the participants
    Rounds   \* how many rounds the exchange lasts

VARIABLES
    round,   \* round[n] is the number of rounds that n has completed
    held     \* held[n] is the set of nodes whose solution n has in this round

vars == <<round, held>>

Others(n) == Node \ {n}

Init ==
    /\ round = [n \in Node |-> 0]
    /\ held = [n \in Node |-> {}]

(* n obtains the solution that m contributes to their common round. *)
Collect(n, m) ==
    /\ round[n] = round[m]
    /\ round[n] < Rounds
    /\ m \in Others(n) \ held[n]
    /\ held' = [held EXCEPT ![n] = @ \cup {m}]
    /\ UNCHANGED round

(* m has the solution of n's current round, or has finished that round. *)
Obtained(m, n) == round[m] > round[n] \/ n \in held[m]

Complete(n) ==
    /\ round[n] < Rounds
    /\ held[n] = Others(n)
    /\ \A m \in Others(n) : Obtained(m, n)
    /\ round' = [round EXCEPT ![n] = @ + 1]
    /\ held' = [held EXCEPT ![n] = {}]

Next == \E n \in Node : Complete(n) \/ \E m \in Node : Collect(n, m)

Spec == Init /\ [][Next]_vars
=============================================================================
