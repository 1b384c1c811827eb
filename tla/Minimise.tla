------------------------------ MODULE Minimise ------------------------------
(***************************************************************************)
(* What a node computes in each iteration of Consensus::solve (multiple_   *)
(* board/main/consensus.cpp): the minimum of its own cost, as the best of  *)
(* six candidates, each the minimum on some part of the boundary of the    *)
(* solutions that it may choose from.  Consensus models the exchange that  *)
(* follows; here it may bring any average.                                 *)
(*                                                                         *)
(* Arithmetic is exact: a vector has one denominator, and one with         *)
(* denominator zero is not a number.  Rounding is a choice in the two      *)
(* places where the code compares a float with the very value that exact   *)
(* arithmetic gives it: a divisor that may be zero, and a duty cycle of    *)
(* 100 %.  A gain is zero, or its square is not lost beside that of the    *)
(* node's own.  Everything is divided by rho: the multipliers, the cost,   *)
(* and the linear cost coefficient c, which is then Slope.  The quadratic  *)
(* coefficients Q are zero, as in consensus.hpp.                           *)
(***************************************************************************)
EXTENDS Integers, Functions

CONSTANTS
    N,          \* number of nodes
    MaxDC,      \* MAX_DC
    Slope,      \* C[id] / RHO
    Gains,      \* rows K_i of the gain matrix
    Targets,    \* L - o, the illuminance that the lamps must provide
    Averages,   \* averages that the exchange may bring
    Iterations, \* ITERATIONS
    Grid        \* vectors that a minimum is compared with

Node == 0 .. N - 1

ASSUME NAssumption       == N \in Nat /\ N > 1
ASSUME CostAssumption    == MaxDC \in Nat /\ Slope \in Nat /\ Iterations \in Nat
ASSUME InputsAssumption  == /\ Gains \subseteq [Node -> Nat] /\ Targets \subseteq Int
                            /\ Averages \subseteq [Node -> Int] /\ Grid \subseteq [Node -> Int]

VARIABLES
    id, K, target, \* the arguments of solve, target being L - o
    cancels,       \* the divisor of g_i is zero
    avg,           \* d_i_avg
    y,             \* y_i, a vector
    best,          \* d_i_best, a vector
    found,         \* cost_best is finite
    rejected,      \* d_5 has been rounded to more than MAX_DC
    step,          \* candidates tried in this iteration
    iter

args == <<id, K, target, cancels>>
vars == <<args, avg, y, best, found, rejected, step, iter>>

Sum(f)    == FoldFunction(LAMBDA a, b : a + b, 0, f)
Dot(a, b) == Sum([j \in Node |-> a[j] * b[j]])

Vector(num, den) == [num |-> num, den |-> den]
Zero == Vector([j \in Node |-> 0], 1)

Others(f) == [j \in Node |-> IF j = id THEN 0 ELSE f[j]]

(* rho * n_i, and the square of the norm of K_i_r. *)
Norm == Dot(K, K)
Rest == Dot(Others(K), Others(K))

(* The divisor of g_i is the difference of Norm and the square of the own  *)
(* gain.  For a node that only its own lamp gives light, the former is     *)
(* that square as well, but has been divided and multiplied by rho.        *)
Divisor == cancels \in IF Rest = 0 /\ K[id] # 0 THEN BOOLEAN ELSE {Rest = 0}

Init ==
    /\ id \in Node /\ K \in Gains /\ target \in Targets
    /\ Divisor
    /\ avg = [j \in Node |-> 0]
    /\ y = Zero /\ best = Zero
    /\ found = FALSE /\ rejected = FALSE /\ step = 0 /\ iter = 0

-----------------------------------------------------------------------------
(* The candidates. *)

(* Z_i / rho, with the denominator of y. *)
Z == [j \in Node |-> (avg[j] - IF j = id THEN Slope ELSE 0) * y.den - y.num[j]]

(* The target with the same denominator. *)
Target == target * y.den
Limit  == MaxDC * y.den

Unconstrained == Vector(Z, y.den)

OnLine == Vector([j \in Node |-> Norm * Z[j] - K[j] * (Dot(K, Z) - Target)], Norm * y.den)

AtZero == Vector([Z EXCEPT ![id] = 0], y.den)
AtMax  == Vector([Z EXCEPT ![id] = Limit], y.den)

(* d_4: where its own duty cycle would be cancelled it is added again. *)
OnLineAtZero ==
    Vector([j \in Node |->
              IF j = id THEN Rest * Z[id] + Rest * Z[id]
              ELSE Rest * Z[j] + K[j] * (Target - Dot(Others(K), Z))],
           Rest * y.den)

(* d_5 *)
OnLineAtMax ==
    Vector([j \in Node |->
              IF j = id THEN Rest * Z[id] + (Rest * Limit - Rest * Z[id])
              ELSE Rest * Z[j] + K[j] * (Target - Limit * K[id] - Dot(Others(K), Z))],
           Rest * y.den)

(* What they add to d_0 has Rest as a factor, in each component, and a      *)
(* divisor that rounding has kept from being zero leaves them equal to d_0.*)
Degenerate == Rest = 0 /\ ~cancels

Candidate(k) ==
    CASE k = 0 \/ (k > 3 /\ Degenerate) -> Unconstrained
      [] k = 1 -> OnLine
      [] k = 2 -> AtZero
      [] k = 3 -> AtMax
      [] k = 4 /\ ~Degenerate -> OnLineAtZero
      [] k = 5 /\ ~Degenerate -> OnLineAtMax

-----------------------------------------------------------------------------
(* checkConstraints, costFunction and updateBest. *)

(* Fault: the limit itself is taken for too much. *)
InBoxOpen(d) == d.num[id] >= 0 /\ d.num[id] < MaxDC * d.den

InBox(d)    == d.num[id] >= 0 /\ d.num[id] <= MaxDC * d.den
IsBright(d) == Dot(K, d.num) >= target * d.den

(* Those that are on the line are not checked against it. *)
CheckLinear(k) == k \in {0, 2, 3}

(* Fault: the unconstrained minimum is not checked against the line. *)
FeasibleUnchecked(k, d) == InBox(d) /\ (k \in {2, 3} => IsBright(d))

Feasible(k, d) == InBox(d) /\ (CheckLinear(k) => IsBright(d))

(* Twice the cost, with the square of the denominator of d times that of y. *)
CostFunction(d) ==
    LET e == [j \in Node |-> d.num[j] - avg[j] * d.den] IN
    2 * d.den * (Slope * d.num[id] * y.den + Dot(y.num, e)) + Dot(e, e) * y.den

IsCheaper(d, e) == CostFunction(d) * (e.den * e.den) < CostFunction(e) * (d.den * d.den)

(* The own component of d_5 is a sum of three terms, two of which cancel:  *)
(* it may come out as more than MAX_DC.                                    *)
MayRoundUp == IF step = 5 /\ Rest > 0 THEN BOOLEAN ELSE {FALSE}

(* Fault: the last feasible candidate is the best. *)
UpdateBestLast ==
    /\ step < 6
    /\ rejected' \in MayRoundUp
    /\ LET d == Candidate(step) IN
         IF ~rejected' /\ d.den # 0 /\ Feasible(step, d)
           THEN best' = d /\ found' = TRUE
           ELSE UNCHANGED <<best, found>>
    /\ step' = step + 1
    /\ UNCHANGED <<args, avg, y, iter>>

(* Comparisons with what is not a number are false. *)
UpdateBest ==
    /\ step < 6
    /\ rejected' \in MayRoundUp
    /\ LET d == Candidate(step) IN
         IF ~rejected' /\ d.den # 0 /\ Feasible(step, d) /\ (found => IsCheaper(d, best))
           THEN best' = d /\ found' = TRUE
           ELSE UNCHANGED <<best, found>>
    /\ step' = step + 1
    /\ UNCHANGED <<args, avg, y, iter>>

(* The exchange brings an average, and y_i += rho * (d_i_best - d_i_avg).  *)
Exchange(a) ==
    /\ step = 6 /\ iter + 1 < Iterations
    /\ avg' = a
    /\ y' = Vector([j \in Node |-> y.num[j] * best.den + (best.num[j] - a[j] * best.den) * y.den],
                   y.den * best.den)
    /\ step' = 0 /\ found' = FALSE /\ rejected' = FALSE
    /\ iter' = iter + 1
    /\ UNCHANGED <<args, best>>

Next == UpdateBest \/ \E a \in Averages : Exchange(a)

Spec == Init /\ [][Next]_vars

-----------------------------------------------------------------------------
(* Properties. *)

(* The best solution is a number, can be lit and gives the light that was  *)
(* asked for, although three of the candidates are never checked for it and *)
(* may divide by zero.  For a node that has no light of others, rounding   *)
(* may have made two of them the unconstrained minimum, which then may be  *)
(* too dark (updateBest, checkConstraints).                                *)
BestIsFeasible ==
    /\ best.den > 0
    /\ found => InBox(best) /\ (IsBright(best) \/ Degenerate)

(* The minimum is where the line meets the boundary at zero, or at 100:    *)
(* that on the line is beyond the boundary, that on the boundary too dark. *)
AtCorner == Rest > 0 /\ OnLine.num[id] < 0 /\ ~IsBright(AtZero)
AtLimit  == Rest > 0 /\ OnLine.num[id] > MaxDC * OnLine.den /\ ~IsBright(AtMax)

(* A node that can give the light finds how: alone, or with the help of    *)
(* another lamp that it has measured, unless it must be where the line     *)
(* meets a boundary and the only candidate there has been rounded away.    *)
(* With gains that are all zero, as before the first calibration, it finds *)
(* nothing if light is asked for, and keeps a solution of zero, so that    *)
(* its new reference is zero (solve).                                      *)
FindsIfPossible ==
    step = 6 =>
        /\ ~found => \/ Rest = 0 /\ K[id] * MaxDC < target
                     \/ rejected /\ (AtCorner \/ AtLimit)
        /\ Norm = 0 /\ target > 0 => ~found /\ best = Zero

IsMinimum ==
    \A g \in Grid : InBox(Vector(g, 1)) /\ IsBright(Vector(g, 1)) => ~IsCheaper(Vector(g, 1), best)

(* The best of the candidates is the minimum of the cost over all that the *)
(* node may choose, unless that is where the line meets the boundary at    *)
(* zero, or at 100 and has been rounded away (solve).                      *)
BestIsMinimum == step = 6 /\ found /\ ~AtCorner /\ ~(AtLimit /\ rejected) => IsMinimum

-----------------------------------------------------------------------------
(* What a comment of the code says, and the code does not ensure. *)

(* "d_4 Constrained to linear and 0 boundaries": with that candidate, the  *)
(* best is the minimum there as well, when nothing has been rounded away   *)
(* (solve).                                                                *)
CornerIsMinimum == step = 6 /\ found /\ ~rejected => IsMinimum
=============================================================================
