---------------------------- MODULE PIController ----------------------------
(***************************************************************************)
(* The controller of a lamp, PIController::Controller of pi.cpp, as a      *)
(* record and what its operations make of it.  Numbers are integers: the   *)
(* gain of the anti-windup loop, one half, rounds down, and the weight and *)
(* the slope of the feedforward characteristic are kept as their quotient. *)
(* Where the slope is zero, what is divided by it is infinite or not a     *)
(* number, and what is computed from that in turn.                         *)
(***************************************************************************)
EXTENDS Integers

CONSTANTS
    KP,        \* k_p
    K2,        \* k_2, that is k_i * T / 2
    FF0,       \* K_FF / M_FF
    BFF,       \* B_FF
    SatMin,    \* ANTI_WINDUP_SAT_MIN
    SatMax,    \* ANTI_WINDUP_SAT_MAX
    DeadZone   \* ERR_DEADZONE_MAX, and -ERR_DEADZONE_MIN

ASSUME GainsAssumption  == KP \in Nat /\ K2 \in Nat
ASSUME FeedForwardAssumption == FF0 \in Int /\ BFF \in Int /\ BFF <= 0
ASSUME LimitsAssumption == /\ SatMin \in Int /\ SatMax \in Int /\ SatMin <= SatMax
                           /\ DeadZone \in Nat

(* ff is k_ff / m_ff, unless m_ff is zero and the characteristic is flat.  *)
(* number: i, u and usat are numbers; otherwise their values mean nothing. *)
Controller ==
    [err : Int, i : Int, u : Int, usat : Int, number : BOOLEAN,
     ff : Int, flat : BOOLEAN, b : Int,
     feedforward : BOOLEAN, antiwindup : BOOLEAN, deadzone : BOOLEAN]

(* The constructor, and configureFeatures. *)
New(ff, aw, dz) ==
    [err |-> 0, i |-> 0, u |-> 0, usat |-> 0, number |-> TRUE,
     ff |-> FF0, flat |-> FALSE, b |-> BFF,
     feedforward |-> ff, antiwindup |-> aw, deadzone |-> dz]

ApplySaturation(x) == IF x > SatMax THEN SatMax ELSE IF x < SatMin THEN SatMin ELSE x

(* Fault: the lower limit of the dead zone has lost its sign. *)
ApplyDeadzoneUnsigned(e) ==
    IF e > DeadZone THEN e - DeadZone ELSE IF e < DeadZone THEN e + DeadZone ELSE 0

ApplyDeadzone(e) ==
    IF e > DeadZone THEN e - DeadZone ELSE IF e < -DeadZone THEN e + DeadZone ELSE 0

(* The new error, the proportional term and the integral term of an update *)
(* at input y and reference r.                                             *)
Error(c, y, r) == IF c.deadzone THEN ApplyDeadzone(r - y) ELSE r - y

Proportional(c, y, r) ==
    KP * Error(c, y, r) + IF c.feedforward THEN c.ff * (r - c.b) ELSE 0

(* Fault: the loop feeds back the excess of the output, not its negative. *)
IntegralRunsAway(c, y, r) ==
    c.i + K2 * (Error(c, y, r) + c.err) + IF c.antiwindup THEN (c.u - c.usat) \div 2 ELSE 0

(* Fault: the loop feeds nothing back. *)
IntegralOpen(c, y, r) == c.i + K2 * (Error(c, y, r) + c.err)

Integral(c, y, r) ==
    c.i + K2 * (Error(c, y, r) + c.err) + IF c.antiwindup THEN (c.usat - c.u) \div 2 ELSE 0

Unsaturated(c, y, r) == Proportional(c, y, r) + Integral(c, y, r)

(* What is written to *(this->out). *)
Output(c, y, r) ==
    IF c.antiwindup THEN ApplySaturation(Unsaturated(c, y, r)) ELSE Unsaturated(c, y, r)

(* An infinite feedforward term leaves an infinite integral, whose sum      *)
(* with the next one is not a number: there is no way back, for nothing    *)
(* resets the history.                                                     *)
Diverges(c) == ~c.number \/ (c.feedforward /\ c.flat)

(* Without anti-windup the saturated output is not updated. *)
Update(c, y, r) ==
    IF Diverges(c)
      THEN [c EXCEPT !.err = Error(c, y, r), !.number = FALSE]
      ELSE [c EXCEPT !.err = Error(c, y, r), !.i = Integral(c, y, r),
                     !.u = Unsaturated(c, y, r),
                     !.usat = IF c.antiwindup THEN Output(c, y, r) ELSE @]

(* updateFeedForward, with the new slope, flat or not, and intercept. *)
UpdateFeedForward(c, flat, k, o) == [c EXCEPT !.flat = flat, !.ff = k, !.b = o]
=============================================================================
