----------------------------- MODULE ControlLoop -----------------------------
(***************************************************************************)
(* The loop that controls a lamp: the timer interrupt, which measures and  *)
(* runs the controller, and the main program, which it interrupts at any   *)
(* point, and which changes the reference and the features under it.       *)
(*                                                                         *)
(* Two programs drive the same controller: that of a board on its own      *)
(* (single_board/main), whose user switches the features on and off, and   *)
(* that of a board among others (multiple_board/main), which stops the     *)
(* controller to calibrate or to optimise.  A run is one of the two.  What *)
(* the light sensor measures is any of a few values at every interrupt.    *)
(***************************************************************************)
EXTENDS PIController

CONSTANTS
    Lux,       \* what the sensor measures, and the external light that a
               \* calibration finds
    Factors,   \* K_FF over the gains that a calibration finds
    Ref,       \* references
    Torn,      \* what a reference may read as while it is being written
    MaxLux,    \* bound on all illuminances
    Recovery,  \* updates that it takes to unwind
    MaxLoose   \* bound: updates without anti-windup

ASSUME LuxAssumption ==
    /\ MaxLux \in Nat /\ MaxLoose \in Nat /\ Recovery \in Nat
    /\ Lux \subseteq 0 .. MaxLux /\ Ref \subseteq 0 .. MaxLux /\ Torn \subseteq 0 .. MaxLux
    /\ 0 \in Ref /\ Factors \subseteq Int

(* The anti-windup saturates to what the lamp takes. *)
ASSUME LampAssumption == SatMin = 0

(* There is an integral term, and a lamp. *)
ASSUME IntegralAssumption == K2 > 0 /\ SatMax > SatMin

VARIABLES
    board,      \* the program: single or multiple
    controller,
    state,      \* of a board among others: what the interrupt looks at
    ref,        \* the reference; while it is being written, the old one
    goal,       \* the reference that is being written
    writing,    \* the main program has written some bytes of the reference
    out,        \* the output variable, which is reported
    lamp,       \* what analogWrite was given last
    loose,      \* updates without anti-windup so far
    excess,     \* history: updates in a row with the lamp at its maximum and
                \* an error that asks for less
    steepest    \* history: the largest factor of the feedforward so far

vars == <<board, controller, state, ref, goal, writing, out, lamp, loose, excess, steepest>>

MaxOut == SatMax

Abs(x) == IF x < 0 THEN -x ELSE x

(* setup(): all features are on before the first interrupt, which comes a   *)
(* whole period after the timer was set up.                                *)
Init ==
    /\ board \in {"single", "multiple"}
    /\ controller = New(TRUE, TRUE, TRUE)
    /\ state = "control"
    /\ ref \in Ref /\ goal = ref /\ writing = FALSE
    /\ out = 0 /\ lamp = 0
    /\ loose = 0 /\ excess = 0 /\ steepest = Abs(FF0)

-----------------------------------------------------------------------------
(* The interrupt. *)

(* writeToLed of the board among others: what is out of range goes to the   *)
(* other end.                                                              *)
Wrapped(x) == LET y == IF x >= 0 THEN x ELSE MaxOut IN IF y <= MaxOut THEN y ELSE 0

(* writeToLed of the board on its own. *)
Clipped(x) == LET y == IF x >= 0 THEN x ELSE 0 IN IF y <= MaxOut THEN y ELSE MaxOut

(* Fault: the board on its own goes to the other end as well. *)
WriteToLedWraps(x) == Wrapped(x)

WriteToLed(x) == IF board = "single" THEN Clipped(x) ELSE Wrapped(x)

(* The interrupt may read a reference of which some bytes are new. *)
Readable == IF writing THEN {ref, goal} \cup Torn ELSE {ref}

(* What is not a number, or infinite, goes to an end. *)
Interrupt(y, r) ==
    /\ state = "control"
    /\ controller.antiwindup \/ loose < MaxLoose
    /\ controller' = Update(controller, y, r)
    /\ IF controller'.number THEN out' = WriteToLed(Output(controller, y, r))
                             ELSE out' \in {0, MaxOut}
    /\ lamp' = out'
    /\ loose' = IF controller.antiwindup THEN loose ELSE loose + 1
    /\ excess' = IF controller'.number /\ controller'.err < 0 /\ lamp' = MaxOut
                   THEN excess + 1 ELSE 0
    /\ UNCHANGED <<board, state, ref, goal, writing, steepest>>

-----------------------------------------------------------------------------
(* The main program. *)

(* processCommand: a new reference is written, byte by byte. *)
BeginWrite(r) ==
    /\ state = "control" /\ ~writing
    /\ goal' = r /\ writing' = TRUE
    /\ UNCHANGED <<board, controller, state, ref, out, lamp, loose, excess, steepest>>

EndWrite ==
    /\ writing
    /\ ref' = goal /\ writing' = FALSE
    /\ UNCHANGED <<board, controller, state, goal, out, lamp, loose, excess, steepest>>

(* processCommand of the board on its own. *)
UseFeedforward(on) ==
    /\ board = "single" /\ ~writing
    /\ controller' = [controller EXCEPT !.feedforward = on]
    /\ UNCHANGED <<board, state, ref, goal, writing, out, lamp, loose, excess, steepest>>

UseErrorDeadzone(on) ==
    /\ board = "single" /\ ~writing
    /\ controller' = [controller EXCEPT !.deadzone = on]
    /\ UNCHANGED <<board, state, ref, goal, writing, out, lamp, loose, excess, steepest>>

UseAntiWindup(on) ==
    /\ board = "single" /\ ~writing
    /\ controller' = [controller EXCEPT !.antiwindup = on]
    /\ UNCHANGED <<board, state, ref, goal, writing, out, lamp, loose, excess, steepest>>

(* updateState and doConsensus of a board among others: the interrupt does  *)
(* nothing until the reference has been written.                           *)
BeginConsensus ==
    /\ board = "multiple" /\ state = "control" /\ ~writing
    /\ state' = "consensus"
    /\ UNCHANGED <<board, controller, ref, goal, writing, out, lamp, loose, excess, steepest>>

EndConsensus(r) ==
    /\ state = "consensus"
    /\ state' = "control" /\ ref' = r /\ goal' = r
    /\ UNCHANGED <<board, controller, writing, out, lamp, loose, excess, steepest>>

(* calibrate: the lamp goes off, the output variable and the history of the *)
(* controller stay.                                                        *)
BeginCalibration ==
    /\ board = "multiple" /\ state = "control" /\ ~writing
    /\ state' = "calibration" /\ lamp' = 0 /\ excess' = 0
    /\ UNCHANGED <<board, controller, ref, goal, writing, out, loose, steepest>>

(* Then the gain of its own lamp is the slope of the feedforward, of any    *)
(* sign, or zero if the sensor has not seen the lamp.                      *)
EndCalibration(flat, k, o) ==
    /\ state = "calibration"
    /\ state' = "control"
    /\ controller' = UpdateFeedForward(controller, flat, k, o)
    /\ steepest' = IF Abs(k) > steepest THEN Abs(k) ELSE steepest
    /\ UNCHANGED <<board, ref, goal, writing, out, lamp, loose, excess>>

Main ==
    \/ \E r \in Ref : BeginWrite(r) \/ EndConsensus(r)
    \/ EndWrite \/ BeginConsensus \/ BeginCalibration
    \/ \E o \in Lux : EndCalibration(TRUE, 0, o) \/ \E k \in Factors : EndCalibration(FALSE, k, o)
    \/ \E on \in BOOLEAN : UseFeedforward(on) \/ UseErrorDeadzone(on) \/ UseAntiWindup(on)

Next == Main \/ \E y \in Lux, r \in Readable : Interrupt(y, r)

Spec == Init /\ [][Next]_vars

-----------------------------------------------------------------------------
(* Properties. *)

(* Types: the lamp and the output variable are within eight bits. *)
TypeOK ==
    /\ board \in {"single", "multiple"}
    /\ controller \in Controller
    /\ state \in {"control", "calibration", "consensus"}
    /\ ref \in Ref /\ goal \in Ref /\ writing \in BOOLEAN
    /\ out \in 0 .. MaxOut /\ lamp \in 0 .. MaxOut
    /\ loose \in 0 .. MaxLoose /\ excess \in Nat /\ steepest \in Nat

(* The lamp is never driven to the wrong end: when the controller asks for  *)
(* more than it takes it is at its maximum, when for less than none it is   *)
(* off, on both boards and whatever features have been switched, although   *)
(* one of them would send it to the other end, as long as what it asks for  *)
(* is a number; and what is reported of a lamp that is lit is true          *)
(* (Controller::update, writeToLed).                                        *)
NeverInverted ==
    /\ controller.number => /\ controller.u > MaxOut => out = MaxOut
                            /\ controller.u < 0 => out = 0
    /\ lamp \in {0, out}

(* As long as anti-windup has been on for every update, and no calibration  *)
(* has found a slope of zero, it pulls back: the correction that the next   *)
(* update will make is against any excess of the last one, and none if      *)
(* there was none (Controller::update).                                     *)
PullsBack ==
    loose = 0 /\ controller.number =>
        /\ controller.u > SatMax => controller.usat < controller.u
        /\ controller.u < SatMin => controller.usat > controller.u
        /\ controller.u \in SatMin .. SatMax => controller.usat = controller.u

(* What the proportional term may amount to, and what an update may add to  *)
(* the integral: the former depends on the slopes that calibrations found.  *)
PMax == KP * MaxLux + steepest * (MaxLux - BFF)
IMax == 2 * (K2 * MaxLux)

(* As long as anti-windup has been on for every update, the output of the   *)
(* controller, and with it the integral, stay within bounds that do not     *)
(* depend on how long the lamp has been at its limit, only on the flattest  *)
(* slope that a calibration has found; at a slope of zero there is none     *)
(* (Controller::update, getFeedforward).                                    *)
WindupBounded ==
    loose = 0 /\ controller.number =>
        /\ controller.u \in SatMin - 4 * PMax - 2 * IMax - 2 .. SatMax + 4 * PMax + 2 * IMax + 2
        /\ controller.u - controller.i \in -PMax .. PMax

(* However long the lamp has been at its maximum, and whatever a torn read  *)
(* or a new slope has added to the integral, a few updates with an error    *)
(* that asks for less dim it, as long as the output is a number             *)
(* (Controller::update).                                                    *)
Unwinds == loose = 0 /\ controller.number => excess <= Recovery

(* A lamp is at rest in the dead zone: between two updates with the error   *)
(* in it, at one reference and with no excess, it does not change           *)
(* (applyDeadzone).                                                         *)
RestInDeadzone ==
    [][ /\ \E y \in Lux : Interrupt(y, ref) /\ ref - y \in -DeadZone .. DeadZone
        /\ controller'.number
        /\ controller.deadzone /\ controller.antiwindup /\ loose = 0
        /\ controller.err = 0 /\ controller.u = controller.usat
        /\ controller.u - controller.i = Proportional(controller, ref, ref)
        => out' = out ]_vars
=============================================================================
