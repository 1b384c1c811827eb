---------------------------- MODULE Calibration -----------------------------
(***************************************************************************)
(* One run of the calibration of multiple_board/main/calibration.cpp, in   *)
(* which every board measures the external light and how much it receives  *)
(* from each lamp.  The boards measure the dark together, then for each    *)
(* duty cycle of a list and each board in turn (`sender') the lamp of that *)
(* board is lit, everybody measures, and the lamp is turned off.  The      *)
(* sender synchronises each of these phases with a stop-and-wait handshake *)
(* (SYN, ACK) with every other board; a receiver measures in the callback  *)
(* that the SYN runs, according to its `state'.                            *)
(*                                                                         *)
(* A measurement is abstract: it is the vector of the levels of the lamps  *)
(* at that moment, or Blurred if one of them has changed too recently for  *)
(* the light to have settled.                                              *)
(*                                                                         *)
(* Time is discrete, as in Consensus: it passes only when every board is   *)
(* delaying or waiting.                                                    *)
(***************************************************************************)
EXTENDS I2CBus

CONSTANTS
    Samples,    \* NUM_SAMPLES
    Wait,       \* ticks that delay(WAIT) lasts
    WaitLed,    \* ticks that delay(WAIT_LED) lasts
    Settle,     \* ticks the measured light takes to follow a lamp
    MaxSkew     \* how many ticks after the first board the last one starts

ASSUME SamplesAssumption == Samples \in Nat /\ Samples > 0
ASSUME DelaysAssumption  == Wait \in Nat /\ Wait > 0 /\ WaitLed \in Nat
(* WAIT_LED is long enough for the light to settle, and the boards that a  *)
(* reset reaches start within the wait between two packets.                *)
ASSUME SkewAssumption ==
    /\ MaxSkew \in Nat /\ MaxSkew < Wait /\ MaxSkew < WaitLed
    /\ Settle \in Nat /\ Settle + MaxSkew <= WaitLed

VARIABLES
    handler,   \* handler[n], the callback that n has given to Wire.onReceive
    pc,        \* pc[n], the next step of n in calibrate or execute
    phase,     \* phase[n], the handshake that n is in: dark, lamp on, lamp off
    sender,    \* sender[n], n's view of whose lamp is measured
    receiver,  \* receiver[n], whom n sends to in its own turn
    ready,     \* ready[n], the flag that locks n's progression
    state,     \* state[n], what n's callback does with the next SYN
    sample,    \* sample[n], the index of the duty cycle that n is at
    led,       \* led[n], the level of n's lamp
    since,     \* since[n], ticks since that level changed, up to Settle
    dark,      \* dark[n], y_ext
    Y,         \* Y[n], the measurements of n, by sender and sample
    timer,     \* timer[n], the ticks that n still has to delay
    lag        \* ticks since the first board started, up to MaxSkew

vars == <<handler, pc, phase, sender, receiver, ready, state, sample, led, since,
          dark, Y, timer, lag>>

measured  == <<state, dark, Y>>
lamps     == <<led, since>>
exchanged == <<ready, measured>>

Location ==
    {"idle", "install", "unready", "begin", "settle", "target", "poll", "send",
     "clear", "next", "endturn", "wait", "take", "reply", "replied",
     "external", "done"}

(* Lamp levels: off, the duty cycle of a sample, and what control has left. *)
Off        == 0
Lit(k)     == k + 1
Controlled == Samples + 1
Level      == 0 .. Samples + 1

Blurred == [p \in Node |-> -1]
Nothing == [p \in Node |-> -2]

(* What any light sensor sees now. *)
Reading == IF \A p \in Node : since[p] = Settle THEN led ELSE Blurred

NoSamples == [s \in Node |-> [k \in 0 .. Samples - 1 |-> Nothing]]

Init ==
    /\ handler = [n \in Node |-> "communication"]
    /\ pc = [n \in Node |-> "idle"]
    /\ phase = [n \in Node |-> "ext"]
    /\ \E first \in BOOLEAN :   \* the first run since power-up, or a later one
         /\ sender = [n \in Node |-> IF first THEN 0 ELSE N]
         /\ receiver = [n \in Node |-> IF first THEN 0 ELSE N]
         /\ state = [n \in Node |-> IF first THEN "ext" ELSE "on"]
         /\ sample = [n \in Node |-> IF first THEN 0 ELSE Samples]
    /\ ready = [n \in Node |-> FALSE]
    /\ led = [n \in Node |-> Controlled]
    /\ since = [n \in Node |-> Settle]
    /\ dark = [n \in Node |-> Nothing]
    /\ Y = [n \in Node |-> NoSamples]
    /\ timer = [n \in Node |-> 0]
    /\ lag = 0

Goto(n, l) == pc' = [pc EXCEPT ![n] = l]

(* analogWrite(pin_led, ...), then delay(WAIT_LED). *)
WriteLed(n, level) ==
    /\ led' = [led EXCEPT ![n] = level]
    /\ since' = IF led[n] = level THEN since ELSE [since EXCEPT ![n] = 0]
    /\ timer' = [timer EXCEPT ![n] = WaitLed]
    /\ Goto(n, "settle")

-----------------------------------------------------------------------------
(* The receive callback. *)

Accepts(m, n, type) ==
    /\ handler[m] = "calibration"
    /\ IF m = sender[m]
         THEN n = receiver[m] /\ type = "ACK"
         ELSE n = sender[m] /\ type = "SYN"

(* Y[sender][sample] in memory: past the end of a row is the next one. *)
Place(m) == IF sample[m] < Samples THEN <<sender[m], sample[m]>> ELSE <<sender[m] + 1, 0>>

PutReading(m) ==
    LET at == Place(m) IN Y' = [Y EXCEPT ![m][at[1]][at[2]] = Reading]

(* Fault: a board measures again when it is told that the lamp is off. *)
MeasureTwice(m) ==
    CASE state[m] = "ext" -> /\ dark' = [dark EXCEPT ![m] = Reading]
                             /\ UNCHANGED <<state, Y>>
      [] state[m] # "ext" -> /\ PutReading(m)
                             /\ UNCHANGED <<state, dark>>

(* A SYN is a request to measure the dark, to measure the lit lamp, or none. *)
Measure(m) ==
    CASE state[m] = "ext" -> /\ dark' = [dark EXCEPT ![m] = Reading]
                             /\ UNCHANGED <<state, Y>>
      [] state[m] = "on"  -> /\ PutReading(m)
                             /\ state' = [state EXCEPT ![m] = "off"]
                             /\ UNCHANGED dark
      [] state[m] = "off" -> /\ state' = [state EXCEPT ![m] = "on"]
                             /\ UNCHANGED <<dark, Y>>

OnReceive(m, n, type) ==
    IF Accepts(m, n, type)
      THEN /\ ready' = [ready EXCEPT ![m] = TRUE]
           /\ IF type = "SYN" THEN Measure(m) ELSE UNCHANGED measured
      ELSE UNCHANGED exchanged

SendPacket(n, m, type, arrives) ==
    IF arrives THEN OnReceive(m, n, type) ELSE UNCHANGED exchanged

-----------------------------------------------------------------------------
(* The main program: calibrate and execute. *)

(* The main loop calls calibrate. *)
Start(n) ==
    /\ pc[n] = "idle"
    /\ Goto(n, "install")
    /\ UNCHANGED <<handler, phase, sender, receiver, exchanged, sample, lamps, timer, lag>>

Install(n) ==
    /\ pc[n] = "install"
    /\ handler' = [handler EXCEPT ![n] = "calibration"]
    /\ Goto(n, "unready")
    /\ UNCHANGED <<phase, sender, receiver, exchanged, sample, lamps, timer, lag>>

Unready(n) ==
    /\ pc[n] = "unready"
    /\ ready' = [ready EXCEPT ![n] = FALSE]
    /\ Goto(n, "begin")
    /\ UNCHANGED <<handler, phase, sender, receiver, measured, sample, lamps, timer, lag>>

(* Fault: the lamp that is turned off for the dark is not given its delay. *)
BeginAtOnce(n) ==
    /\ pc[n] = "begin"
    /\ state' = [state EXCEPT ![n] = "ext"]
    /\ sender' = [sender EXCEPT ![n] = 0]
    /\ phase' = [phase EXCEPT ![n] = "ext"]
    /\ led' = [led EXCEPT ![n] = Off]
    /\ since' = [since EXCEPT ![n] = 0]
    /\ Goto(n, "settle")
    /\ UNCHANGED <<handler, receiver, ready, dark, Y, sample, timer, lag>>

Begin(n) ==
    /\ pc[n] = "begin"
    /\ state' = [state EXCEPT ![n] = "ext"]
    /\ sender' = [sender EXCEPT ![n] = 0]
    /\ phase' = [phase EXCEPT ![n] = "ext"]
    /\ WriteLed(n, Off)
    /\ UNCHANGED <<handler, receiver, ready, dark, Y, sample, lag>>

(* The delay after a lamp's change is over: whose turn it is measures what *)
(* its own callback would not, and starts the handshakes.                  *)
Settled(n) ==
    /\ pc[n] = "settle"
    /\ timer[n] = 0
    /\ IF phase[n] = "ext" /\ n # MASTER
         THEN Goto(n, "wait") /\ UNCHANGED receiver
         ELSE Goto(n, "target") /\ receiver' = [receiver EXCEPT ![n] = 0]
    /\ dark' = IF phase[n] = "ext" /\ n = MASTER
                 THEN [dark EXCEPT ![n] = Reading] ELSE dark
    /\ Y' = IF phase[n] = "on"
              THEN [Y EXCEPT ![n][n][sample[n]] = Reading] ELSE Y
    /\ UNCHANGED <<handler, phase, sender, ready, state, sample, lamps, timer, lag>>

(* The loop over receivers, with its retransmissions, as in getCopies. *)
Target(n) ==
    /\ pc[n] = "target"
    /\ receiver[n] # n
    /\ Goto(n, IF receiver[n] = N THEN "endturn" ELSE "poll")
    /\ UNCHANGED <<handler, phase, sender, receiver, exchanged, sample, lamps, timer, lag>>

NextReceiver(n) ==
    /\ pc[n] = "next" \/ (pc[n] = "target" /\ receiver[n] = n)
    /\ receiver' = [receiver EXCEPT ![n] = @ + 1]
    /\ Goto(n, "target")
    /\ UNCHANGED <<handler, phase, sender, exchanged, sample, lamps, timer, lag>>

Poll(n) ==
    /\ pc[n] = "poll"
    /\ timer[n] = 0
    /\ Goto(n, IF ready[n] THEN "clear" ELSE "send")
    /\ UNCHANGED <<handler, phase, sender, receiver, exchanged, sample, lamps, timer, lag>>

Transmit(n, arrives) ==
    /\ pc[n] = "send"
    /\ SendPacket(n, receiver[n], "SYN", arrives)
    /\ timer' = [timer EXCEPT ![n] = Wait]
    /\ Goto(n, "poll")
    /\ UNCHANGED <<handler, phase, sender, receiver, sample, lamps, lag>>

Clear(n) ==
    /\ pc[n] = "clear"
    /\ ready' = [ready EXCEPT ![n] = FALSE]
    /\ Goto(n, "next")
    /\ UNCHANGED <<handler, phase, sender, receiver, measured, sample, lamps, timer, lag>>

(* A receiver's wait for a SYN, and its only answer to it. *)
Heard(n) ==
    /\ pc[n] = "wait"
    /\ ready[n]
    /\ Goto(n, "take")
    /\ UNCHANGED <<handler, phase, sender, receiver, exchanged, sample, lamps, timer, lag>>

Take(n) ==
    /\ pc[n] = "take"
    /\ ready' = [ready EXCEPT ![n] = FALSE]
    /\ Goto(n, "reply")
    /\ UNCHANGED <<handler, phase, sender, receiver, measured, sample, lamps, timer, lag>>

Reply(n, arrives) ==
    /\ pc[n] = "reply"
    /\ SendPacket(n, sender[n], "ACK", arrives)
    /\ Goto(n, "replied")
    /\ UNCHANGED <<handler, phase, sender, receiver, sample, lamps, timer, lag>>

(* The head of the loop over senders, in sample k: light the lamp, or wait. *)
BeginStage(n, s, k) ==
    /\ sender' = [sender EXCEPT ![n] = s]
    /\ sample' = [sample EXCEPT ![n] = k]
    /\ phase' = [phase EXCEPT ![n] = "on"]
    /\ IF s = n THEN WriteLed(n, Lit(k)) ELSE Goto(n, "wait") /\ UNCHANGED <<lamps, timer>>

(* The next sender, or the first one of the next sample, or the end. *)
EndStage(n) ==
    \/ sender[n] + 1 < N /\ BeginStage(n, sender[n] + 1, sample[n])
    \/ sender[n] + 1 = N /\ sample[n] + 1 < Samples /\ BeginStage(n, 0, sample[n] + 1)
    \/ /\ sender[n] + 1 = N /\ sample[n] + 1 = Samples
       /\ sender' = [sender EXCEPT ![n] = N]
       /\ sample' = [sample EXCEPT ![n] = Samples]
       /\ Goto(n, "done")
       /\ UNCHANGED <<phase, lamps, timer>>

(* The dark is measured: the samples begin. *)
External(n) ==
    /\ pc[n] \in {"endturn", "replied"} /\ phase[n] = "ext"
    /\ Goto(n, "external")
    /\ state' = [state EXCEPT ![n] = "on"]
    /\ UNCHANGED <<handler, phase, sender, receiver, ready, dark, Y, sample, lamps, timer, lag>>

FirstStage(n) ==
    /\ pc[n] = "external"
    /\ BeginStage(n, 0, 0)
    /\ UNCHANGED <<handler, receiver, exchanged, lag>>

(* Fault: the lamp is left lit, only the second handshake happens. *)
TurnOffLeavesLit(n) ==
    /\ pc[n] = "endturn" /\ phase[n] = "on"
    /\ phase' = [phase EXCEPT ![n] = "off"]
    /\ Goto(n, "settle")
    /\ UNCHANGED <<handler, sender, receiver, exchanged, sample, lamps, timer, lag>>

(* Everybody has measured the lamp: it is turned off. *)
TurnOff(n) ==
    /\ pc[n] = "endturn" /\ phase[n] = "on"
    /\ phase' = [phase EXCEPT ![n] = "off"]
    /\ WriteLed(n, Off)
    /\ UNCHANGED <<handler, sender, receiver, exchanged, sample, lag>>

(* Fault: a receiver takes part in one handshake of a turn only. *)
WaitOffSkipped(n) ==
    /\ pc[n] = "replied" /\ phase[n] = "on"
    /\ EndStage(n)
    /\ UNCHANGED <<handler, receiver, exchanged, lag>>

(* The second wait of a receiver. *)
WaitOff(n) ==
    /\ pc[n] = "replied" /\ phase[n] = "on"
    /\ phase' = [phase EXCEPT ![n] = "off"]
    /\ Goto(n, "wait")
    /\ UNCHANGED <<handler, sender, receiver, exchanged, sample, lamps, timer, lag>>

Leave(n) ==
    /\ pc[n] \in {"endturn", "replied"} /\ phase[n] = "off"
    /\ EndStage(n)
    /\ UNCHANGED <<handler, receiver, exchanged, lag>>

-----------------------------------------------------------------------------
(* Time. *)

Started == {n \in Node : pc[n] # "idle"}

Busy(n) ==
    \/ pc[n] \notin {"idle", "settle", "poll", "wait", "done"}
    \/ pc[n] \in {"settle", "poll"} /\ timer[n] = 0
    \/ pc[n] = "wait" /\ ready[n]

Elapsed(t) == [n \in Node |-> IF t[n] > 0 THEN t[n] - 1 ELSE 0]
Aged(t)    == [n \in Node |-> IF t[n] < Settle THEN t[n] + 1 ELSE Settle]

Tick ==
    /\ \A n \in Node : ~ Busy(n)
    /\ \E n \in Node : timer[n] > 0
    /\ Started # Node => lag < MaxSkew
    /\ timer' = Elapsed(timer)
    /\ since' = Aged(since)
    /\ lag' = IF lag < MaxSkew THEN lag + 1 ELSE MaxSkew
    /\ UNCHANGED <<handler, pc, phase, sender, receiver, exchanged, sample, led>>

-----------------------------------------------------------------------------
Local(n) ==
    \/ Start(n) \/ Install(n) \/ Unready(n) \/ Begin(n) \/ Settled(n)
    \/ Target(n) \/ NextReceiver(n) \/ Poll(n) \/ Clear(n)
    \/ Heard(n) \/ Take(n)
    \/ External(n) \/ FirstStage(n) \/ TurnOff(n) \/ WaitOff(n) \/ Leave(n)

Step(n) ==
    \/ Local(n)
    \/ \E a \in Arrival("SYN") : Transmit(n, a)
    \/ \E a \in Arrival("ACK") : Reply(n, a)

Terminated == (\A n \in Node : pc[n] = "done") /\ UNCHANGED vars

Next == (\E n \in Node : Step(n)) \/ Tick \/ Terminated

Spec == Init /\ [][Next]_vars

(* Every board executes its program and time passes; a SYN that is sent    *)
(* again and again arrives.                                                *)
Fairness ==
    /\ \A n \in Node : WF_vars(Step(n)) /\ SF_vars(Transmit(n, TRUE))
    /\ WF_vars(Tick)

FairSpec == Spec /\ Fairness

-----------------------------------------------------------------------------
(* Properties. *)

Vector == [Node -> -2 .. Samples + 1]

TypeOK ==
    /\ handler \in [Node -> Callback]
    /\ pc \in [Node -> Location]
    /\ phase \in [Node -> {"ext", "on", "off"}]
    /\ sender \in [Node -> 0 .. N]
    /\ receiver \in [Node -> 0 .. N]
    /\ ready \in [Node -> BOOLEAN]
    /\ state \in [Node -> {"ext", "on", "off"}]
    /\ sample \in [Node -> 0 .. Samples]
    /\ led \in [Node -> Level]
    /\ since \in [Node -> 0 .. Settle]
    /\ dark \in [Node -> Vector]
    /\ Y \in [Node -> [Node -> [0 .. Samples - 1 -> Vector]]]
    /\ timer \in [Node -> Nat]
    /\ lag \in 0 .. MaxSkew

AllOff == [p \in Node |-> Off]

(* Once a board has the external light it is a measurement taken with every *)
(* lamp off, on every board, for long enough.                               *)
DarkIsDark ==
    \A n \in Node :
        state[n] # "ext" /\ pc[n] \notin {"idle", "install", "unready", "begin"}
            => dark[n] = AllOff

(* When execute has its data, each of them was measured with the lamp of    *)
(* its sender at the duty cycle of its sample, settled, and no other lit.   *)
SamplesIdeal ==
    \A n \in Node : pc[n] = "done" =>
        \A s \in Node, k \in 0 .. Samples - 1 :
            Y[n][s][k] = [AllOff EXCEPT ![s] = Lit(k)]

(* From the moment a lamp is lit for a sample no other one is.              *)
OneLamp ==
    \A n, m \in Node : (n # m /\ led[n] \in 1 .. Samples) => led[m] = Off

(* execute returns on every board. *)
Calibrates == <>(\A n \in Node : pc[n] = "done")
=============================================================================
