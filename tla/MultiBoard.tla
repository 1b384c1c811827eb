----------------------------- MODULE MultiBoard -----------------------------
(***************************************************************************)
(* The whole firmware of multiple_board/main: the main loop of every board *)
(* (main.ino), the commands that the master reads from its serial line and *)
(* passes on (processCommand), the callback that receives them             *)
(* (Communication::onReceive), and the two distributed procedures that the *)
(* loop runs to completion, Calibration and Consensus, each of which       *)
(* replaces that callback by its own while it lasts.                       *)
(*                                                                         *)
(* A command reaches another board in one packet that nobody acknowledges: *)
(* the board acts on it only if its callback is Communication's then.      *)
(***************************************************************************)
EXTENDS I2CBus, Sequences

CONSTANTS
    Iterations, Delay,               \* see Consensus
    Samples, Wait, WaitLed, Settle,  \* see Calibration
    MaxCommands                      \* bound: how many commands the user types

ASSUME CommandsAssumption == MaxCommands \in Nat
(* What Consensus and Calibration assume of them, if no board starts late. *)
ASSUME ProceduresAssumption ==
    /\ Iterations \in Nat \ {0} /\ Delay \in Nat \ {0}
    /\ Samples \in Nat \ {0} /\ Wait \in Nat \ {0}
    /\ WaitLed \in Nat \ {0} /\ Settle \in 0 .. WaitLed

VARIABLES
    \* shared by the three callbacks and procedures
    handler,
    \* the main loop
    mode,         \* state[n]: control, calibration or consensus
    loc,          \* the next step of n in loop()
    reset, changed, distributed, bound, ref, occupancy,   \* globals of main.ino
    hold,         \* ticks of delay(50) that n has left before its consensus
    command,      \* the command that the master processes
    target,       \* the board it sends that command to
    \* the serial line of the master, and what its user has asked for so far
    serial, given, wanted,
    rushed,       \* history: a command was typed while the boards were busy
    runs,         \* history: how often n has begun a consensus
    \* Consensus
    cpc, csender, creceiver, cready, iter, copies, average, ctimer,
    \* Calibration
    kpc, phase, ksender, kreceiver, kready, kstate, sample, led, since, dark, Y, ktimer

flags         == <<reset, changed, distributed, bound, ref, occupancy>>
line          == <<serial, given, wanted, rushed, runs>>
consensusVars == <<cpc, csender, creceiver, cready, iter, copies, average, ctimer>>
calibVars     == <<kpc, phase, ksender, kreceiver, kready, kstate, sample, led, since,
                   dark, Y, ktimer>>
mainVars      == <<mode, loc, flags, hold, command, target>>
vars          == <<handler, mainVars, line, consensusVars, calibVars>>

C == INSTANCE Consensus WITH
       pc <- cpc, sender <- csender, receiver <- creceiver, ready <- cready,
       timer <- ctimer

K == INSTANCE Calibration WITH
       MaxSkew <- 0, lag <- 0,
       pc <- kpc, sender <- ksender, receiver <- kreceiver, ready <- kready,
       state <- kstate, timer <- ktimer

(* LOW_LUX and HIGH_LUX, and the reference that a consensus has computed. *)
LOW_LUX  == 1
HIGH_LUX == 2
Optimum  == 0
Lux      == {LOW_LUX, HIGH_LUX}

(* What the user may type: r, A, D, and s or l with a board and a value. *)
Order ==
    [op : {"RES", "DON", "DOF"}, node : {MASTER}, lux : {LOW_LUX}]
        \cup [op : {"ICO"}, node : Node, lux : Lux]

Nobody == [op |-> "none", node |-> MASTER, lux |-> LOW_LUX]

Init ==
    /\ C!Init /\ K!Init
    /\ csender = [n \in Node |-> 0] /\ ksender = [n \in Node |-> 0]
    /\ mode = [n \in Node |-> "control"]
    /\ loc = [n \in Node |-> "loop"]
    /\ reset = [n \in Node |-> FALSE]
    /\ changed = [n \in Node |-> FALSE]
    /\ distributed = [n \in Node |-> TRUE]
    /\ bound = [n \in Node |-> LOW_LUX]
    /\ ref = [n \in Node |-> LOW_LUX]
    /\ occupancy = [n \in Node |-> FALSE]
    /\ hold = [n \in Node |-> 0]
    /\ command = Nobody
    /\ target = 0
    /\ serial = <<>>
    /\ given = 0
    /\ wanted = [bound |-> [n \in Node |-> LOW_LUX], distributed |-> TRUE]
    /\ rushed = FALSE
    /\ runs = [n \in Node |-> 0]

Goto(n, l) == loc' = [loc EXCEPT ![n] = l]

-----------------------------------------------------------------------------
(* The user, at the other end of the serial line. *)

Quiet ==
    /\ serial = <<>>
    /\ \A n \in Node : /\ loc[n] = "loop" /\ mode[n] = "control"
                       /\ ~ reset[n] /\ ~ changed[n]

(* What the boards should be set to once o is executed. *)
Executed(o) ==
    CASE o.op = "RES" -> [bound |-> [n \in Node |-> LOW_LUX], distributed |-> TRUE]
      [] o.op = "DON" -> [wanted EXCEPT !.distributed = TRUE]
      [] o.op = "DOF" -> [wanted EXCEPT !.distributed = FALSE]
      [] o.op = "ICO" -> [wanted EXCEPT !.bound[o.node] = o.lux]

Type(o) ==
    /\ given < MaxCommands
    /\ serial' = Append(serial, o)
    /\ given' = given + 1
    /\ wanted' = Executed(o)
    /\ rushed' = (rushed \/ ~ Quiet)
    /\ UNCHANGED <<handler, mainVars, runs, consensusVars, calibVars>>

-----------------------------------------------------------------------------
(* Communication::onReceive. *)

(* A new lower bound for m, which its controller follows at once unless the *)
(* boards optimise the references together.                                 *)
SetBound(m, lux) ==
    /\ ref' = IF distributed[m] THEN ref ELSE [ref EXCEPT ![m] = lux]
    /\ bound' = [bound EXCEPT ![m] = lux]
    /\ occupancy' = [occupancy EXCEPT ![m] = lux > LOW_LUX]

OnReceive(m, o) ==
    \/ /\ o.op = "RES"
       /\ reset' = [reset EXCEPT ![m] = TRUE]
       /\ UNCHANGED <<changed, distributed, bound, ref, occupancy>>
    \/ /\ o.op = "ICO"
       /\ changed' = [changed EXCEPT ![m] = TRUE]
       /\ IF o.node = m THEN SetBound(m, o.lux) ELSE UNCHANGED <<bound, ref, occupancy>>
       /\ UNCHANGED <<reset, distributed>>
    \/ /\ o.op \in {"DON", "DOF"}
       /\ distributed' = [distributed EXCEPT ![m] = (o.op = "DON")]
       /\ UNCHANGED <<reset, changed, bound, ref, occupancy>>

SendPacket(m, o, arrives) ==
    IF arrives /\ handler[m] = "communication" THEN OnReceive(m, o) ELSE UNCHANGED flags

-----------------------------------------------------------------------------
(* The master's serial line: readLine and processCommand. *)

ReadCommand ==
    /\ loc[MASTER] = "loop"
    /\ serial # <<>>
    /\ command' = Head(serial)
    /\ serial' = Tail(serial)
    /\ target' = 1
    /\ Goto(MASTER, "process")
    /\ UNCHANGED <<handler, mode, flags, hold, given, wanted, rushed, runs,
                   consensusVars, calibVars>>

(* A bound of its own the master sets before it sends anything. *)
Process ==
    /\ loc[MASTER] = "process"
    /\ IF command.op = "ICO" /\ command.node = MASTER
         THEN SetBound(MASTER, command.lux)
         ELSE UNCHANGED <<bound, ref, occupancy>>
    /\ Goto(MASTER, "forward")
    /\ UNCHANGED <<handler, mode, reset, changed, distributed, hold, command,
                   target, line, consensusVars, calibVars>>

(* Fault: the loop over boards advances in its body as well. *)
ForwardTwice(arrives) ==
    /\ loc[MASTER] = "forward"
    /\ target < N
    /\ SendPacket(target, command, arrives)
    /\ target' = target + 2
    /\ UNCHANGED <<handler, mode, loc, hold, command, line, consensusVars, calibVars>>

Forward(arrives) ==
    /\ loc[MASTER] = "forward"
    /\ target < N
    /\ SendPacket(target, command, arrives)
    /\ target' = target + 1
    /\ UNCHANGED <<handler, mode, loc, hold, command, line, consensusVars, calibVars>>

(* Everybody has been told: the master applies the command to itself. *)
Apply ==
    /\ loc[MASTER] = "forward"
    /\ target = N
    /\ reset' = IF command.op = "RES" THEN [reset EXCEPT ![MASTER] = TRUE] ELSE reset
    /\ changed' = IF command.op = "ICO" THEN [changed EXCEPT ![MASTER] = TRUE] ELSE changed
    /\ distributed' = IF command.op \in {"DON", "DOF"}
                        THEN [distributed EXCEPT ![MASTER] = (command.op = "DON")]
                        ELSE distributed
    /\ command' = Nobody
    /\ target' = 0
    /\ Goto(MASTER, "update")
    /\ UNCHANGED <<handler, mode, bound, ref, occupancy, hold, line,
                   consensusVars, calibVars>>

-----------------------------------------------------------------------------
(* updateState. *)

Pending(n) == reset[n] \/ changed[n] \/ mode[n] = "calibration"

Update(n) ==
    /\ \/ loc[n] = "update"
       \/ loc[n] = "loop" /\ Pending(n) /\ (n = MASTER => serial = <<>>)
    /\ Goto(n, CASE reset[n] -> "reset"
                 [] ~ reset[n] /\ mode[n] = "calibration" -> "calibrate"
                 [] ~ reset[n] /\ mode[n] = "control" /\ changed[n] -> "changed"
                 [] OTHER -> "loop")
    /\ UNCHANGED <<handler, mode, flags, hold, command, target, line,
                   consensusVars, calibVars>>

ClearReset(n) ==
    /\ loc[n] = "reset"
    /\ reset' = [reset EXCEPT ![n] = FALSE]
    /\ Goto(n, "resetRef")
    /\ UNCHANGED <<handler, mode, changed, distributed, bound, ref, occupancy,
                   hold, command, target, line, consensusVars, calibVars>>

ResetRef(n) ==
    /\ loc[n] = "resetRef"
    /\ ref' = [ref EXCEPT ![n] = LOW_LUX]
    /\ Goto(n, "resetBound")
    /\ UNCHANGED <<handler, mode, reset, changed, distributed, bound, occupancy,
                   hold, command, target, line, consensusVars, calibVars>>

ResetBound(n) ==
    /\ loc[n] = "resetBound"
    /\ bound' = [bound EXCEPT ![n] = LOW_LUX]
    /\ Goto(n, "resetMode")
    /\ UNCHANGED <<handler, mode, reset, changed, distributed, ref, occupancy,
                   hold, command, target, line, consensusVars, calibVars>>

(* Fault: a reset leaves the boards in the mode they were in. *)
ResetModeKeepsDistributed(n) ==
    /\ loc[n] = "resetMode"
    /\ mode' = [mode EXCEPT ![n] = "calibration"]
    /\ Goto(n, "loop")
    /\ UNCHANGED <<handler, reset, changed, distributed, bound, ref, occupancy,
                   hold, command, target, line, consensusVars, calibVars>>

ResetMode(n) ==
    /\ loc[n] = "resetMode"
    /\ mode' = [mode EXCEPT ![n] = "calibration"]
    /\ distributed' = [distributed EXCEPT ![n] = TRUE]
    /\ Goto(n, "loop")
    /\ UNCHANGED <<handler, reset, changed, bound, ref, occupancy,
                   hold, command, target, line, consensusVars, calibVars>>

ClearChanged(n) ==
    /\ loc[n] = "changed"
    /\ changed' = [changed EXCEPT ![n] = FALSE]
    /\ Goto(n, "react")
    /\ UNCHANGED <<handler, mode, reset, distributed, bound, ref, occupancy,
                   hold, command, target, line, consensusVars, calibVars>>

(* doConsensus, which the master starts 50 ms late. *)
React(n) ==
    /\ loc[n] = "react"
    /\ IF distributed[n]
         THEN /\ mode' = [mode EXCEPT ![n] = "consensus"]
              /\ hold' = [hold EXCEPT ![n] = IF n = MASTER THEN Delay ELSE 0]
              /\ Goto(n, "solve")
         ELSE Goto(n, "loop") /\ UNCHANGED <<mode, hold>>
    /\ UNCHANGED <<handler, flags, command, target, line, consensusVars, calibVars>>

Solve(n) ==
    /\ loc[n] = "solve"
    /\ hold[n] = 0
    /\ C!Solve(n)
    /\ runs' = [runs EXCEPT ![n] = @ + 1]
    /\ Goto(n, "solving")
    /\ UNCHANGED <<mode, flags, hold, command, target, serial, given, wanted, rushed,
                   calibVars>>

(* Fault: the callback of the consensus stays installed. *)
SolvedKeepsHandler(n) ==
    /\ loc[n] = "solving"
    /\ cpc[n] = "done"
    /\ ref' = [ref EXCEPT ![n] = Optimum]
    /\ mode' = [mode EXCEPT ![n] = "control"]
    /\ cpc' = [cpc EXCEPT ![n] = "idle"]
    /\ Goto(n, "loop")
    /\ UNCHANGED <<handler, reset, changed, distributed, bound, occupancy, hold,
                   command, target, line, csender, creceiver, cready, iter, copies,
                   average, ctimer, calibVars>>

(* solve has returned: the reference is set, the callback put back. *)
Solved(n) ==
    /\ loc[n] = "solving"
    /\ cpc[n] = "done"
    /\ ref' = [ref EXCEPT ![n] = Optimum]
    /\ handler' = [handler EXCEPT ![n] = "communication"]
    /\ mode' = [mode EXCEPT ![n] = "control"]
    /\ cpc' = [cpc EXCEPT ![n] = "idle"]
    /\ Goto(n, "loop")
    /\ UNCHANGED <<reset, changed, distributed, bound, occupancy, hold, command,
                   target, line, csender, creceiver, cready, iter, copies, average,
                   ctimer, calibVars>>

Calibrate(n) ==
    /\ loc[n] = "calibrate"
    /\ K!Start(n)
    /\ Goto(n, "calibrating")
    /\ UNCHANGED <<mode, flags, hold, command, target, line, consensusVars>>

(* execute has returned, and the control loop drives the lamp again. *)
Calibrated(n) ==
    /\ loc[n] = "calibrating"
    /\ kpc[n] = "done"
    /\ handler' = [handler EXCEPT ![n] = "communication"]
    /\ mode' = [mode EXCEPT ![n] = "control"]
    /\ kpc' = [kpc EXCEPT ![n] = "idle"]
    /\ led' = [led EXCEPT ![n] = K!Controlled]
    /\ since' = [since EXCEPT ![n] = 0]
    /\ Goto(n, "loop")
    /\ UNCHANGED <<flags, hold, command, target, line, consensusVars, phase, ksender,
                   kreceiver, kready, kstate, sample, dark, Y, ktimer>>

-----------------------------------------------------------------------------
(* The procedures, and time. *)

Consense(n) ==
    /\ loc[n] = "solving"
    /\ C!Step(n)
    /\ UNCHANGED <<mainVars, line, calibVars>>

Measure(n) ==
    /\ loc[n] = "calibrating"
    /\ K!Step(n)
    /\ UNCHANGED <<mainVars, line, consensusVars>>

Busy(n) ==
    CASE loc[n] = "loop"        -> Pending(n) \/ (n = MASTER /\ serial # <<>>)
      [] loc[n] = "solve"       -> hold[n] = 0
      [] loc[n] = "solving"     -> C!Busy(n) \/ cpc[n] = "done"
      [] loc[n] = "calibrating" -> K!Busy(n) \/ kpc[n] = "done"
      [] OTHER                  -> TRUE

Tick ==
    /\ \A n \in Node : ~ Busy(n)
    /\ \E n \in Node : hold[n] > 0 \/ ctimer[n] > 0 \/ ktimer[n] > 0
    /\ hold' = C!Elapsed(hold)
    /\ ctimer' = C!Elapsed(ctimer)
    /\ ktimer' = C!Elapsed(ktimer)
    /\ since' = K!Aged(since)
    /\ UNCHANGED <<handler, mode, loc, flags, command, target, line, cpc, csender,
                   creceiver, cready, iter, copies, average, kpc, phase, ksender,
                   kreceiver, kready, kstate, sample, led, dark, Y>>

-----------------------------------------------------------------------------
Master ==
    \/ ReadCommand \/ Process \/ Apply
    \/ \E a \in Arrival(command.op) : Forward(a)

Board(n) ==
    \/ n = MASTER /\ Master
    \/ Update(n) \/ ClearReset(n) \/ ResetRef(n) \/ ResetBound(n) \/ ResetMode(n)
    \/ ClearChanged(n) \/ React(n) \/ Solve(n) \/ Solved(n)
    \/ Calibrate(n) \/ Calibrated(n)
    \/ Consense(n) \/ Measure(n)

Next == (\E o \in Order : Type(o)) \/ (\E n \in Node : Board(n)) \/ Tick

Spec == Init /\ [][Next]_vars

(* The boards run and time passes; the user need not type anything. *)
Fairness == (\A n \in Node : WF_vars(Board(n))) /\ WF_vars(Tick)

FairSpec == Spec /\ Fairness

-----------------------------------------------------------------------------
(* Properties. *)

TypeOK ==
    /\ C!TypeOK /\ K!TypeOK
    /\ mode \in [Node -> {"control", "calibration", "consensus"}]
    /\ loc \in [Node -> {"loop", "process", "forward", "update", "reset", "resetRef",
                         "resetBound", "resetMode", "changed", "react", "solve", "solving",
                         "calibrate", "calibrating"}]
    /\ reset \in [Node -> BOOLEAN] /\ changed \in [Node -> BOOLEAN]
    /\ distributed \in [Node -> BOOLEAN] /\ occupancy \in [Node -> BOOLEAN]
    /\ bound \in [Node -> Lux] /\ ref \in [Node -> Lux \cup {Optimum}]
    /\ hold \in [Node -> 0 .. Delay]
    /\ command \in Order \cup {Nobody} /\ target \in 0 .. N
    /\ serial \in Seq(Order) /\ given \in 0 .. MaxCommands /\ rushed \in BOOLEAN
    /\ runs \in [Node -> Nat]

(* The boards have done what was typed: each has the lower bound last asked *)
(* for it, and all are in the mode asked for.                               *)
Obeyed ==
    \A n \in Node : bound[n] = wanted.bound[n] /\ distributed[n] = wanted.distributed

(* As long as each command is typed when the boards are quiet, it has been  *)
(* executed by every board once they are quiet again (processCommand,       *)
(* onReceive, updateState).                                                 *)
CommandsTakeEffect == (Quiet /\ ~ rushed) => Obeyed

(* An acknowledgement always finds the callback of the procedure that it    *)
(* belongs to: Calibration and Consensus never answer each other.           *)
NoCrossTalk ==
    \A n \in Node :
        /\ cpc[n] = "reply" => handler[csender[n]] = "consensus"
        /\ kpc[n] = "reply" => handler[ksender[n]] = "calibration"

(* No board drives its lamp while another measures: the controller of a     *)
(* board is off as long as any lamp is lit for a sample.                    *)
NoControlWhileMeasuring ==
    \A n, m \in Node : (n # m /\ led[n] \in 1 .. Samples) => mode[m] = "calibration"

(* Boards that are quiet have run the consensus as often, and the last time *)
(* together: no board has averaged solutions that another one has not.      *)
SameConsensus ==
    Quiet => \A n, m \in Node : runs[n] = runs[m] /\ average[n] = average[m]

(* As long as each command is typed when the boards are quiet, they become  *)
(* quiet again: every procedure that a command starts ends on every board.  *)
Recovers == []<>(Quiet \/ rushed)
=============================================================================
