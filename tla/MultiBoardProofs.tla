-------------------------- MODULE MultiBoardProofs --------------------------
(***************************************************************************)
(* Theorems about MultiBoard, for any number of boards and of commands, as *)
(* the two procedures follow one another on boards that are not in step: a *)
(* board that takes part in none listens, all variables keep their types   *)
(* from run to run, an acknowledgement finds the callback it is meant for, *)
(* all boards run the consensus together, and a command that is typed at   *)
(* rest is executed by every board.  The calibrations that such commands   *)
(* begin implement Calibration, and inherit what is proved of it.          *)
(***************************************************************************)
EXTENDS MultiBoard, TLAPS

USE NAssumption, CommandsAssumption

(* What the main programs keep, the procedures apart. *)
MainTypeOK ==
    /\ handler \in [Node -> Callback]
    /\ mode \in [Node -> {"control", "calibration", "consensus"}]
    /\ loc \in [Node -> {"loop", "process", "forward", "update", "reset", "resetRef",
                         "resetBound", "resetMode", "changed", "react", "solve", "solving",
                         "calibrate", "calibrating"}]
    /\ reset \in [Node -> BOOLEAN] /\ changed \in [Node -> BOOLEAN]
    /\ distributed \in [Node -> BOOLEAN] /\ bound \in [Node -> Lux]
    /\ command \in Order \cup {Nobody} /\ target \in 0 .. N
    /\ serial \in Seq(Order) /\ rushed \in BOOLEAN
    /\ wanted \in [bound : [Node -> Lux], distributed : BOOLEAN]

(* A board that is in neither procedure has the callback of commands. *)
Listens ==
    \A n \in Node : loc[n] \notin {"solving", "calibrating"} => handler[n] = "communication"

(* Only the master reads commands; it passes one on to the boards in turn. *)
MasterReads ==
    /\ \A n \in Node : loc[n] \in {"process", "forward", "update"} => n = MASTER
    /\ loc[MASTER] \in {"process", "forward"} => command \in Order
    /\ loc[MASTER] = "process" => target = 1
    /\ loc[MASTER] = "forward" => target \in 1 .. N
    /\ loc[MASTER] = "forward" /\ command.op = "ICO" /\ command.node = MASTER
         => bound[MASTER] = command.lux

(* The command that is being executed, and who has still to execute it. *)
Current == IF serial # <<>> THEN Head(serial) ELSE command

Untold(n) ==
    \/ serial # <<>>
    \/ loc[MASTER] = "process"
    \/ loc[MASTER] = "forward" /\ (n = MASTER \/ target <= n)

AtRest(n) ==
    /\ mode[n] = "control" /\ ~ reset[n] /\ ~ changed[n]
    /\ n # MASTER \/ serial # <<>> => loc[n] = "loop"

(* What the command makes of the settings of n is what is wanted of them. *)
Promised(n, o) ==
    /\ o.op = "RES" => wanted.bound[n] = LOW_LUX /\ wanted.distributed = TRUE
    /\ o.op = "DON" => wanted.bound[n] = bound[n] /\ wanted.distributed = TRUE
    /\ o.op = "DOF" => wanted.bound[n] = bound[n] /\ wanted.distributed = FALSE
    /\ o.op = "ICO" => /\ wanted.bound[n] = IF o.node = n THEN o.lux ELSE bound[n]
                       /\ wanted.distributed = distributed[n]

(* n has still to set what a reset sets, or it has the settings wanted. *)
Resetting(n) == reset[n] \/ loc[n] \in {"reset", "resetRef", "resetBound", "resetMode"}

Obeys(n) ==
    IF Resetting(n)
      THEN /\ wanted.bound[n] = LOW_LUX /\ wanted.distributed = TRUE
           /\ loc[n] = "resetMode" => bound[n] = LOW_LUX
      ELSE wanted.bound[n] = bound[n] /\ wanted.distributed = distributed[n]

CommandsInv ==
    ~ rushed => /\ Len(serial) <= 1
                /\ \A n \in Node : IF Untold(n) THEN AtRest(n) /\ Promised(n, Current)
                                                ELSE Obeys(n)

LocalInv == MainTypeOK /\ Listens /\ MasterReads

(* No command is lost on the bus; what else is makes no difference. *)
OrdersArrive == {"RES", "DON", "DOF", "ICO"} \cap Lossy = {}

-----------------------------------------------------------------------------
(* What the steps of the procedures leave alone. *)

LEMMA NodeFacts ==
    /\ MASTER \in Node /\ MASTER = 0
    /\ \A n \in Node : n \in 0 .. N /\ n < N /\ (n # MASTER => n >= 1)
    /\ \A t \in 1 .. N : t < N => t \in Node /\ t # MASTER
  BY DEF Node, MASTER

LEMMA ConsensusHandler ==
    ASSUME handler \in [Node -> Callback], NEW n \in Node, C!Step(n)
    PROVE  /\ handler' \in [Node -> Callback]
           /\ \A m \in Node : m # n => handler'[m] = handler[m]
  <1>1. CASE C!Install(n)
    BY <1>1 DEF C!Install, Callback
  <1>2. CASE ~ C!Install(n)
    <2>1. CASE C!Local(n)
      BY <1>2, <2>1 DEF C!Local, C!Solve, C!Fill, C!Enter, C!Turn, C!Target, C!NextReceiver,
         C!EndTurn, C!Poll, C!Clear, C!Heard, C!Take, C!Leave, C!Average, C!BeginStage
    <2>2. CASE ~ C!Local(n)
      BY <2>2 DEF C!Step, C!Transmit, C!Reply
    <2> QED
      BY <2>1, <2>2
  <1> QED
    BY <1>1, <1>2

LEMMA CalibrationHandler ==
    ASSUME handler \in [Node -> Callback], NEW n \in Node, K!Step(n)
    PROVE  /\ handler' \in [Node -> Callback]
           /\ \A m \in Node : m # n => handler'[m] = handler[m]
  <1>1. CASE K!Install(n)
    BY <1>1 DEF K!Install, Callback
  <1>2. CASE ~ K!Install(n)
    <2>1. CASE K!Local(n)
      BY <1>2, <2>1 DEF K!Local, K!Start, K!Unready, K!Begin, K!Settled, K!Target,
         K!NextReceiver, K!Poll, K!Clear, K!Heard, K!Take, K!External, K!FirstStage,
         K!TurnOff, K!WaitOff, K!Leave
    <2>2. CASE ~ K!Local(n)
      BY <2>2 DEF K!Step, K!Transmit, K!Reply
    <2> QED
      BY <2>1, <2>2
  <1> QED
    BY <1>1, <1>2

-----------------------------------------------------------------------------
(* Types, callbacks and the reading of commands, whatever is lost. *)

LEMMA OrderFacts ==
    /\ Nobody \in [op : {"none"}, node : Node, lux : Lux]
    /\ \A o \in Order : /\ o.op \in {"RES", "DON", "DOF", "ICO"}
                        /\ o.node \in Node /\ o.lux \in Lux
    /\ Nobody \notin Order
  BY NodeFacts DEF Order, Nobody, Lux

LEMMA LocalInit == Init => LocalInv
  <1> SUFFICES ASSUME Init PROVE LocalInv
    OBVIOUS
  <1>1. handler = [n \in Node |-> "communication"]
    BY DEF Init, C!Init, C!Node, Node
  <1>2. MainTypeOK
    <2>1. /\ handler \in [Node -> Callback] /\ mode = [n \in Node |-> "control"]
          /\ loc = [n \in Node |-> "loop"] /\ reset = [n \in Node |-> FALSE]
          /\ changed = [n \in Node |-> FALSE] /\ distributed = [n \in Node |-> TRUE]
          /\ bound = [n \in Node |-> LOW_LUX] /\ command = Nobody /\ target = 0
          /\ serial = <<>> /\ rushed = FALSE
      BY <1>1 DEF Init, Callback
    <2>2. wanted = [bound |-> [n \in Node |-> LOW_LUX], distributed |-> TRUE]
      BY DEF Init
    <2>3. serial \in Seq(Order) /\ target \in 0 .. N
      BY <2>1, NodeFacts
    <2>4. LOW_LUX \in Lux
      BY DEF Lux
    <2> QED
      BY <2>1, <2>2, <2>3, <2>4 DEF MainTypeOK
  <1>3. Listens /\ MasterReads
    BY <1>1, NodeFacts DEF Init, Listens, MasterReads
  <1> QED
    BY <1>2, <1>3 DEF LocalInv

(* The master's own steps. *)
LEMMA LocalMaster ==
    ASSUME LocalInv, Master PROVE LocalInv'
  <1>1. MainTypeOK /\ Listens /\ MasterReads
    BY DEF LocalInv
  <1>2. CASE ReadCommand
    <2>1. /\ serial \in Seq(Order) /\ serial # <<>>
          /\ command' = Head(serial) /\ serial' = Tail(serial) /\ target' = 1
          /\ loc' = [loc EXCEPT ![MASTER] = "process"] /\ loc[MASTER] = "loop"
          /\ UNCHANGED <<handler, mode, flags, wanted, rushed>>
      BY <1>1, <1>2 DEF ReadCommand, MainTypeOK, Goto
    <2>2. command' \in Order /\ serial' \in Seq(Order)
      BY <2>1
    <2>3. MainTypeOK'
      BY <1>1, <2>1, <2>2, NodeFacts DEF MainTypeOK, flags
    <2>4. Listens'
      BY <1>1, <2>1 DEF MainTypeOK, Listens
    <2>5. loc'[MASTER] = "process" /\ \A m \in Node : m # MASTER => loc'[m] = loc[m]
      BY <1>1, <2>1, NodeFacts DEF MainTypeOK
    <2>6. MasterReads'
      BY <1>1, <2>1, <2>2, <2>5 DEF MasterReads
    <2> QED
      BY <2>3, <2>4, <2>6 DEF LocalInv
  <1>3. CASE Process
    <2>1. /\ loc' = [loc EXCEPT ![MASTER] = "forward"] /\ loc[MASTER] = "process"
          /\ UNCHANGED <<handler, mode, reset, changed, distributed, command, target, line>>
      BY <1>3 DEF Process, Goto
    <2>2. bound' \in [Node -> Lux]
      BY <1>1, <1>3, OrderFacts DEF Process, SetBound, MainTypeOK, MasterReads
    <2>3. MainTypeOK'
      BY <1>1, <2>1, <2>2 DEF MainTypeOK, line
    <2>4. loc'[MASTER] = "forward" /\ \A m \in Node : m # MASTER => loc'[m] = loc[m]
      BY <1>1, <2>1, NodeFacts DEF MainTypeOK
    <2>5. Listens'
      BY <1>1, <2>1, <2>4 DEF Listens
    <2>6. command.op = "ICO" /\ command.node = MASTER => bound'[MASTER] = command.lux
      BY <1>1, <1>3, NodeFacts DEF Process, SetBound, MainTypeOK
    <2>7. target \in 1 .. N /\ command \in Order
      BY <1>1, <2>1, NodeFacts DEF MasterReads
    <2>8. MasterReads'
      BY <1>1, <2>1, <2>4, <2>6, <2>7 DEF MasterReads
    <2> QED
      BY <2>3, <2>5, <2>8 DEF LocalInv
  <1>4. ASSUME NEW a, Forward(a) PROVE LocalInv'
    <2>1. /\ loc[MASTER] = "forward" /\ target < N /\ target' = target + 1
          /\ SendPacket(target, command, a)
          /\ UNCHANGED <<handler, mode, loc, command, line>>
      BY <1>4 DEF Forward
    <2>2. target \in Node /\ command \in Order /\ target' \in 1 .. N
      BY <1>1, <2>1, NodeFacts DEF MasterReads
    <2>3. /\ reset' \in [Node -> BOOLEAN] /\ changed' \in [Node -> BOOLEAN]
          /\ distributed' \in [Node -> BOOLEAN] /\ bound' \in [Node -> Lux]
      <3>1. CASE UNCHANGED flags
        BY <1>1, <3>1 DEF MainTypeOK, flags
      <3>2. CASE OnReceive(target, command)
        BY <1>1, <2>2, <3>2, OrderFacts DEF OnReceive, SetBound, MainTypeOK
      <3> QED
        BY <2>1, <3>1, <3>2 DEF SendPacket
    <2>4. MainTypeOK'
      BY <1>1, <2>1, <2>2, <2>3 DEF MainTypeOK, line
    <2>5. Listens'
      BY <1>1, <2>1 DEF Listens
    <2>6. bound'[MASTER] = bound[MASTER]
      <3>1. CASE UNCHANGED flags
        BY <3>1 DEF flags
      <3>2. CASE OnReceive(target, command)
        <4>1. target # MASTER
          BY <1>1, <2>1, NodeFacts DEF MasterReads
        <4> QED
          BY <1>1, <2>2, <3>2, <4>1, NodeFacts DEF OnReceive, SetBound, MainTypeOK
      <3> QED
        BY <2>1, <3>1, <3>2 DEF SendPacket
    <2>7. MasterReads'
      BY <1>1, <2>1, <2>2, <2>6 DEF MasterReads
    <2> QED
      BY <2>4, <2>5, <2>7 DEF LocalInv
  <1>5. CASE Apply
    <2>1. /\ loc' = [loc EXCEPT ![MASTER] = "update"] /\ loc[MASTER] = "forward"
          /\ command' = Nobody /\ target' = 0
          /\ UNCHANGED <<handler, mode, bound, line>>
      BY <1>5 DEF Apply, Goto
    <2>2. /\ reset' \in [Node -> BOOLEAN] /\ changed' \in [Node -> BOOLEAN]
          /\ distributed' \in [Node -> BOOLEAN]
      BY <1>1, <1>5 DEF Apply, MainTypeOK
    <2>3. MainTypeOK'
      BY <1>1, <2>1, <2>2, NodeFacts DEF MainTypeOK, line
    <2>4. loc'[MASTER] = "update" /\ \A m \in Node : m # MASTER => loc'[m] = loc[m]
      BY <1>1, <2>1, NodeFacts DEF MainTypeOK
    <2>5. Listens'
      BY <1>1, <2>1, <2>4 DEF Listens
    <2>6. MasterReads'
      BY <1>1, <2>4 DEF MasterReads
    <2> QED
      BY <2>3, <2>5, <2>6 DEF LocalInv
  <1> QED
    BY <1>2, <1>3, <1>4, <1>5 DEF Master

(* The steps that every board takes for itself. *)
Own(n) ==
    \/ Update(n) \/ ClearReset(n) \/ ResetRef(n) \/ ResetBound(n) \/ ResetMode(n)
    \/ ClearChanged(n) \/ React(n) \/ Solve(n) \/ Solved(n)
    \/ Calibrate(n) \/ Calibrated(n) \/ Consense(n) \/ Measure(n)

(* They concern no other board and no command. *)
LEMMA OwnFrame ==
    ASSUME LocalInv, NEW n \in Node, Own(n)
    PROVE  /\ UNCHANGED <<command, target, serial, wanted, rushed>>
           /\ \A m \in Node : m # n =>
                 /\ handler'[m] = handler[m] /\ mode'[m] = mode[m] /\ loc'[m] = loc[m]
                 /\ reset'[m] = reset[m] /\ changed'[m] = changed[m]
                 /\ distributed'[m] = distributed[m] /\ bound'[m] = bound[m]
           /\ loc[n] \notin {"process", "forward"}
           /\ loc'[n] \notin {"process", "forward", "update"}
           /\ MainTypeOK'
           /\ loc'[n] \notin {"solving", "calibrating"} => handler'[n] = "communication"
  <1> USE DEF Goto, line, flags, mainVars
  <1>1. MainTypeOK /\ Listens
    BY DEF LocalInv
  <1>2. CASE Update(n)
    <2>1. /\ loc' = [loc EXCEPT ![n] = CASE reset[n] -> "reset"
                 [] ~ reset[n] /\ mode[n] = "calibration" -> "calibrate"
                 [] ~ reset[n] /\ mode[n] = "control" /\ changed[n] -> "changed"
                 [] OTHER -> "loop"]
          /\ loc[n] \in {"update", "loop"}
          /\ UNCHANGED <<handler, mode, flags, command, target, line>>
      BY <1>2 DEF Update
    <2>2. loc'[n] \in {"reset", "calibrate", "changed", "loop"}
      BY <1>1, <2>1 DEF MainTypeOK
    <2>3. loc' = [loc EXCEPT ![n] = loc'[n]]
      BY <1>1, <2>1 DEF MainTypeOK
    <2> HIDE DEF Goto
    <2>4. \A m \in Node : m # n => loc'[m] = loc[m]
      BY <1>1, <2>3 DEF MainTypeOK
    <2>5. loc' \in [Node -> {"loop", "process", "forward", "update", "reset", "resetRef",
                             "resetBound", "resetMode", "changed", "react", "solve",
                             "solving", "calibrate", "calibrating"}]
      BY <1>1, <2>2, <2>3 DEF MainTypeOK
    <2> QED
      BY <1>1, <2>1, <2>2, <2>4, <2>5 DEF MainTypeOK, Listens
  <1>3. CASE ClearReset(n) \/ ClearChanged(n)
    <2>1. CASE ClearReset(n)
      BY <1>1, <2>1 DEF ClearReset, MainTypeOK, Listens
    <2>2. CASE ClearChanged(n)
      BY <1>1, <2>2 DEF ClearChanged, MainTypeOK, Listens
    <2> QED
      BY <1>3, <2>1, <2>2
  <1>4. CASE ResetRef(n) \/ ResetBound(n) \/ ResetMode(n)
    <2>1. CASE ResetRef(n)
      BY <1>1, <2>1 DEF ResetRef, MainTypeOK, Listens, Lux
    <2>2. CASE ResetBound(n)
      BY <1>1, <2>2 DEF ResetBound, MainTypeOK, Listens, Lux
    <2>3. CASE ResetMode(n)
      BY <1>1, <2>3 DEF ResetMode, MainTypeOK, Listens
    <2> QED
      BY <1>4, <2>1, <2>2, <2>3
  <1>5. CASE React(n)
    <2>1. /\ loc[n] = "react"
          /\ UNCHANGED <<handler, reset, changed, distributed, bound, command, target,
                         serial, wanted, rushed>>
          /\ \/ loc' = [loc EXCEPT ![n] = "solve"] /\ mode' = [mode EXCEPT ![n] = "consensus"]
             \/ loc' = [loc EXCEPT ![n] = "loop"] /\ mode' = mode
      BY <1>5 DEF React
    <2> HIDE DEF mainVars, flags, line
    <2>2. handler[n] = "communication"
      BY <1>1, <2>1 DEF Listens
    <2>3. CASE loc' = [loc EXCEPT ![n] = "solve"] /\ mode' = [mode EXCEPT ![n] = "consensus"]
      BY <1>1, <2>1, <2>2, <2>3 DEF MainTypeOK
    <2>4. CASE loc' = [loc EXCEPT ![n] = "loop"] /\ mode' = mode
      BY <1>1, <2>1, <2>2, <2>4 DEF MainTypeOK
    <2> QED
      BY <2>1, <2>3, <2>4
  <1>6. CASE Solve(n)
    <2>1. /\ loc[n] = "solve" /\ loc' = [loc EXCEPT ![n] = "solving"]
          /\ UNCHANGED <<handler, mode, reset, changed, distributed, bound, command, target,
                         serial, wanted, rushed>>
      BY <1>6 DEF Solve, C!Solve
    <2> QED
      BY <1>1, <2>1 DEF MainTypeOK
  <1>7. CASE Calibrate(n)
    <2>1. /\ loc[n] = "calibrate" /\ loc' = [loc EXCEPT ![n] = "calibrating"]
          /\ UNCHANGED <<handler, mode, reset, changed, distributed, bound, command, target,
                         serial, wanted, rushed>>
      BY <1>7 DEF Calibrate, K!Start
    <2> QED
      BY <1>1, <2>1 DEF MainTypeOK
  <1>8. CASE Solved(n)
    BY <1>1, <1>8 DEF Solved, MainTypeOK, Listens, Callback
  <1>9. CASE Calibrated(n)
    BY <1>1, <1>9 DEF Calibrated, MainTypeOK, Listens, Callback
  <1>10. CASE Consense(n)
    <2>1. handler' \in [Node -> Callback] /\ \A m \in Node : m # n => handler'[m] = handler[m]
      BY <1>1, <1>10, ConsensusHandler DEF Consense, MainTypeOK
    <2> QED
      BY <1>1, <1>10, <2>1 DEF Consense, MainTypeOK
  <1>11. CASE Measure(n)
    <2>1. handler' \in [Node -> Callback] /\ \A m \in Node : m # n => handler'[m] = handler[m]
      BY <1>1, <1>11, CalibrationHandler DEF Measure, MainTypeOK
    <2> QED
      BY <1>1, <1>11, <2>1 DEF Measure, MainTypeOK
  <1> QED
    BY <1>2, <1>3, <1>4, <1>5, <1>6, <1>7, <1>8, <1>9, <1>10, <1>11 DEF Own

LEMMA LocalStep == LocalInv /\ [Next]_vars => LocalInv'
  <1> SUFFICES ASSUME LocalInv, [Next]_vars PROVE LocalInv'
    OBVIOUS
  <1>1. MainTypeOK /\ Listens /\ MasterReads
    BY DEF LocalInv
  <1>2. ASSUME NEW o \in Order, Type(o) PROVE LocalInv'
    <2>1. /\ serial' = Append(serial, o) /\ wanted' = Executed(o)
          /\ rushed' = (rushed \/ ~ Quiet)
          /\ UNCHANGED <<handler, mainVars>>
      BY <1>2 DEF Type
    <2>2. serial' \in Seq(Order) /\ rushed' \in BOOLEAN
      BY <1>1, <2>1 DEF MainTypeOK
    <2>3. Executed(o) \in [bound : [Node -> Lux], distributed : BOOLEAN]
      BY <1>1, OrderFacts DEF Executed, MainTypeOK, Lux
    <2>4. MainTypeOK'
      BY <1>1, <2>1, <2>2, <2>3 DEF MainTypeOK, mainVars, flags
    <2>5. UNCHANGED <<handler, loc, command, target, bound>>
      BY <2>1 DEF mainVars, flags
    <2>6. Listens' /\ MasterReads'
      BY <1>1, <2>5 DEF Listens, MasterReads
    <2> QED
      BY <2>4, <2>6 DEF LocalInv
  <1>3. ASSUME NEW n \in Node, Own(n) PROVE LocalInv'
    <2>1. /\ UNCHANGED <<command, target>> /\ MainTypeOK'
          /\ \A m \in Node : m # n => handler'[m] = handler[m] /\ loc'[m] = loc[m]
          /\ loc'[n] \notin {"process", "forward", "update"}
          /\ loc'[n] \notin {"solving", "calibrating"} => handler'[n] = "communication"
      BY <1>3, OwnFrame
    <2>2. Listens'
      BY <1>1, <2>1 DEF Listens
    <2>3. MasterReads'
      <3>1. \A m \in Node : loc'[m] \in {"process", "forward", "update"} =>
               loc'[m] = loc[m] /\ bound'[m] = bound[m]
        BY <1>3, <2>1, OwnFrame
      <3> QED
        BY <1>1, <2>1, <3>1, NodeFacts DEF MasterReads
    <2> QED
      BY <2>1, <2>2, <2>3 DEF LocalInv
  <1>4. CASE Tick
    BY <1>1, <1>4 DEF Tick, LocalInv, MainTypeOK, Listens, MasterReads, flags, line
  <1>5. CASE UNCHANGED vars
    BY <1>1, <1>5
       DEF vars, mainVars, flags, line, LocalInv, MainTypeOK, Listens, MasterReads
  <1>6. CASE Next
    BY <1>2, <1>3, <1>4, <1>6, LocalMaster DEF Next, Board, Own
  <1> QED
    BY <1>5, <1>6

(* Whatever the bus loses and however the commands come, a board that is   *)
(* in no procedure has the callback of commands (solve, calibrate), only   *)
(* the master reads them, and all settings have their types.               *)
THEOREM BoardsListen == Spec => []LocalInv
  BY LocalInit, LocalStep, PTL DEF Spec

-----------------------------------------------------------------------------
(* The types of the procedures' variables.  A run begins with what the one *)
(* before has left, and boards may be in different procedures.             *)

USE ProceduresAssumption

(* Whom a board of an exchange sends to, and whom it hears, exist. *)
ExchangeBounds(n) ==
    /\ cpc[n] \in {"poll", "send", "clear", "next"} => creceiver[n] \in Node
    /\ cpc[n] \in {"wait", "take", "reply", "leave"} => csender[n] \in Node
    /\ cpc[n] \notin {"idle", "done"} => iter[n] < Iterations

(* So does whom a board of a calibration sends to. *)
CalibrationBounds(n) ==
    kpc[n] \in {"poll", "send", "clear", "next"} => kreceiver[n] \in Node

SettingsOK ==
    /\ occupancy \in [Node -> BOOLEAN] /\ ref \in [Node -> Lux \cup {Optimum}]
    /\ hold \in [Node -> 0 .. Delay] /\ given \in 0 .. MaxCommands
    /\ runs \in [Node -> Nat]

ExchangeInv    == C!TypeOK /\ \A n \in Node : ExchangeBounds(n)
CalibrationInv == K!TypeOK /\ \A n \in Node : CalibrationBounds(n)

LEMMA SameNodes == C!Node = Node /\ K!Node = Node /\ C!Callback = Callback /\ K!Callback = Callback
  BY DEF C!Node, K!Node, Node, C!Callback, K!Callback, Callback

(* What the callback of an exchange does to the board it runs on. *)
LEMMA ExchangeReceives ==
    ASSUME C!TypeOK, NEW n, NEW m, NEW type, NEW a, C!SendPacket(n, m, type, a)
    PROVE  /\ cready' \in [Node -> BOOLEAN]
           /\ copies' \in [Node -> [C!Solution -> Nat]]
  <1> USE SameNodes
  <1>1. cready \in [Node -> BOOLEAN] /\ copies \in [Node -> [C!Solution -> Nat]]
    BY DEF C!TypeOK
  <1>2. CASE UNCHANGED <<cready, copies>>
    BY <1>1, <1>2
  <1>3. CASE /\ cready' = [cready EXCEPT ![m] = TRUE]
             /\ copies' = IF type = "CON"
                            THEN [copies EXCEPT ![m][<<n, iter[n]>>] = @ + 1] ELSE copies
    <2> DEFINE s   == <<n, iter[n]>>
               sum == [copies[m] EXCEPT ![s] = @ + 1]
    <2>1. cready' \in [Node -> BOOLEAN]
      BY <1>1, <1>3
    <2>2. CASE m \in Node /\ type = "CON"
      <3>1. copies[m] \in [C!Solution -> Nat]
        BY <1>1, <2>2
      <3>2. sum \in [C!Solution -> Nat]
        <4> HIDE DEF s
        <4>1. CASE s \in C!Solution
          BY <3>1, <4>1
        <4>2. CASE s \notin C!Solution
          BY <3>1, <4>2
        <4> QED
          BY <4>1, <4>2
      <3>3. copies' = [copies EXCEPT ![m] = sum]
        BY <1>3, <2>2
      <3> HIDE DEF sum
      <3> QED
        BY <1>1, <2>1, <3>2, <3>3
    <2>3. CASE m \notin Node \/ type # "CON"
      BY <1>1, <1>3, <2>1, <2>3
    <2> QED
      BY <2>2, <2>3
  <1> QED
    BY <1>2, <1>3 DEF C!SendPacket, C!OnReceive

LEMMA ExchangeStep ==
    ASSUME ExchangeInv, NEW n \in Node, C!Step(n)
    PROVE  ExchangeInv'
  <1> USE SameNodes, NodeFacts DEF C!Goto
  <1>1. C!TypeOK /\ \A m \in Node : ExchangeBounds(m)
    BY DEF ExchangeInv
  <1>2. handler' \in [Node -> Callback]
    BY <1>1, ConsensusHandler DEF C!TypeOK
  <1>3. /\ ExchangeBounds(n)
        /\ cpc \in [Node -> C!Location] /\ csender \in [Node -> 0 .. N]
        /\ creceiver \in [Node -> 0 .. N] /\ iter \in [Node -> 0 .. Iterations]
        /\ cready \in [Node -> BOOLEAN] /\ copies \in [Node -> [C!Solution -> Nat]]
        /\ average \in [Node -> [C!Solution -> Nat]] /\ ctimer \in [Node -> 0 .. Delay]
        /\ C!None \in [C!Solution -> Nat] /\ 0 < Iterations
    BY <1>1 DEF C!TypeOK, C!None
  (* All but the callback's writes are to n. *)
  <1> DEFINE Here ==
        /\ C!TypeOK' /\ ExchangeBounds(n)'
        /\ \A m \in Node : m # n => /\ cpc'[m] = cpc[m] /\ csender'[m] = csender[m]
                                   /\ creceiver'[m] = creceiver[m] /\ iter'[m] = iter[m]
  <1>4. Here => ExchangeInv'
    BY <1>1 DEF ExchangeInv, ExchangeBounds
  <1>5. ASSUME NEW s \in 0 .. N, C!BeginStage(n, s), cpc[n] \notin {"idle", "done"}
        PROVE  Here
    <2> DEFINE l == IF s = N THEN "average" ELSE IF s = n THEN "turn" ELSE "wait"
    <2>1. l \in C!Location /\ (l = "wait" => s \in Node) /\ l \in {"average", "turn", "wait"}
      BY DEF C!Location, Node
    <2>2. /\ cpc' = [cpc EXCEPT ![n] = l] /\ csender' = [csender EXCEPT ![n] = s]
          /\ UNCHANGED <<creceiver, cready, iter, copies, average, ctimer>>
      BY <1>5 DEF C!BeginStage
    <2> HIDE DEF l
    <2>3. C!TypeOK'
      BY <1>2, <1>3, <2>1, <2>2 DEF C!TypeOK
    <2> QED
      BY <1>3, <1>5, <2>1, <2>2, <2>3 DEF ExchangeBounds
  <1>6. ASSUME C!Solve(n) \/ C!Fill(n) \/ C!Install(n)
        PROVE  Here
    <2>1. CASE C!Solve(n)
      BY <1>2, <1>3, <2>1 DEF C!Solve, C!TypeOK, C!Location, ExchangeBounds
    <2>2. CASE C!Fill(n)
      BY <1>2, <1>3, <2>2 DEF C!Fill, C!TypeOK, C!Location, ExchangeBounds
    <2>3. CASE C!Install(n)
      BY <1>2, <1>3, <2>3 DEF C!Install, C!TypeOK, C!Location, ExchangeBounds
    <2> QED
      BY <1>6, <2>1, <2>2, <2>3
  <1>7. ASSUME C!Enter(n) \/ C!EndTurn(n) \/ C!Leave(n)
        PROVE  Here
    <2>1. csender[n] \in Node => csender[n] + 1 \in 0 .. N
      BY DEF Node
    <2>2. 0 \in 0 .. N /\ n + 1 \in 0 .. N
      BY DEF Node
    <2> QED
      BY <1>3, <1>5, <1>7, <2>1, <2>2 DEF C!Enter, C!EndTurn, C!Leave, ExchangeBounds
  <1>8. ASSUME C!Turn(n) \/ C!Target(n) \/ C!NextReceiver(n)
        PROVE  Here
    <2>1. CASE C!Turn(n)
      BY <1>2, <1>3, <2>1 DEF C!Turn, C!TypeOK, C!Location, ExchangeBounds
    <2>2. CASE C!Target(n)
      BY <1>2, <1>3, <2>2 DEF C!Target, C!TypeOK, C!Location, ExchangeBounds
    <2>3. CASE C!NextReceiver(n)
      <3>1. creceiver[n] \in Node => creceiver[n] + 1 \in 0 .. N
        BY DEF Node
      <3> QED
        BY <1>2, <1>3, <2>3, <3>1 DEF C!NextReceiver, C!TypeOK, C!Location, ExchangeBounds
    <2> QED
      BY <1>8, <2>1, <2>2, <2>3
  <1>9. ASSUME C!Poll(n) \/ C!Clear(n)
        PROVE  Here
    <2>1. CASE C!Poll(n)
      BY <1>2, <1>3, <2>1 DEF C!Poll, C!TypeOK, C!Location, ExchangeBounds
    <2>2. CASE C!Clear(n)
      BY <1>2, <1>3, <2>2 DEF C!Clear, C!TypeOK, C!Location, ExchangeBounds
    <2> QED
      BY <1>9, <2>1, <2>2
  <1>10. ASSUME C!Heard(n) \/ C!Take(n)
        PROVE  Here
    <2>1. CASE C!Heard(n)
      BY <1>2, <1>3, <2>1 DEF C!Heard, C!TypeOK, C!Location, ExchangeBounds
    <2>2. CASE C!Take(n)
      BY <1>2, <1>3, <2>2 DEF C!Take, C!TypeOK, C!Location, ExchangeBounds
    <2> QED
      BY <1>10, <2>1, <2>2
  <1>11. ASSUME C!Average(n)
        PROVE  Here
    <2> DEFINE i   == <<n, iter[n]>>
               sum == [copies[n] EXCEPT ![i] = @ + 1]
               l   == IF iter[n] + 1 < Iterations THEN "minimise" ELSE "done"
    <2>1. sum \in [C!Solution -> Nat]
      <3>1. copies[n] \in [C!Solution -> Nat]
        BY <1>3
      <3> HIDE DEF i
      <3>2. CASE i \in C!Solution
        BY <3>1, <3>2
      <3>3. CASE i \notin C!Solution
        BY <3>1, <3>3
      <3> QED
        BY <3>2, <3>3
    <2>2. /\ cpc[n] = "average" /\ average' = [average EXCEPT ![n] = sum]
          /\ cpc' = [cpc EXCEPT ![n] = l] /\ iter' = [iter EXCEPT ![n] = iter[n] + 1]
          /\ UNCHANGED <<csender, creceiver, cready, copies, ctimer>>
      BY <1>3, <1>11 DEF C!Average
    <2>3. /\ iter[n] < Iterations /\ iter[n] + 1 \in 0 .. Iterations
          /\ l \in C!Location /\ l \in {"minimise", "done"}
          /\ l # "done" => iter[n] + 1 < Iterations
      BY <1>3, <2>2 DEF ExchangeBounds, C!Location
    <2> HIDE DEF sum, l
    <2>4. C!TypeOK'
      BY <1>2, <1>3, <2>1, <2>2, <2>3 DEF C!TypeOK
    <2> QED
      BY <1>3, <2>2, <2>3, <2>4 DEF ExchangeBounds
  <1>12. ASSUME NEW a, C!Transmit(n, a) \/ C!Reply(n, a) PROVE Here
    <2>1. /\ cready' \in [Node -> BOOLEAN] /\ copies' \in [Node -> [C!Solution -> Nat]]
      BY <1>1, <1>12, ExchangeReceives DEF C!Transmit, C!Reply
    <2>2. CASE C!Transmit(n, a)
      BY <1>2, <1>3, <2>1, <2>2 DEF C!Transmit, C!TypeOK, C!Location, ExchangeBounds
    <2>3. CASE C!Reply(n, a)
      BY <1>2, <1>3, <2>1, <2>3 DEF C!Reply, C!TypeOK, C!Location, ExchangeBounds
    <2> QED
      BY <1>12, <2>2, <2>3
  <1> HIDE DEF Here
  <1>13. ASSUME C!Local(n) PROVE Here
    BY <1>6, <1>7, <1>8, <1>9, <1>10, <1>11, <1>13 DEF C!Local
  <1> QED
    BY <1>4, <1>12, <1>13 DEF C!Step

(* A value that is stored in a table, in whatever place of it or none. *)
LEMMA Stores ==
    ASSUME NEW S, NEW V, NEW T \in [Node -> [Node -> [S -> V]]], NEW v \in V,
           NEW m \in Node, NEW a, NEW b
    PROVE  [T EXCEPT ![m][a][b] = v] \in [Node -> [Node -> [S -> V]]]
  <1> DEFINE R   == [S -> V]
             row == [T[m][a] EXCEPT ![b] = v]
             mat == [T[m] EXCEPT ![a] = row]
  <1>1. T[m] \in [Node -> R]
    OBVIOUS
  <1>2. a \in Node => row \in R
    BY <1>1
  <1> HIDE DEF R, row
  <1>3. mat \in [Node -> R]
    <2>1. CASE a \in Node
      BY <1>1, <1>2, <2>1
    <2>2. CASE a \notin Node
      BY <1>1, <2>2
    <2> QED
      BY <2>1, <2>2
  <1>4. T \in [Node -> [Node -> R]]
    BY DEF R
  <1> HIDE DEF mat
  <1>5. [T EXCEPT ![m] = mat] \in [Node -> [Node -> R]]
    BY <1>3, <1>4
  <1> QED
    BY <1>5 DEF mat, row, R

LEMMA LevelFacts ==
    /\ K!Off \in K!Level /\ K!Controlled \in K!Level
    /\ \A k \in 0 .. Samples : K!Lit(k) \in K!Level
    /\ 0 \in 0 .. N /\ N \in 0 .. N /\ 0 \in 0 .. Samples /\ Samples \in 0 .. Samples
    /\ 0 \in 0 .. Settle /\ Settle \in 0 .. Settle /\ WaitLed \in Nat /\ Wait \in Nat
  BY DEF K!Off, K!Level, K!Controlled, K!Lit

LEMMA ReadingVector == K!TypeOK => K!Reading \in K!Vector
  <1> SUFFICES ASSUME K!TypeOK PROVE K!Reading \in K!Vector
    OBVIOUS
  <1> USE SameNodes
  <1>1. led \in K!Vector
    <2>1. K!Level \subseteq -2 .. Samples + 1
      BY DEF K!Level
    <2> QED
      BY <2>1 DEF K!TypeOK, K!Vector
  <1>2. K!Blurred \in K!Vector
    BY DEF K!Blurred, K!Vector
  <1> QED
    BY <1>1, <1>2 DEF K!Reading

(* What the callback of a calibration does to the board it runs on. *)
LEMMA CalibrationReceives ==
    ASSUME K!TypeOK, NEW n, NEW m \in 0 .. N, NEW type, NEW a, K!SendPacket(n, m, type, a),
           type = "SYN" => m \in Node
    PROVE  /\ kready' \in [Node -> BOOLEAN]
           /\ kstate' \in [Node -> {"ext", "on", "off"}]
           /\ dark' \in [Node -> K!Vector]
           /\ Y' \in [Node -> [Node -> [0 .. Samples - 1 -> K!Vector]]]
  <1> USE SameNodes
  <1>1. /\ kready \in [Node -> BOOLEAN] /\ kstate \in [Node -> {"ext", "on", "off"}]
        /\ dark \in [Node -> K!Vector]
        /\ Y \in [Node -> [Node -> [0 .. Samples - 1 -> K!Vector]]]
        /\ K!Reading \in K!Vector
    BY ReadingVector DEF K!TypeOK
  <1>2. CASE UNCHANGED <<kready, kstate, dark, Y>>
    BY <1>1, <1>2
  <1>3. CASE kready' = [kready EXCEPT ![m] = TRUE] /\ UNCHANGED <<kstate, dark, Y>>
    BY <1>1, <1>3
  <1>4. CASE kready' = [kready EXCEPT ![m] = TRUE] /\ K!Measure(m) /\ m \in Node
    <2>1. CASE kstate[m] = "ext"
      BY <1>1, <1>4, <2>1 DEF K!Measure
    <2>2. CASE kstate[m] = "on"
      <3> DEFINE at == K!Place(m)
      <3>1. /\ Y' = [Y EXCEPT ![m][at[1]][at[2]] = K!Reading]
            /\ kstate' = [kstate EXCEPT ![m] = "off"] /\ dark' = dark
        BY <1>4, <2>2 DEF K!Measure, K!PutReading
      <3> HIDE DEF at
      <3>2. \A a1, b1 : [Y EXCEPT ![m][a1][b1] = K!Reading]
                          \in [Node -> [Node -> [0 .. Samples - 1 -> K!Vector]]]
        BY <1>1, <1>4, Stores
      <3>3. Y' \in [Node -> [Node -> [0 .. Samples - 1 -> K!Vector]]]
        BY <3>1, <3>2
      <3> QED
        BY <1>1, <1>4, <3>1, <3>3
    <2>3. CASE kstate[m] = "off"
      BY <1>1, <1>4, <2>3 DEF K!Measure
    <2> QED
      BY <1>1, <1>4, <2>1, <2>2, <2>3
  <1> QED
    BY <1>2, <1>3, <1>4 DEF K!SendPacket, K!OnReceive, K!exchanged, K!measured

(* The types of its variables, spelled out. *)
CalibrationTypes ==
    /\ handler \in [Node -> Callback]
    /\ kpc \in [Node -> K!Location] /\ phase \in [Node -> {"ext", "on", "off"}]
    /\ ksender \in [Node -> 0 .. N] /\ kreceiver \in [Node -> 0 .. N]
    /\ kready \in [Node -> BOOLEAN] /\ kstate \in [Node -> {"ext", "on", "off"}]
    /\ sample \in [Node -> 0 .. Samples] /\ led \in [Node -> K!Level]
    /\ since \in [Node -> 0 .. Settle] /\ dark \in [Node -> K!Vector]
    /\ Y \in [Node -> [Node -> [0 .. Samples - 1 -> K!Vector]]]
    /\ ktimer \in [Node -> Nat]

LEMMA CalibrationTypesOK ==
    (K!TypeOK <=> CalibrationTypes) /\ (K!TypeOK' <=> CalibrationTypes')
  <1>1. K!TypeOK <=> CalibrationTypes
    BY SameNodes DEF K!TypeOK, CalibrationTypes
  <1> QED
    BY <1>1, PTL

LEMMA CalibrationStep ==
    ASSUME CalibrationInv, NEW n \in Node, K!Step(n)
    PROVE  CalibrationInv'
  <1> USE SameNodes, NodeFacts DEF K!Goto, K!exchanged, K!measured, K!lamps
  <1> DEFINE L == K!Location
             D == K!Level
             V == K!Vector
             M == [Node -> [0 .. Samples - 1 -> V]]
  <1>1. K!TypeOK /\ \A m \in Node : CalibrationBounds(m)
    BY DEF CalibrationInv
  <1>2. handler' \in [Node -> Callback]
    BY <1>1, CalibrationHandler DEF K!TypeOK
  <1>3. /\ CalibrationBounds(n)
        /\ kpc \in [Node -> L] /\ phase \in [Node -> {"ext", "on", "off"}]
        /\ ksender \in [Node -> 0 .. N] /\ kreceiver \in [Node -> 0 .. N]
        /\ kready \in [Node -> BOOLEAN] /\ kstate \in [Node -> {"ext", "on", "off"}]
        /\ sample \in [Node -> 0 .. Samples] /\ led \in [Node -> D]
        /\ since \in [Node -> 0 .. Settle] /\ dark \in [Node -> V]
        /\ Y \in [Node -> M] /\ ktimer \in [Node -> Nat] /\ K!Reading \in V
    BY <1>1, ReadingVector, CalibrationTypesOK DEF CalibrationTypes
  (* All but the callback's writes are to n. *)
  <1> DEFINE Measured ==
        /\ kready' \in [Node -> BOOLEAN] /\ kstate' \in [Node -> {"ext", "on", "off"}]
        /\ dark' \in [Node -> V] /\ Y' \in [Node -> M]
             Lamps ==
        /\ led' \in [Node -> D] /\ since' \in [Node -> 0 .. Settle]
        /\ ktimer' \in [Node -> Nat]
             Stage ==
        /\ phase' \in [Node -> {"ext", "on", "off"}] /\ ksender' \in [Node -> 0 .. N]
        /\ sample' \in [Node -> 0 .. Samples]
             At ==
        /\ kpc' \in [Node -> L] /\ kreceiver' \in [Node -> 0 .. N]
        /\ kpc'[n] \in {"poll", "send", "clear", "next"} => kreceiver'[n] \in Node
        /\ \A m \in Node : m # n => kpc'[m] = kpc[m] /\ kreceiver'[m] = kreceiver[m]
             Here == Measured /\ Lamps /\ Stage /\ At
  <1>4. Here => CalibrationInv'
    <2>1. Here => CalibrationTypes'
      BY <1>2 DEF CalibrationTypes
    <2>2. Here => (\A m \in Node : CalibrationBounds(m))'
      BY <1>1 DEF CalibrationBounds
    <2> QED
      BY <2>1, <2>2, CalibrationTypesOK DEF CalibrationInv
  <1>5. /\ UNCHANGED <<kready, kstate, dark, Y>> => Measured
        /\ UNCHANGED <<led, since, ktimer>> => Lamps
        /\ UNCHANGED <<phase, ksender, sample>> => Stage
    BY <1>3
  <1>6. {"install", "unready", "begin", "settle", "target", "wait", "take", "reply",
         "replied", "external", "endturn", "done"} \subseteq L
    BY DEF K!Location
  <1> HIDE DEF L, M, V
  <1>7. ASSUME NEW l \in {"install", "unready", "begin", "settle", "target", "wait", "take",
                          "reply", "replied", "external", "endturn", "done"},
               kpc' = [kpc EXCEPT ![n] = l], kreceiver' = kreceiver
        PROVE  At
    BY <1>3, <1>6, <1>7
  <1>8. ASSUME NEW l \in D, K!WriteLed(n, l)
        PROVE  Lamps /\ kpc' = [kpc EXCEPT ![n] = "settle"]
    BY <1>3, <1>8 DEF K!WriteLed
  <1> HIDE DEF D, Measured, Lamps, Stage, At
  <1>9. ASSUME K!Start(n) \/ K!Install(n) \/ K!Unready(n)
        PROVE  Here
    <2>1. Stage /\ Lamps
      BY <1>5, <1>9 DEF K!Start, K!Install, K!Unready
    <2>2. Measured
      BY <1>3, <1>5, <1>9 DEF K!Start, K!Install, K!Unready, Measured
    <2>3. At
      BY <1>7, <1>9 DEF K!Start, K!Install, K!Unready
    <2> QED
      BY <2>1, <2>2, <2>3
  <1>10. ASSUME K!Heard(n) \/ K!Take(n)
         PROVE  Here
    <2>1. Stage /\ Lamps
      BY <1>5, <1>10 DEF K!Heard, K!Take
    <2>2. Measured
      BY <1>3, <1>5, <1>10 DEF K!Heard, K!Take, Measured
    <2>3. At
      BY <1>7, <1>10 DEF K!Heard, K!Take
    <2> QED
      BY <2>1, <2>2, <2>3
  <1>11. ASSUME K!External(n) \/ K!WaitOff(n)
         PROVE  Here
    <2>1. Lamps
      BY <1>5, <1>11 DEF K!External, K!WaitOff
    <2>2. Measured
      BY <1>3, <1>5, <1>11 DEF K!External, K!WaitOff, Measured
    <2>3. Stage
      BY <1>3, <1>5, <1>11 DEF K!External, K!WaitOff, Stage
    <2>4. At
      BY <1>7, <1>11 DEF K!External, K!WaitOff
    <2> QED
      BY <2>1, <2>2, <2>3, <2>4
  <1>12. ASSUME K!Begin(n) \/ K!TurnOff(n)
         PROVE  Here
    <2>1. Lamps /\ kpc' = [kpc EXCEPT ![n] = "settle"]
      BY <1>8, <1>12, LevelFacts DEF K!Begin, K!TurnOff, D
    <2>2. kreceiver' = kreceiver
      BY <1>12 DEF K!Begin, K!TurnOff
    <2>3. Stage
      BY <1>3, <1>12, LevelFacts DEF K!Begin, K!TurnOff, Stage
    <2>4. Measured
      BY <1>3, <1>12 DEF K!Begin, K!TurnOff, Measured
    <2> QED
      BY <1>7, <2>1, <2>2, <2>3, <2>4
  <1>13. ASSUME K!Settled(n) PROVE Here
    <2>1. dark' \in [Node -> V] /\ UNCHANGED <<kready, kstate>>
      BY <1>3, <1>13 DEF K!Settled
    <2>2. Y' \in [Node -> M]
      <3>1. Y' = Y \/ Y' = [Y EXCEPT ![n][n][sample[n]] = K!Reading]
        BY <1>13 DEF K!Settled
      <3>2. PICK k : k = sample[n]
        OBVIOUS
      <3>3. [Y EXCEPT ![n][n][k] = K!Reading] \in [Node -> M]
        BY <1>3, Stores DEF M
      <3> QED
        BY <1>3, <3>1, <3>2, <3>3
    <2>3. Stage /\ Lamps
      BY <1>5, <1>13 DEF K!Settled
    <2>4. \/ kpc' = [kpc EXCEPT ![n] = "wait"] /\ kreceiver' = kreceiver
          \/ kpc' = [kpc EXCEPT ![n] = "target"] /\ kreceiver' = [kreceiver EXCEPT ![n] = 0]
      BY <1>13 DEF K!Settled
    <2>5. At
      BY <1>3, <1>6, <2>4, LevelFacts DEF At
    <2> QED
      BY <1>3, <2>1, <2>2, <2>3, <2>5 DEF Measured
  <1>14. ASSUME K!Target(n) \/ K!NextReceiver(n)
         PROVE  Here
    <2>1. Measured /\ Lamps /\ Stage
      BY <1>5, <1>14 DEF K!Target, K!NextReceiver
    <2>2. CASE K!Target(n)
      <3>1. kreceiver[n] \in 0 .. N
        BY <1>3
      <3>2. /\ kpc' = [kpc EXCEPT ![n] = IF kreceiver[n] = N THEN "endturn" ELSE "poll"]
            /\ kreceiver' = kreceiver
        BY <2>2 DEF K!Target
      <3>3. "poll" \in L
        BY DEF L, K!Location
      <3>4. CASE kreceiver[n] = N
        BY <1>7, <2>1, <3>2, <3>4
      <3>5. CASE kreceiver[n] # N
        <4>1. kreceiver[n] \in Node
          BY <3>1, <3>5 DEF Node
        <4> QED
          BY <1>3, <2>1, <3>2, <3>3, <3>5, <4>1 DEF At
      <3> QED
        BY <3>4, <3>5
    <2>3. CASE K!NextReceiver(n)
      <3>1. kreceiver[n] \in Node /\ kreceiver[n] + 1 \in 0 .. N
        <4>1. kreceiver[n] \in Node
          BY <1>3, <2>3 DEF K!NextReceiver, CalibrationBounds
        <4> QED
          BY <4>1 DEF Node
      <3>2. kpc' = [kpc EXCEPT ![n] = "target"] /\ kreceiver' = [kreceiver EXCEPT ![n] = @ + 1]
        BY <2>3 DEF K!NextReceiver
      <3>3. At
        BY <1>3, <1>6, <3>1, <3>2 DEF At
      <3> QED
        BY <2>1, <3>3
    <2> QED
      BY <1>14, <2>2, <2>3
  <1>15. ASSUME K!Poll(n) \/ K!Clear(n)
         PROVE  Here
    <2>1. Measured /\ Lamps /\ Stage
      BY <1>3, <1>5, <1>15 DEF K!Poll, K!Clear, Measured
    <2>2. kreceiver[n] \in Node
      BY <1>3, <1>15 DEF K!Poll, K!Clear, CalibrationBounds
    <2>3. At
      BY <1>3, <1>15, <2>2 DEF K!Poll, K!Clear, K!Location, At, L
    <2> QED
      BY <2>1, <2>3
  <1>16. ASSUME NEW s \in 0 .. N, NEW k \in 0 .. Samples, K!BeginStage(n, s, k),
                UNCHANGED <<kreceiver, kready, kstate, dark, Y>>
         PROVE  Here
    <2>1. Measured
      BY <1>5, <1>16
    <2>2. Stage
      BY <1>3, <1>16 DEF K!BeginStage, Stage
    <2>3. K!Lit(k) \in D
      BY LevelFacts DEF D
    <2>4. Lamps /\ \E l \in {"settle", "wait"} : kpc' = [kpc EXCEPT ![n] = l]
      BY <1>5, <1>8, <1>16, <2>3 DEF K!BeginStage
    <2> QED
      BY <1>7, <1>16, <2>1, <2>2, <2>4
  <1>17. ASSUME K!FirstStage(n) \/ K!Leave(n)
         PROVE  Here
    <2>1. UNCHANGED <<kreceiver, kready, kstate, dark, Y>>
      BY <1>17 DEF K!FirstStage, K!Leave
    <2>2. /\ ksender[n] \in 0 .. N /\ sample[n] \in 0 .. Samples
          /\ ksender[n] + 1 < N => ksender[n] + 1 \in 0 .. N
          /\ sample[n] + 1 < Samples => sample[n] + 1 \in 0 .. Samples
      BY <1>3
    <2>3. CASE K!BeginStage(n, 0, 0)
      BY <1>16, <2>1, <2>3, LevelFacts
    <2>4. CASE ksender[n] + 1 < N /\ K!BeginStage(n, ksender[n] + 1, sample[n])
      BY <1>16, <2>1, <2>2, <2>4
    <2>5. CASE sample[n] + 1 < Samples /\ K!BeginStage(n, 0, sample[n] + 1)
      BY <1>16, <2>1, <2>2, <2>5, LevelFacts
    <2>6. CASE /\ ksender' = [ksender EXCEPT ![n] = N] /\ sample' = [sample EXCEPT ![n] = Samples]
               /\ kpc' = [kpc EXCEPT ![n] = "done"] /\ UNCHANGED <<phase, led, since, ktimer>>
      <3>1. Stage
        BY <1>3, <2>6, LevelFacts DEF Stage
      <3>2. Measured /\ Lamps /\ At
        BY <1>5, <1>7, <2>1, <2>6
      <3> QED
        BY <3>1, <3>2
    <2> QED
      BY <1>17, <2>3, <2>4, <2>5, <2>6 DEF K!FirstStage, K!Leave, K!EndStage
  <1>18. ASSUME NEW a, K!Transmit(n, a) \/ K!Reply(n, a)
         PROVE  Here
    <2>1. Measured
      BY <1>1, <1>3, <1>18, CalibrationReceives
         DEF K!Transmit, K!Reply, CalibrationBounds, Measured, M, V
    <2>2. Stage
      BY <1>5, <1>18 DEF K!Transmit, K!Reply
    <2>3. Lamps
      BY <1>3, <1>5, <1>18 DEF K!Transmit, K!Reply, Lamps
    <2>4. At
      <3>1. CASE K!Transmit(n, a)
        <4>1. kreceiver[n] \in Node
          BY <1>3, <3>1 DEF K!Transmit, CalibrationBounds
        <4> QED
          BY <1>3, <3>1, <4>1 DEF K!Transmit, K!Location, At, L
      <3>2. CASE K!Reply(n, a)
        BY <1>7, <3>2 DEF K!Reply
      <3> QED
        BY <1>18, <3>1, <3>2
    <2> QED
      BY <2>1, <2>2, <2>3, <2>4
  <1> HIDE DEF Here
  <1>19. ASSUME K!Local(n) PROVE Here
    BY <1>9, <1>10, <1>11, <1>12, <1>13, <1>14, <1>15, <1>17, <1>19 DEF K!Local
  <1> QED
    BY <1>4, <1>18, <1>19 DEF K!Step

TypesInv == ExchangeInv /\ CalibrationInv /\ SettingsOK

LEMMA ExchangeFrame ==
    ASSUME ExchangeInv, handler' \in [Node -> Callback], UNCHANGED consensusVars
    PROVE  ExchangeInv'
  <1>1. C!TypeOK /\ (\A n \in Node : ExchangeBounds(n))
        /\ UNCHANGED <<cpc, csender, creceiver, cready, iter, copies, average, ctimer>>
    BY DEF ExchangeInv, consensusVars
  <1>2. C!TypeOK'
    BY <1>1, SameNodes DEF C!TypeOK, C!Location
  <1>3. (\A n \in Node : ExchangeBounds(n))'
    BY <1>1 DEF ExchangeBounds
  <1> QED
    BY <1>2, <1>3 DEF ExchangeInv

LEMMA CalibrationFrame ==
    ASSUME CalibrationInv, handler' \in [Node -> Callback], UNCHANGED calibVars
    PROVE  CalibrationInv'
  <1>1. K!TypeOK /\ (\A n \in Node : CalibrationBounds(n))
        /\ UNCHANGED <<kpc, phase, ksender, kreceiver, kready, kstate, sample, led, since,
                       dark, Y, ktimer>>
    BY DEF CalibrationInv, calibVars
  <1>2. CalibrationTypes'
    BY <1>1, CalibrationTypesOK DEF CalibrationTypes
  <1>3. (\A n \in Node : CalibrationBounds(n))'
    BY <1>1 DEF CalibrationBounds
  <1> QED
    BY <1>2, <1>3, CalibrationTypesOK DEF CalibrationInv

LEMMA TypesInit == Init => TypesInv
  <1> SUFFICES ASSUME Init PROVE TypesInv
    OBVIOUS
  <1> USE SameNodes, NodeFacts
  <1>1. ExchangeInv
    <2>1. /\ handler = [n \in Node |-> "communication"] /\ cpc = [n \in Node |-> "idle"]
          /\ csender \in [Node -> 0 .. N] /\ creceiver \in [Node -> 0 .. N]
          /\ cready = [n \in Node |-> FALSE] /\ iter = [n \in Node |-> 0]
          /\ copies = [n \in Node |-> C!None] /\ average = [n \in Node |-> C!None]
          /\ ctimer = [n \in Node |-> 0]
      BY DEF Init, C!Init
    <2>2. C!None \in [C!Solution -> Nat]
      BY DEF C!None
    <2>3. C!TypeOK
      BY <2>1, <2>2 DEF C!TypeOK, C!Location, C!Callback
    <2> QED
      BY <2>1, <2>3 DEF ExchangeInv, ExchangeBounds
  <1>2. CalibrationInv
    <2>1. /\ handler = [n \in Node |-> "communication"] /\ kpc = [n \in Node |-> "idle"]
          /\ phase = [n \in Node |-> "ext"] /\ ksender \in [Node -> 0 .. N]
          /\ kreceiver \in [Node -> 0 .. N] /\ kready = [n \in Node |-> FALSE]
          /\ kstate \in [Node -> {"ext", "on", "off"}] /\ sample \in [Node -> 0 .. Samples]
          /\ led = [n \in Node |-> K!Controlled] /\ since = [n \in Node |-> Settle]
          /\ dark = [n \in Node |-> K!Nothing] /\ Y = [n \in Node |-> K!NoSamples]
          /\ ktimer = [n \in Node |-> 0]
      BY LevelFacts DEF Init, K!Init
    <2>2. K!Nothing \in K!Vector
      BY DEF K!Nothing, K!Vector
    <2>3. K!NoSamples \in [Node -> [0 .. Samples - 1 -> K!Vector]]
      BY <2>2 DEF K!NoSamples
    <2>4. "idle" \in K!Location /\ "communication" \in Callback
      BY DEF K!Location, Callback
    <2>5. CalibrationTypes
      BY <2>1, <2>2, <2>3, <2>4, LevelFacts DEF CalibrationTypes
    <2>6. \A n \in Node : CalibrationBounds(n)
      BY <2>1 DEF CalibrationBounds
    <2> QED
      BY <2>5, <2>6, CalibrationTypesOK DEF CalibrationInv
  <1>3. SettingsOK
    BY DEF Init, SettingsOK, Lux
  <1> QED
    BY <1>1, <1>2, <1>3 DEF TypesInv

(* Type, and the master's own steps, are outside the procedures. *)
LEMMA TypesMaster ==
    ASSUME LocalInv, LocalInv', TypesInv, (\E o \in Order : Type(o)) \/ Master
    PROVE  TypesInv'
  <1>1. MainTypeOK /\ MasterReads /\ handler' \in [Node -> Callback]
    BY DEF LocalInv, MainTypeOK
  <1>2. ExchangeInv /\ CalibrationInv /\ SettingsOK
    BY DEF TypesInv
  <1>3. UNCHANGED <<hold, consensusVars, calibVars>>
    BY DEF Type, Master, ReadCommand, Process, Apply, Forward, mainVars
  <1>4. given' \in 0 .. MaxCommands /\ runs' = runs
    <2>1. CASE \E o \in Order : Type(o)
      BY <1>2, <2>1 DEF Type, SettingsOK
    <2>2. CASE Master
      BY <1>2, <2>2 DEF Master, ReadCommand, Process, Apply, Forward, line, SettingsOK
    <2> QED
      BY <2>1, <2>2
  <1>5. occupancy' \in [Node -> BOOLEAN] /\ ref' \in [Node -> Lux \cup {Optimum}]
    <2>1. ASSUME NEW m, NEW lux \in Lux, SetBound(m, lux)
          PROVE  occupancy' \in [Node -> BOOLEAN] /\ ref' \in [Node -> Lux \cup {Optimum}]
      <3>1. occupancy \in [Node -> BOOLEAN] /\ ref \in [Node -> Lux \cup {Optimum}]
        BY <1>2 DEF SettingsOK
      <3>2. \/ occupancy' = [occupancy EXCEPT ![m] = TRUE]
            \/ occupancy' = [occupancy EXCEPT ![m] = FALSE]
        <4>1. occupancy' = [occupancy EXCEPT ![m] = lux > LOW_LUX]
          BY <2>1 DEF SetBound
        <4>2. (lux > LOW_LUX) = TRUE \/ (lux > LOW_LUX) = FALSE
          OBVIOUS
        <4> QED
          BY <4>1, <4>2, Zenon
      <3>3. ref' = ref \/ ref' = [ref EXCEPT ![m] = lux]
        BY <2>1 DEF SetBound
      <3>4. ref' \in [Node -> Lux \cup {Optimum}]
        BY <2>1, <3>1, <3>3
      <3> QED
        BY <3>1, <3>2, <3>4
    <2>2. CASE UNCHANGED <<ref, occupancy>>
      BY <1>2, <2>2 DEF SettingsOK
    <2>3. CASE Process
      <3>1. command \in Order /\ command.lux \in Lux
        BY <1>1, <2>3, OrderFacts DEF Process, MasterReads
      <3> QED
        BY <2>1, <2>2, <2>3, <3>1 DEF Process
    <2>4. ASSUME NEW a, Forward(a)
          PROVE  occupancy' \in [Node -> BOOLEAN] /\ ref' \in [Node -> Lux \cup {Optimum}]
      <3>1. command \in Order /\ command.lux \in Lux
        BY <1>1, <2>4, OrderFacts DEF Forward, MasterReads
      <3> QED
        BY <2>1, <2>2, <2>4, <3>1 DEF Forward, SendPacket, OnReceive, flags
    <2>5. CASE (\E o \in Order : Type(o)) \/ ReadCommand \/ Apply
      BY <2>2, <2>5 DEF Type, ReadCommand, Apply, mainVars, flags
    <2> QED
      BY <2>3, <2>4, <2>5 DEF Master
  <1>6. SettingsOK'
    BY <1>2, <1>3, <1>4, <1>5 DEF SettingsOK
  <1>7. ExchangeInv' /\ CalibrationInv'
    BY <1>1, <1>2, <1>3, ExchangeFrame, CalibrationFrame
  <1> QED
    BY <1>6, <1>7 DEF TypesInv

LEMMA TypesOwn ==
    ASSUME LocalInv', TypesInv, NEW n \in Node, Own(n)
    PROVE  TypesInv'
  <1>1. handler' \in [Node -> Callback]
    BY DEF LocalInv, MainTypeOK
  <1>2. ExchangeInv /\ CalibrationInv /\ SettingsOK
    BY DEF TypesInv
  <1>3. CASE Update(n) \/ ClearReset(n) \/ ResetRef(n) \/ ResetBound(n) \/ ResetMode(n)
               \/ ClearChanged(n)
    <2>1. UNCHANGED <<hold, occupancy, given, runs, consensusVars, calibVars>>
      BY <1>3 DEF Update, ClearReset, ResetRef, ResetBound, ResetMode, ClearChanged, flags, line
    <2>2. ref' \in [Node -> Lux \cup {Optimum}]
      BY <1>2, <1>3 DEF SettingsOK, Lux, Update, ClearReset, ResetRef, ResetBound, ResetMode,
         ClearChanged, flags
    <2>3. SettingsOK'
      BY <1>2, <2>1, <2>2 DEF SettingsOK
    <2>4. ExchangeInv' /\ CalibrationInv'
      BY <1>1, <1>2, <2>1, ExchangeFrame, CalibrationFrame
    <2> QED
      BY <2>3, <2>4 DEF TypesInv
  <1>4. CASE React(n)
    <2>1. UNCHANGED <<ref, occupancy, given, runs, consensusVars, calibVars>>
      BY <1>4 DEF React, flags, line
    <2>2. hold' \in [Node -> 0 .. Delay]
      BY <1>2, <1>4 DEF React, SettingsOK
    <2>3. SettingsOK'
      BY <1>2, <2>1, <2>2 DEF SettingsOK
    <2>4. ExchangeInv' /\ CalibrationInv'
      BY <1>1, <1>2, <2>1, ExchangeFrame, CalibrationFrame
    <2> QED
      BY <2>3, <2>4 DEF TypesInv
  <1>5. CASE Solve(n) \/ Consense(n)
    <2>1. C!Step(n)
      BY <1>5 DEF Solve, Consense, C!Step, C!Local
    <2>2. ExchangeInv'
      BY <1>2, <2>1, ExchangeStep
    <2>3. UNCHANGED <<ref, occupancy, hold, given, calibVars>>
      BY <1>5 DEF Solve, Consense, mainVars, flags, line
    <2>4. runs' \in [Node -> Nat]
      BY <1>2, <1>5 DEF Solve, Consense, line, SettingsOK
    <2>5. SettingsOK' /\ CalibrationInv'
      BY <1>1, <1>2, <2>3, <2>4, CalibrationFrame DEF SettingsOK
    <2> QED
      BY <2>2, <2>5 DEF TypesInv
  <1>6. CASE Calibrate(n) \/ Measure(n)
    <2>1. K!Step(n)
      BY <1>6 DEF Calibrate, Measure, K!Step, K!Local
    <2>2. CalibrationInv'
      BY <1>2, <2>1, CalibrationStep
    <2>3. UNCHANGED <<ref, occupancy, hold, given, runs, consensusVars>>
      BY <1>6 DEF Calibrate, Measure, mainVars, flags, line
    <2>4. SettingsOK' /\ ExchangeInv'
      BY <1>1, <1>2, <2>3, ExchangeFrame DEF SettingsOK
    <2> QED
      BY <2>2, <2>4 DEF TypesInv
  <1>7. CASE Solved(n)
    <2>1. /\ ref' = [ref EXCEPT ![n] = Optimum] /\ cpc' = [cpc EXCEPT ![n] = "idle"]
          /\ UNCHANGED <<occupancy, hold, given, runs, csender, creceiver, cready, iter,
                         copies, average, ctimer, calibVars>>
      BY <1>7 DEF Solved, line
    <2>2. SettingsOK'
      BY <1>2, <2>1 DEF SettingsOK
    <2>3. C!TypeOK'
      BY <1>1, <1>2, <2>1, SameNodes DEF ExchangeInv, C!TypeOK, C!Location
    <2>4. (\A m \in Node : ExchangeBounds(m))'
      BY <1>2, <2>1, SameNodes DEF ExchangeInv, ExchangeBounds, C!TypeOK
    <2>5. CalibrationInv'
      BY <1>1, <1>2, <2>1, CalibrationFrame
    <2> QED
      BY <2>2, <2>3, <2>4, <2>5 DEF TypesInv, ExchangeInv
  <1>8. CASE Calibrated(n)
    <2>1. /\ kpc' = [kpc EXCEPT ![n] = "idle"] /\ led' = [led EXCEPT ![n] = K!Controlled]
          /\ since' = [since EXCEPT ![n] = 0]
          /\ UNCHANGED <<ref, occupancy, hold, given, runs, consensusVars, phase, ksender,
                         kreceiver, kready, kstate, sample, dark, Y, ktimer>>
      BY <1>8 DEF Calibrated, flags, line
    <2>2. SettingsOK' /\ ExchangeInv'
      BY <1>1, <1>2, <2>1, ExchangeFrame DEF SettingsOK
    <2>3. K!TypeOK /\ (\A m \in Node : CalibrationBounds(m)) /\ "idle" \in K!Location
      BY <1>2 DEF CalibrationInv, K!Location
    <2>4. CalibrationTypes'
      BY <1>1, <2>1, <2>3, CalibrationTypesOK, LevelFacts DEF CalibrationTypes
    <2>5. (\A m \in Node : CalibrationBounds(m))'
      BY <2>1, <2>3, CalibrationTypesOK DEF CalibrationTypes, CalibrationBounds
    <2> QED
      BY <2>2, <2>4, <2>5, CalibrationTypesOK DEF TypesInv, CalibrationInv
  <1> QED
    BY <1>3, <1>4, <1>5, <1>6, <1>7, <1>8 DEF Own

LEMMA TypesTick == LocalInv' /\ TypesInv /\ Tick => TypesInv'
  <1> SUFFICES ASSUME LocalInv', TypesInv, Tick PROVE TypesInv'
    OBVIOUS
  <1> USE SameNodes
  <1>1. handler' \in [Node -> Callback]
    BY DEF LocalInv, MainTypeOK
  <1>2. /\ ExchangeInv /\ CalibrationInv /\ SettingsOK /\ C!TypeOK /\ K!TypeOK
    BY DEF TypesInv, ExchangeInv, CalibrationInv
  <1>3. /\ hold' = C!Elapsed(hold) /\ ctimer' = C!Elapsed(ctimer)
        /\ ktimer' = C!Elapsed(ktimer) /\ since' = K!Aged(since)
        /\ UNCHANGED <<ref, occupancy, given, runs, cpc, csender, creceiver, cready, iter,
                       copies, average, kpc, phase, ksender, kreceiver, kready, kstate, sample, led,
                       dark, Y>>
    BY DEF Tick, flags, line
  <1>4. hold' \in [Node -> 0 .. Delay] /\ ctimer' \in [Node -> 0 .. Delay]
    <2>1. hold \in [Node -> 0 .. Delay] /\ ctimer \in [Node -> 0 .. Delay]
      BY <1>2 DEF SettingsOK, C!TypeOK
    <2> QED
      BY <1>3, <2>1 DEF C!Elapsed
  <1>5. ktimer' \in [Node -> Nat] /\ since' \in [Node -> 0 .. Settle]
    <2>1. ktimer \in [Node -> Nat] /\ since \in [Node -> 0 .. Settle]
      BY <1>2, CalibrationTypesOK DEF CalibrationTypes
    <2>2. C!Elapsed(ktimer) \in [Node -> Nat]
      BY <2>1 DEF C!Elapsed
    <2>3. K!Aged(since) \in [Node -> 0 .. Settle]
      BY <2>1 DEF K!Aged
    <2> QED
      BY <1>3, <2>2, <2>3
  <1>6. SettingsOK'
    BY <1>2, <1>3, <1>4 DEF SettingsOK
  <1>7. ExchangeInv'
    <2>1. C!TypeOK'
      BY <1>1, <1>2, <1>3, <1>4 DEF C!TypeOK, C!Location
    <2> QED
      BY <1>2, <1>3, <2>1 DEF ExchangeInv, ExchangeBounds
  <1>8. CalibrationInv'
    <2>1. CalibrationTypes'
      BY <1>1, <1>2, <1>3, <1>5, CalibrationTypesOK DEF CalibrationTypes
    <2> QED
      BY <1>2, <1>3, <2>1, CalibrationTypesOK DEF CalibrationInv, CalibrationBounds
  <1> QED
    BY <1>6, <1>7, <1>8 DEF TypesInv

LEMMA TypesStep == LocalInv /\ LocalInv' /\ TypesInv /\ [Next]_vars => TypesInv'
  <1> SUFFICES ASSUME LocalInv, LocalInv', TypesInv, [Next]_vars PROVE TypesInv'
    OBVIOUS
  <1>1. CASE UNCHANGED vars
    <2>1. UNCHANGED <<ref, occupancy, hold, given, runs, consensusVars, calibVars>>
      BY <1>1 DEF vars, mainVars, flags, line
    <2> QED
      BY <2>1, ExchangeFrame, CalibrationFrame
         DEF TypesInv, SettingsOK, LocalInv, MainTypeOK
  <1>2. CASE Next
    BY <1>2, TypesMaster, TypesOwn, TypesTick DEF Next, Board, Own
  <1> QED
    BY <1>1, <1>2

(* Whatever the user types and the bus loses, every variable of the boards *)
(* and of both procedures keeps its type, although a run begins with what  *)
(* the one before has left: no board counts past the last iteration, the   *)
(* last sample or the last receiver (solve, getCopies, calibrate, execute, *)
(* updateState).                                                           *)
THEOREM TypeCorrect == Spec => []TypeOK
  <1>1. Init => LocalInv /\ TypesInv
    BY LocalInit, TypesInit
  <1>2. LocalInv /\ TypesInv /\ [Next]_vars => (LocalInv /\ TypesInv)'
    BY LocalStep, TypesStep
  <1>3. LocalInv /\ TypesInv => TypeOK
    BY DEF LocalInv, MainTypeOK, TypesInv, ExchangeInv, CalibrationInv, SettingsOK, TypeOK
  <1> QED
    BY <1>1, <1>2, <1>3, PTL DEF Spec

-----------------------------------------------------------------------------
(* The handshakes of the two procedures, when boards may be in different   *)
(* procedures and in different runs of the same one.                       *)

(* Which procedure a board is in, and whose callback it has. *)
Callbacks(n) ==
    /\ cpc[n] # "idle" <=> loc[n] = "solving"
    /\ kpc[n] # "idle" <=> loc[n] = "calibrating"
    /\ cpc[n] \notin {"idle", "minimise", "install"} => handler[n] = "consensus"
    /\ handler[n] = "consensus" => cpc[n] # "idle"
    /\ handler[n] = "calibration" <=> kpc[n] \notin {"idle", "install"}

(* Whose turn a board believes it is, and whom it serves, in an exchange of *)
(* the consensus; a stale view is no board or, on power-up, the master.     *)
ExchangeTurn(n) ==
    /\ cpc[n] \in {"turn", "target", "poll", "send", "clear", "next"} => csender[n] = n
    /\ cpc[n] \in {"wait", "take", "reply", "leave"} => csender[n] \in Node \ {n}
    /\ cpc[n] \in {"poll", "send", "clear", "next"} => creceiver[n] \in Node \ {n}
    /\ cpc[n] \in {"idle", "minimise", "install", "enter"} => csender[n] \in {0, N}
    /\ cpc[n] \in {"average", "done"} => csender[n] = N
    /\ cpc[n] \in {"minimise", "install"} /\ handler[n] = "consensus" => csender[n] = N

ExchangeReady(n) ==
    /\ cready[n] => cpc[n] \in {"enter", "wait", "take", "poll", "clear"}
    /\ cready[n] /\ cpc[n] = "enter" => csender[n] \in Node \ {n}

(* n has accepted a solution and has not left the turn of its sender yet... *)
Took(n) ==
    cpc[n] \in {"take", "reply", "leave"} \/ (cready[n] /\ cpc[n] \in {"enter", "wait"})

(* ... which delays as long: it can neither repeat the solution nor go on. *)
SenderWaits(n) ==
    Took(n) => \E s \in Node \ {n} :
        /\ s = csender[n] /\ csender[s] = s /\ creceiver[s] = n
        /\ cpc[s] = "poll" /\ ctimer[s] > 0

HandshakesInv ==
    \A n \in Node : ExchangeTurn(n) /\ ExchangeReady(n) /\ SenderWaits(n)

(* A step of n's own program changes nothing of another board. *)
LEMMA ExchangeLocalFrame ==
    ASSUME NEW n \in Node, C!Local(n), NEW m \in Node, m # n
    PROVE  /\ handler \in [Node -> Callback] => handler'[m] = handler[m]
           /\ cpc \in [Node -> C!Location] => cpc'[m] = cpc[m]
           /\ csender \in [Node -> 0 .. N] => csender'[m] = csender[m]
           /\ creceiver \in [Node -> 0 .. N] => creceiver'[m] = creceiver[m]
           /\ cready \in [Node -> BOOLEAN] => cready'[m] = cready[m]
           /\ ctimer' = ctimer
  BY DEF C!Local, C!Goto, C!Solve, C!Fill, C!Install, C!Enter, C!Turn, C!Target,
     C!NextReceiver, C!EndTurn, C!Poll, C!Clear, C!Heard, C!Take, C!Leave, C!Average,
     C!BeginStage

LEMMA HandshakesLocal ==
    ASSUME MainTypeOK, ExchangeInv, HandshakesInv, NEW n \in Node, Callbacks(n),
           C!Local(n)
    PROVE  HandshakesInv'
  <1> USE NodeFacts DEF C!Goto
  <1>1. /\ handler \in [Node -> Callback] /\ cpc \in [Node -> C!Location]
        /\ csender \in [Node -> 0 .. N] /\ creceiver \in [Node -> 0 .. N]
        /\ cready \in [Node -> BOOLEAN] /\ ctimer \in [Node -> 0 .. Delay]
    BY SameNodes DEF ExchangeInv, C!TypeOK
  <1>2. \A m \in Node : m # n =>
           /\ handler'[m] = handler[m] /\ cpc'[m] = cpc[m] /\ csender'[m] = csender[m]
           /\ creceiver'[m] = creceiver[m] /\ cready'[m] = cready[m]
    BY <1>1, ExchangeLocalFrame
  <1>3. /\ ctimer' = ctimer /\ n # N
        /\ ExchangeTurn(n) /\ ExchangeReady(n) /\ SenderWaits(n) /\ ExchangeBounds(n)
    BY ExchangeLocalFrame DEF ExchangeInv, HandshakesInv, C!Local, C!Goto, C!Solve, C!Fill,
       C!Install, C!Enter, C!Turn, C!Target, C!NextReceiver, C!EndTurn, C!Poll, C!Clear,
       C!Heard, C!Take, C!Leave, C!Average, C!BeginStage
  <1>4. ExchangeTurn(n)'
    <2> USE DEF ExchangeTurn
    <2>1. CASE C!Solve(n) \/ C!Fill(n) \/ C!Install(n)
      BY <1>1, <1>3, <2>1 DEF C!Solve, C!Fill, C!Install, Callbacks
    <2>2. CASE C!Enter(n) \/ C!EndTurn(n) \/ C!Leave(n)
      <3>1. PICK s \in 0 .. N : C!BeginStage(n, s) /\ cpc[n] \in {"enter", "target", "leave"}
        BY <1>3, <2>2 DEF C!Enter, C!EndTurn, C!Leave, Node
      <3>2. s # N => s \in Node
        BY DEF Node
      <3> QED
        BY <1>1, <3>1, <3>2 DEF C!BeginStage
    <2>3. CASE C!Turn(n) \/ C!Target(n) \/ C!NextReceiver(n)
      BY <1>1, <1>3, <2>3, SameNodes DEF C!Turn, C!Target, C!NextReceiver
    <2>4. CASE C!Poll(n) \/ C!Clear(n) \/ C!Heard(n) \/ C!Take(n) \/ C!Average(n)
      BY <1>1, <1>3, <2>4 DEF C!Poll, C!Clear, C!Heard, C!Take, C!Average
    <2> QED
      BY <2>1, <2>2, <2>3, <2>4 DEF C!Local
  <1>5. ExchangeReady(n)'
    <2> USE DEF ExchangeReady
    <2>1. CASE C!Solve(n) \/ C!Fill(n) \/ C!Average(n)
      BY <1>1, <1>3, <2>1 DEF C!Solve, C!Fill, C!Average
    <2>2. CASE C!Install(n) \/ C!Turn(n) \/ C!Target(n) \/ C!NextReceiver(n)
      BY <1>1, <1>3, <2>2 DEF C!Install, C!Turn, C!Target, C!NextReceiver
    <2>3. CASE C!Enter(n)
      BY <1>1, <1>3, <2>3 DEF C!Enter, C!BeginStage, ExchangeTurn
    <2>4. CASE C!EndTurn(n) \/ C!Leave(n)
      BY <1>1, <1>3, <2>4 DEF C!EndTurn, C!Leave, C!BeginStage
    <2>5. CASE C!Poll(n) \/ C!Clear(n) \/ C!Heard(n) \/ C!Take(n)
      BY <1>1, <1>3, <2>5 DEF C!Poll, C!Clear, C!Heard, C!Take
    <2> QED
      BY <2>1, <2>2, <2>3, <2>4, <2>5 DEF C!Local
  <1>6. SenderWaits(n)'
    <2> SUFFICES ASSUME Took(n)' PROVE SenderWaits(n)'
      BY DEF SenderWaits
    <2>1. C!Enter(n) \/ C!Heard(n) \/ C!Take(n)
      BY <1>1, <1>3 DEF Took, ExchangeReady, C!Local, C!Solve, C!Fill, C!Install,
         C!Enter, C!Turn, C!Target, C!NextReceiver, C!EndTurn, C!Poll, C!Clear, C!Heard,
         C!Take, C!Leave, C!Average, C!BeginStage
    <2>2. Took(n) /\ csender'[n] = csender[n]
      BY <1>1, <1>3, <2>1 DEF Took, ExchangeReady, ExchangeTurn, C!Enter, C!Heard, C!Take,
         C!BeginStage
    <2> QED
      BY <1>2, <1>3, <2>2 DEF SenderWaits
  <1>7. ASSUME NEW m \in Node, m # n
        PROVE  ExchangeTurn(m)' /\ ExchangeReady(m)' /\ SenderWaits(m)'
    <2>1. ExchangeTurn(m) /\ ExchangeReady(m) /\ SenderWaits(m)
      BY DEF HandshakesInv
    <2>2. ExchangeTurn(m)' /\ ExchangeReady(m)'
      BY <1>2, <1>7, <2>1 DEF ExchangeTurn, ExchangeReady
    <2>3. ASSUME Took(m)' PROVE SenderWaits(m)'
      <3>1. Took(m)
        BY <1>2, <1>7, <2>3 DEF Took
      <3>2. PICK s \in Node \ {m} : /\ s = csender[m] /\ csender[s] = s /\ creceiver[s] = m
                                    /\ cpc[s] = "poll" /\ ctimer[s] > 0
        BY <2>1, <3>1 DEF SenderWaits
      <3>3. s # n
        <4> SUFFICES ASSUME s = n PROVE FALSE
          OBVIOUS
        <4>1. ctimer[n] # 0 /\ cpc[n] = "poll"
          BY <1>1, <3>2
        <4> QED
          BY <4>1 DEF C!Local, C!Solve, C!Fill, C!Install, C!Enter, C!Turn, C!Target,
             C!NextReceiver, C!EndTurn, C!Poll, C!Clear, C!Heard, C!Take, C!Leave, C!Average
      <3> QED
        BY <1>2, <1>3, <1>7, <3>2, <3>3 DEF SenderWaits
    <2> QED
      BY <2>2, <2>3 DEF SenderWaits
  <1> QED
    BY <1>4, <1>5, <1>6, <1>7 DEF HandshakesInv

(* A board that accepts a solution waits for that sender, which is about   *)
(* to begin its delay.                                                     *)
LEMMA HandshakesTransmit ==
    ASSUME ExchangeInv, HandshakesInv, \A m \in Node : Callbacks(m),
           NEW n \in Node, NEW a, C!Transmit(n, a)
    PROVE  HandshakesInv'
  <1> USE NodeFacts DEF C!Goto
  <1>1. /\ cpc \in [Node -> C!Location] /\ csender \in [Node -> 0 .. N]
        /\ cready \in [Node -> BOOLEAN] /\ ctimer \in [Node -> 0 .. Delay]
    BY SameNodes DEF ExchangeInv, C!TypeOK
  <1>2. /\ cpc[n] = "send" /\ cpc' = [cpc EXCEPT ![n] = "poll"]
        /\ ctimer' = [ctimer EXCEPT ![n] = Delay]
        /\ UNCHANGED <<handler, csender, creceiver>>
    BY DEF C!Transmit
  <1>3. PICK m : m = creceiver[n]
    OBVIOUS
  <1>4. m \in Node \ {n} /\ csender[n] = n
    BY <1>2, <1>3 DEF HandshakesInv, ExchangeTurn
  <1>5. \/ cready' = cready
        \/ C!Accepts(m, n, "CON") /\ cready' = [cready EXCEPT ![m] = TRUE]
    BY <1>3 DEF C!Transmit, C!SendPacket, C!OnReceive
  (* n is about to send: nobody has taken what it sends. *)
  <1>6. ASSUME NEW p \in Node, Took(p) PROVE csender[p] # n
    BY <1>2, <1>6 DEF HandshakesInv, SenderWaits
  <1>7. C!Accepts(m, n, "CON") => csender[m] = n /\ cpc[m] \in {"enter", "wait"}
    <2> SUFFICES ASSUME C!Accepts(m, n, "CON")
                 PROVE  csender[m] = n /\ cpc[m] \in {"enter", "wait"}
      OBVIOUS
    <2>1. csender[m] = n /\ handler[m] = "consensus"
      BY <1>4 DEF C!Accepts
    <2>2. cpc[m] \notin {"take", "reply", "leave"}
      BY <1>4, <1>6, <2>1 DEF Took
    <2>3. ExchangeTurn(m) /\ Callbacks(m) /\ cpc[m] \in C!Location
      BY <1>1, <1>4 DEF HandshakesInv
    <2> QED
      BY <1>4, <2>1, <2>2, <2>3 DEF ExchangeTurn, Callbacks, C!Location
  <1>8. ASSUME NEW p \in Node
        PROVE  ExchangeTurn(p)' /\ ExchangeReady(p)' /\ SenderWaits(p)'
    <2>1. ExchangeTurn(p) /\ ExchangeReady(p) /\ SenderWaits(p)
      BY DEF HandshakesInv
    <2>2. ExchangeTurn(p)'
      BY <1>1, <1>2, <2>1 DEF ExchangeTurn
    <2>3. ExchangeReady(p)'
      BY <1>1, <1>2, <1>4, <1>5, <1>7, <2>1 DEF ExchangeReady
    <2>4. ASSUME Took(p)', p # m \/ cready' = cready PROVE SenderWaits(p)'
      <3>1. Took(p)
        BY <1>1, <1>2, <1>5, <2>1, <2>4 DEF Took, ExchangeReady
      <3>2. PICK s \in Node \ {p} : /\ s = csender[p] /\ csender[s] = s /\ creceiver[s] = p
                                    /\ cpc[s] = "poll" /\ ctimer[s] > 0
        BY <2>1, <3>1 DEF SenderWaits
      <3> QED
        BY <1>1, <1>2, <3>2 DEF SenderWaits
    <2>5. ASSUME Took(p)', p = m, cready' # cready PROVE SenderWaits(p)'
      <3>1. csender'[p] = n /\ csender'[n] = n /\ creceiver'[n] = p
        BY <1>2, <1>3, <1>4, <1>5, <1>7, <2>5
      <3>2. cpc'[n] = "poll" /\ ctimer'[n] > 0
        BY <1>1, <1>2
      <3> QED
        BY <1>4, <2>5, <3>1, <3>2 DEF SenderWaits
    <2> QED
      BY <2>2, <2>3, <2>4, <2>5 DEF SenderWaits
  <1> QED
    BY <1>8 DEF HandshakesInv

(* An acknowledgement finds its sender in that delay. *)
LEMMA HandshakesReply ==
    ASSUME ExchangeInv, HandshakesInv, NEW n \in Node, NEW a, C!Reply(n, a)
    PROVE  HandshakesInv'
  <1> USE DEF C!Goto
  <1>1. cpc \in [Node -> C!Location] /\ cready \in [Node -> BOOLEAN]
    BY SameNodes DEF ExchangeInv, C!TypeOK
  <1>2. /\ cpc[n] = "reply" /\ cpc' = [cpc EXCEPT ![n] = "leave"]
        /\ UNCHANGED <<handler, csender, creceiver, ctimer>>
    BY DEF C!Reply
  <1>3. PICK s \in Node \ {n} : s = csender[n] /\ cpc[s] = "poll"
    BY <1>2 DEF HandshakesInv, SenderWaits, Took
  <1>4. cready' = cready \/ cready' = [cready EXCEPT ![s] = TRUE]
    BY <1>3 DEF C!Reply, C!SendPacket, C!OnReceive
  <1>5. ASSUME NEW p \in Node
        PROVE  ExchangeTurn(p)' /\ ExchangeReady(p)' /\ SenderWaits(p)'
    <2>1. ExchangeTurn(p) /\ ExchangeReady(p) /\ SenderWaits(p) /\ ExchangeReady(n)
      BY DEF HandshakesInv
    <2>2. ExchangeTurn(p)'
      BY <1>1, <1>2, <2>1 DEF ExchangeTurn
    <2>3. ExchangeReady(p)'
      BY <1>1, <1>2, <1>3, <1>4, <2>1 DEF ExchangeReady
    <2>4. ASSUME Took(p)' PROVE SenderWaits(p)'
      <3>1. Took(p)
        BY <1>1, <1>2, <1>3, <1>4, <2>1, <2>4 DEF Took, ExchangeReady
      <3>2. PICK q \in Node \ {p} : /\ q = csender[p] /\ csender[q] = q /\ creceiver[q] = p
                                    /\ cpc[q] = "poll" /\ ctimer[q] > 0
        BY <2>1, <3>1 DEF SenderWaits
      <3> QED
        BY <1>1, <1>2, <3>2 DEF SenderWaits
    <2> QED
      BY <2>2, <2>3, <2>4 DEF SenderWaits
  <1> QED
    BY <1>5 DEF HandshakesInv

(* The same of a calibration.  A board may start late, and be asked again  *)
(* by a master that has not seen its answer, or has but transmits first.   *)
CalibrationTurn(n) ==
    /\ kpc[n] \in {"idle", "install", "unready", "begin"} =>
         ksender[n] = N \/ (ksender[n] = 0 /\ phase[n] = "ext")
    /\ kpc[n] \notin {"idle", "install", "unready", "begin"} /\ phase[n] = "ext" =>
         ksender[n] = MASTER
    /\ kpc[n] \in {"target", "poll", "send", "clear", "next", "endturn"} => ksender[n] = n
    /\ kpc[n] = "settle" /\ phase[n] # "ext" => ksender[n] = n
    /\ kpc[n] = "external" => phase[n] = "ext"
    /\ kpc[n] \in {"wait", "take", "reply", "replied"} => ksender[n] \in Node \ {n}
    /\ kpc[n] \in {"poll", "send", "clear", "next"} => kreceiver[n] \in Node \ {n}
    /\ kpc[n] = "done" => ksender[n] = N

CalibrationReady(n) ==
    kready[n] =>
      \/ ksender[n] = n /\ kpc[n] \in {"poll", "send", "clear"}
      \/ /\ ksender[n] \in Node \ {n}
         /\ \/ kpc[n] \in {"wait", "take"}
            \/ /\ phase[n] = "ext"
               /\ kpc[n] \in {"unready", "begin", "settle", "reply", "replied", "external"}

Serves(s, n) == ksender[s] = s /\ kreceiver[s] = n /\ kpc[s] \in {"poll", "send"}

(* n has a request for the dark and has not answered it since it began... *)
Requested(n) ==
    /\ phase[n] = "ext"
    /\ \/ kpc[n] \in {"take", "reply"}
       \/ kready[n] /\ kpc[n] \in {"unready", "begin", "settle", "wait"}

(* ... or one that it does not expect, or one of a lamp. *)
RequestedNow(n) ==
    IF phase[n] = "ext"
      THEN kready[n] /\ kpc[n] \in {"reply", "replied", "external"}
      ELSE kpc[n] \in {"take", "reply", "replied"} \/ (kready[n] /\ kpc[n] = "wait")

(* Then its sender has no answer yet, or it is still delaying. *)
SenderAsks(n) ==
    /\ Requested(n) => \E s \in Node \ {n} :
         s = ksender[n] /\ Serves(s, n) /\ ~ kready[s]
    /\ RequestedNow(n) => \E s \in Node \ {n} :
         s = ksender[n] /\ Serves(s, n) /\ kpc[s] = "poll" /\ ktimer[s] > 0

(* An answer that comes as s is about to ask once more was given before. *)
AnsweredEarly(s) ==
    kready[s] /\ kpc[s] = "send" => \E n \in Node \ {s} :
        /\ n = kreceiver[s] /\ ksender[n] = s /\ ~ kready[n]
        /\ \/ phase[n] = "ext" /\ kpc[n] \in {"replied", "external"}
           \/ phase[n] = "on" /\ kpc[n] = "wait"

RequestsInv ==
    \A n \in Node : /\ CalibrationTurn(n) /\ CalibrationReady(n)
                    /\ SenderAsks(n) /\ AnsweredEarly(n)

LEMMA CalibrationLocalFrame ==
    ASSUME CalibrationInv, NEW n \in Node, K!Local(n), NEW m \in Node, m # n
    PROVE  /\ kpc'[m] = kpc[m] /\ phase'[m] = phase[m] /\ ksender'[m] = ksender[m]
           /\ kreceiver'[m] = kreceiver[m] /\ kready'[m] = kready[m]
           /\ ktimer'[m] = ktimer[m]
  <1>1. /\ kpc \in [Node -> K!Location] /\ phase \in [Node -> {"ext", "on", "off"}]
        /\ ksender \in [Node -> 0 .. N] /\ kreceiver \in [Node -> 0 .. N]
        /\ kready \in [Node -> BOOLEAN] /\ ktimer \in [Node -> Nat]
    BY CalibrationTypesOK DEF CalibrationInv, CalibrationTypes
  <1> USE DEF K!Goto, K!exchanged, K!measured, K!lamps
  <1>2. CASE K!Start(n) \/ K!Install(n) \/ K!Unready(n) \/ K!Settled(n)
    BY <1>1, <1>2 DEF K!Start, K!Install, K!Unready, K!Settled
  <1>3. CASE K!Begin(n) \/ K!TurnOff(n)
    BY <1>1, <1>3 DEF K!Begin, K!TurnOff, K!WriteLed
  <1>4. CASE K!Target(n) \/ K!NextReceiver(n) \/ K!Poll(n) \/ K!Clear(n)
    BY <1>1, <1>4 DEF K!Target, K!NextReceiver, K!Poll, K!Clear
  <1>5. CASE K!Heard(n) \/ K!Take(n) \/ K!External(n) \/ K!WaitOff(n)
    BY <1>1, <1>5 DEF K!Heard, K!Take, K!External, K!WaitOff
  <1>6. ASSUME NEW s, NEW k, K!BeginStage(n, s, k), UNCHANGED <<kreceiver, kready>>
        PROVE  /\ kpc'[m] = kpc[m] /\ phase'[m] = phase[m] /\ ksender'[m] = ksender[m]
               /\ kreceiver'[m] = kreceiver[m] /\ kready'[m] = kready[m]
               /\ ktimer'[m] = ktimer[m]
    BY <1>1, <1>6 DEF K!BeginStage, K!WriteLed
  <1>7. CASE K!FirstStage(n)
    BY <1>6, <1>7 DEF K!FirstStage
  <1>8. CASE K!Leave(n)
    <2>1. CASE \E s, k : K!BeginStage(n, s, k)
      BY <1>6, <1>8, <2>1 DEF K!Leave
    <2>2. CASE /\ ksender' = [ksender EXCEPT ![n] = N] /\ kpc' = [kpc EXCEPT ![n] = "done"]
               /\ UNCHANGED <<phase, ktimer>>
      BY <1>1, <1>8, <2>2 DEF K!Leave
    <2> QED
      BY <1>8, <2>1, <2>2 DEF K!Leave, K!EndStage
  <1> QED
    BY <1>2, <1>3, <1>4, <1>5, <1>7, <1>8 DEF K!Local

LEMMA RequestsLocal ==
    ASSUME CalibrationInv, RequestsInv, NEW n \in Node, K!Local(n)
    PROVE  RequestsInv'
  <1> USE NodeFacts DEF K!Goto, K!exchanged, K!measured, K!lamps
  <1>1. /\ kpc \in [Node -> K!Location] /\ phase \in [Node -> {"ext", "on", "off"}]
        /\ ksender \in [Node -> 0 .. N] /\ kreceiver \in [Node -> 0 .. N]
        /\ kready \in [Node -> BOOLEAN] /\ ktimer \in [Node -> Nat]
    BY CalibrationTypesOK DEF CalibrationInv, CalibrationTypes
  <1>2. \A m \in Node : m # n =>
           /\ kpc'[m] = kpc[m] /\ phase'[m] = phase[m] /\ ksender'[m] = ksender[m]
           /\ kreceiver'[m] = kreceiver[m] /\ kready'[m] = kready[m]
           /\ ktimer'[m] = ktimer[m]
    BY CalibrationLocalFrame
  <1>3. /\ CalibrationTurn(n) /\ CalibrationReady(n) /\ SenderAsks(n)
        /\ n # N /\ K!MASTER = MASTER
    BY DEF RequestsInv, K!MASTER, MASTER
  (* n takes no request, and loses none that it has still to answer. *)
  <1> DEFINE Keeps ==
        /\ CalibrationTurn(n)' /\ CalibrationReady(n)'
        /\ Requested(n)' => Requested(n) /\ ksender'[n] = ksender[n]
        /\ RequestedNow(n)' => RequestedNow(n) /\ ksender'[n] = ksender[n]
        /\ ~ (kready'[n] /\ kpc'[n] = "send")
  <1>4. Keeps
    <2> USE DEF CalibrationTurn, CalibrationReady, Requested, RequestedNow
    <2>1. CASE K!Start(n) \/ K!Install(n) \/ K!Unready(n)
      BY <1>1, <1>3, <2>1 DEF K!Start, K!Install, K!Unready
    <2>2. CASE K!Begin(n) \/ K!TurnOff(n)
      <3>1. CASE K!Begin(n)
        BY <1>1, <1>3, <3>1 DEF K!Begin, K!WriteLed
      <3>2. CASE K!TurnOff(n)
        BY <1>1, <1>3, <3>2 DEF K!TurnOff, K!WriteLed
      <3> QED
        BY <2>2, <3>1, <3>2
    <2>3. CASE K!Settled(n)
      BY <1>1, <1>3, <2>3 DEF K!Settled
    <2>4. CASE K!Target(n) \/ K!NextReceiver(n)
      <3>1. kreceiver[n] # N => kreceiver[n] \in Node
        BY <1>1 DEF Node
      <3> QED
        BY <1>1, <1>3, <2>4, <3>1 DEF K!Target, K!NextReceiver
    <2>5. CASE K!Poll(n) \/ K!Clear(n) \/ K!Heard(n) \/ K!Take(n)
      BY <1>1, <1>3, <2>5 DEF K!Poll, K!Clear, K!Heard, K!Take
    <2>6. CASE K!External(n) \/ K!WaitOff(n)
      BY <1>1, <1>3, <2>6 DEF K!External, K!WaitOff
    <2>7. ASSUME NEW s \in Node, NEW k, K!BeginStage(n, s, k), UNCHANGED <<kreceiver, kready>>,
                 kready[n] => s = ksender[n] /\ kpc[n] = "external"
          PROVE  Keeps
      <3>1. CASE s = n
        BY <1>1, <1>3, <2>7, <3>1 DEF K!BeginStage, K!WriteLed
      <3>2. CASE s # n
        BY <1>1, <1>3, <2>7, <3>2 DEF K!BeginStage
      <3> QED
        BY <3>1, <3>2
    <2>8. CASE K!FirstStage(n)
      BY <1>1, <1>3, <2>7, <2>8 DEF K!FirstStage
    <2>9. CASE K!Leave(n)
      <3>1. ~ kready[n] /\ ksender[n] \in 0 .. N
        BY <1>1, <1>3, <2>9 DEF K!Leave
      <3>2. CASE ksender[n] + 1 < N /\ K!BeginStage(n, ksender[n] + 1, sample[n])
        <4>1. ksender[n] + 1 \in Node
          BY <3>1, <3>2 DEF Node
        <4> QED
          BY <2>7, <2>9, <3>1, <3>2, <4>1 DEF K!Leave
      <3>3. CASE K!BeginStage(n, 0, sample[n] + 1)
        BY <2>7, <2>9, <3>1, <3>3 DEF K!Leave
      <3>4. CASE /\ ksender' = [ksender EXCEPT ![n] = N] /\ kpc' = [kpc EXCEPT ![n] = "done"]
                 /\ UNCHANGED <<phase, ktimer>>
        BY <1>1, <1>3, <2>9, <3>1, <3>4 DEF K!Leave
      <3> QED
        BY <2>9, <3>2, <3>3, <3>4 DEF K!Leave, K!EndStage
    <2> QED
      BY <2>1, <2>2, <2>3, <2>4, <2>5, <2>6, <2>8, <2>9 DEF K!Local
  <1> HIDE DEF Keeps
  <1>5. SenderAsks(n)' /\ AnsweredEarly(n)'
    BY <1>2, <1>3, <1>4 DEF Keeps, SenderAsks, AnsweredEarly, Serves
  (* A board whose request n is asking goes on, at most, to ask again. *)
  <1>6. ASSUME kpc[n] \in {"poll", "send"}, ~ kready[n] \/ (kpc[n] = "poll" /\ ktimer[n] > 0)
        PROVE  /\ kpc'[n] \in {"poll", "send"} /\ kready'[n] = kready[n]
               /\ ksender'[n] = ksender[n] /\ kreceiver'[n] = kreceiver[n]
               /\ ~ (kpc[n] = "poll" /\ ktimer[n] > 0)
    <2>1. K!Poll(n)
      BY <1>6 DEF K!Local, K!Start, K!Install, K!Unready, K!Begin, K!Settled, K!Target,
         K!NextReceiver, K!Clear, K!Heard, K!Take, K!External, K!FirstStage, K!TurnOff,
         K!WaitOff, K!Leave
    <2> QED
      BY <1>1, <1>6, <2>1 DEF K!Poll
  <1>7. ASSUME NEW m \in Node, m # n
        PROVE  /\ CalibrationTurn(m)' /\ CalibrationReady(m)'
               /\ SenderAsks(m)' /\ AnsweredEarly(m)'
    <2>1. CalibrationTurn(m) /\ CalibrationReady(m) /\ SenderAsks(m) /\ AnsweredEarly(m)
      BY DEF RequestsInv
    <2>2. CalibrationTurn(m)' /\ CalibrationReady(m)'
      BY <1>2, <1>7, <2>1 DEF CalibrationTurn, CalibrationReady
    <2>3. ASSUME Requested(m)'
          PROVE  \E s \in Node \ {m} : s = ksender'[m] /\ Serves(s, m)' /\ ~ kready'[s]
      <3>1. Requested(m)
        BY <1>2, <1>7, <2>3 DEF Requested
      <3>2. PICK s \in Node \ {m} : s = ksender[m] /\ Serves(s, m) /\ ~ kready[s]
        BY <2>1, <3>1 DEF SenderAsks
      <3>3. CASE s = n
        BY <1>2, <1>6, <1>7, <3>2, <3>3 DEF Serves
      <3>4. CASE s # n
        BY <1>2, <1>7, <3>2, <3>4 DEF Serves
      <3> QED
        BY <3>3, <3>4
    <2>4. ASSUME RequestedNow(m)'
          PROVE  \E s \in Node \ {m} : /\ s = ksender'[m] /\ Serves(s, m)' /\ kpc'[s] = "poll"
                                       /\ ktimer'[s] > 0
      <3>1. RequestedNow(m)
        BY <1>2, <1>7, <2>4 DEF RequestedNow
      <3>2. PICK s \in Node \ {m} : /\ s = ksender[m] /\ Serves(s, m) /\ kpc[s] = "poll"
                                    /\ ktimer[s] > 0
        BY <2>1, <3>1 DEF SenderAsks
      <3>3. s # n
        BY <1>6, <3>2
      <3> QED
        BY <1>2, <1>7, <3>2, <3>3 DEF Serves
    <2>5. AnsweredEarly(m)'
      <3> SUFFICES ASSUME kready[m], kpc[m] = "send"
                   PROVE  \E p \in Node \ {m} :
                            /\ p = kreceiver'[m] /\ ksender'[p] = m /\ ~ kready'[p]
                            /\ \/ phase'[p] = "ext" /\ kpc'[p] \in {"replied", "external"}
                               \/ phase'[p] = "on" /\ kpc'[p] = "wait"
        BY <1>2, <1>7 DEF AnsweredEarly
      <3>1. PICK p \in Node \ {m} :
              /\ p = kreceiver[m] /\ ksender[p] = m /\ ~ kready[p]
              /\ \/ phase[p] = "ext" /\ kpc[p] \in {"replied", "external"}
                 \/ phase[p] = "on" /\ kpc[p] = "wait"
        BY <2>1 DEF AnsweredEarly
      <3>2. CASE p # n
        BY <1>2, <1>7, <3>1, <3>2
      <3>3. CASE p = n
        <4>1. K!External(n) \/ K!FirstStage(n)
          BY <3>1, <3>3 DEF K!Local, K!Start, K!Install, K!Unready, K!Begin, K!Settled,
             K!Target, K!NextReceiver, K!Poll, K!Clear, K!Heard, K!Take, K!TurnOff,
             K!WaitOff, K!Leave
        <4>2. CASE K!External(n)
          BY <1>1, <1>2, <1>7, <3>1, <3>3, <4>2 DEF K!External
        <4>3. CASE K!FirstStage(n)
          <5>1. ksender[n] = 0 /\ 0 # n
            BY <1>3, <3>1, <3>3, <4>3 DEF K!FirstStage, CalibrationTurn
          <5>2. /\ ksender' = [ksender EXCEPT ![n] = 0] /\ phase' = [phase EXCEPT ![n] = "on"]
                /\ kpc' = [kpc EXCEPT ![n] = "wait"] /\ kready' = kready
            BY <4>3, <5>1 DEF K!FirstStage, K!BeginStage
          <5>3. ksender'[n] = m /\ phase'[n] = "on" /\ kpc'[n] = "wait" /\ ~ kready'[n]
            BY <1>1, <3>1, <3>3, <5>1, <5>2
          <5> QED
            BY <1>2, <1>7, <3>1, <3>3, <5>3
        <4> QED
          BY <4>1, <4>2, <4>3
      <3> QED
        BY <3>2, <3>3
    <2> QED
      BY <2>2, <2>3, <2>4, <2>5 DEF SenderAsks
  <1> QED
    BY <1>4, <1>5, <1>7 DEF RequestsInv, Keeps

(* A board that accepts a request waits for that sender, which is about to *)
(* begin its delay.                                                        *)
LEMMA RequestsTransmit ==
    ASSUME CalibrationInv, RequestsInv, \A m \in Node : Callbacks(m),
           NEW n \in Node, NEW a, K!Transmit(n, a)
    PROVE  RequestsInv'
  <1> USE NodeFacts DEF K!Goto
  <1>1. /\ kpc \in [Node -> K!Location] /\ phase \in [Node -> {"ext", "on", "off"}]
        /\ kready \in [Node -> BOOLEAN] /\ ktimer \in [Node -> Nat]
    BY CalibrationTypesOK DEF CalibrationInv, CalibrationTypes
  <1>2. /\ kpc[n] = "send" /\ kpc' = [kpc EXCEPT ![n] = "poll"]
        /\ ktimer' = [ktimer EXCEPT ![n] = Wait] /\ Wait > 0
        /\ UNCHANGED <<handler, phase, ksender, kreceiver>>
    BY DEF K!Transmit
  <1>3. PICK m : m = kreceiver[n]
    OBVIOUS
  <1>4. m \in Node \ {n} /\ ksender[n] = n
    BY <1>2, <1>3 DEF RequestsInv, CalibrationTurn
  <1>5. \/ kready' = kready
        \/ K!Accepts(m, n, "SYN") /\ kready' = [kready EXCEPT ![m] = TRUE]
    BY <1>3 DEF K!Transmit, K!SendPacket, K!OnReceive, K!exchanged
  <1>6. ASSUME K!Accepts(m, n, "SYN")
        PROVE  /\ ksender[m] = n /\ ~ RequestedNow(m)
               /\ kpc[m] \notin {"idle", "install", "target", "poll", "send", "clear", "next",
                                 "endturn", "done"}
               /\ kpc[m] \in {"unready", "begin", "settle", "external"} => phase[m] = "ext"
    <2>1. ksender[m] = n /\ handler[m] = "calibration"
      BY <1>4, <1>6 DEF K!Accepts
    <2>2. CalibrationTurn(m) /\ SenderAsks(m) /\ Callbacks(m)
      BY <1>4 DEF RequestsInv
    <2>3. ~ RequestedNow(m)
      BY <1>2, <2>1, <2>2 DEF SenderAsks
    <2> QED
      BY <1>4, <2>1, <2>2, <2>3 DEF CalibrationTurn, Callbacks
  <1>7. ASSUME NEW p \in Node
        PROVE  /\ CalibrationTurn(p)' /\ CalibrationReady(p)'
               /\ SenderAsks(p)' /\ AnsweredEarly(p)'
    <2>1. /\ CalibrationTurn(p) /\ CalibrationReady(p) /\ SenderAsks(p) /\ AnsweredEarly(p)
          /\ AnsweredEarly(n) /\ kpc[p] \in K!Location
      BY <1>1 DEF RequestsInv
    <2>2. CalibrationTurn(p)'
      BY <1>1, <1>2, <2>1 DEF CalibrationTurn
    <2>3. CASE p # m \/ kready' = kready
      <3>1. kready'[p] = kready[p]
        BY <1>1, <1>4, <1>5, <2>3
      <3>2. CalibrationReady(p)'
        BY <1>1, <1>2, <2>1, <3>1 DEF CalibrationReady
      <3>3. (Requested(p)' => Requested(p)) /\ (RequestedNow(p)' => RequestedNow(p))
        BY <1>1, <1>2, <3>1 DEF Requested, RequestedNow
      <3>4. ASSUME NEW s \in Node \ {p}, s = ksender[p], Serves(s, p)
            PROVE  Serves(s, p)' /\ kready'[s] = kready[s]
        <4>1. kready'[s] = kready[s]
          <5> SUFFICES ASSUME s = m, K!Accepts(m, n, "SYN") PROVE FALSE
            BY <1>1, <1>4, <1>5
          <5> QED
            BY <1>6, <3>4 DEF Serves
        <4> QED
          BY <1>1, <1>2, <3>4, <4>1 DEF Serves
      <3>5. SenderAsks(p)'
        <4>1. ASSUME Requested(p)'
              PROVE  \E s \in Node \ {p} : s = ksender'[p] /\ Serves(s, p)' /\ ~ kready'[s]
          BY <1>2, <2>1, <3>3, <3>4, <4>1 DEF SenderAsks
        <4>2. ASSUME RequestedNow(p)'
              PROVE  \E s \in Node \ {p} : /\ s = ksender'[p] /\ Serves(s, p)'
                                           /\ kpc'[s] = "poll" /\ ktimer'[s] > 0
          <5>1. PICK s \in Node \ {p} : /\ s = ksender[p] /\ Serves(s, p)
                                        /\ kpc[s] = "poll" /\ ktimer[s] > 0
            BY <2>1, <3>3, <4>2 DEF SenderAsks
          <5>2. s # n /\ Serves(s, p)'
            BY <1>2, <3>4, <5>1
          <5> QED
            BY <1>1, <1>2, <5>1, <5>2
        <4> QED
          BY <4>1, <4>2 DEF SenderAsks
      <3>6. AnsweredEarly(p)'
        <4> SUFFICES ASSUME kready[p], kpc[p] = "send", p # n
                     PROVE  AnsweredEarly(p)'
          BY <1>1, <1>2, <3>1 DEF AnsweredEarly
        <4>1. PICK q \in Node \ {p} :
                /\ q = kreceiver[p] /\ ksender[q] = p /\ ~ kready[q]
                /\ \/ phase[q] = "ext" /\ kpc[q] \in {"replied", "external"}
                   \/ phase[q] = "on" /\ kpc[q] = "wait"
          BY <2>1 DEF AnsweredEarly
        <4>2. q # n /\ kready'[q] = kready[q]
          BY <1>1, <1>2, <1>4, <1>5, <1>6, <4>1
        <4> QED
          BY <1>1, <1>2, <4>1, <4>2 DEF AnsweredEarly
      <3> QED
        BY <2>2, <3>2, <3>5, <3>6
    <2>4. CASE p = m /\ K!Accepts(m, n, "SYN") /\ kready' = [kready EXCEPT ![m] = TRUE]
      <3>1. /\ ksender'[p] = n /\ p # n /\ kpc'[p] = kpc[p] /\ phase'[p] = phase[p]
            /\ kready'[n] = kready[n] /\ kpc'[n] = "poll" /\ ktimer'[n] = Wait
            /\ ksender'[n] = n /\ kreceiver'[n] = p
        BY <1>1, <1>2, <1>3, <1>4, <1>6, <2>4
      <3>2. Serves(n, p)'
        BY <3>1 DEF Serves
      <3>3. CalibrationReady(p)'
        BY <1>4, <1>6, <2>1, <2>4, <3>1 DEF CalibrationReady, RequestedNow, K!Location
      (* Who has answered is not where a request for the dark is awaited. *)
      <3>4. Requested(p)' => ~ kready[n]
        <4> SUFFICES ASSUME Requested(p)', kready[n] PROVE FALSE
          OBVIOUS
        <4>1. \/ phase[m] = "ext" /\ kpc[m] \in {"replied", "external"}
              \/ phase[m] = "on" /\ kpc[m] = "wait"
          BY <1>2, <1>3, <2>1 DEF AnsweredEarly
        <4> QED
          BY <2>4, <3>1, <4>1 DEF Requested
      <3>5. SenderAsks(p)'
        BY <1>2, <1>4, <2>4, <3>1, <3>2, <3>4 DEF SenderAsks
      <3>6. AnsweredEarly(p)'
        BY <1>6, <2>4, <3>1 DEF AnsweredEarly
      <3> QED
        BY <2>2, <3>3, <3>5, <3>6
    <2> QED
      BY <1>5, <2>3, <2>4
  <1> QED
    BY <1>7 DEF RequestsInv

(* An answer finds the sender that has asked for it. *)
LEMMA RequestsReply ==
    ASSUME CalibrationInv, RequestsInv, NEW n \in Node, NEW a, K!Reply(n, a)
    PROVE  RequestsInv'
  <1> USE NodeFacts DEF K!Goto
  <1>1. /\ kpc \in [Node -> K!Location] /\ phase \in [Node -> {"ext", "on", "off"}]
        /\ kready \in [Node -> BOOLEAN]
    BY CalibrationTypesOK DEF CalibrationInv, CalibrationTypes
  <1>2. /\ kpc[n] = "reply" /\ kpc' = [kpc EXCEPT ![n] = "replied"]
        /\ UNCHANGED <<handler, phase, ksender, kreceiver, ktimer>>
    BY DEF K!Reply
  <1>3. PICK s \in Node \ {n} :
          /\ s = ksender[n] /\ Serves(s, n)
          /\ RequestedNow(n) => kpc[s] = "poll" /\ ktimer[s] > 0
          /\ kpc[s] = "send" => phase[n] = "ext" /\ ~ kready[n]
    <2>1. SenderAsks(n) /\ (Requested(n) \/ RequestedNow(n))
      BY <1>2 DEF RequestsInv, Requested, RequestedNow
    <2> QED
      BY <1>1, <1>2, <2>1 DEF SenderAsks, RequestedNow
  <1>4. kready' = kready \/ kready' = [kready EXCEPT ![s] = TRUE]
    BY <1>3 DEF K!Reply, K!SendPacket, K!OnReceive, K!exchanged
  <1>5. ASSUME NEW p \in Node
        PROVE  /\ CalibrationTurn(p)' /\ CalibrationReady(p)'
               /\ SenderAsks(p)' /\ AnsweredEarly(p)'
    <2>1. CalibrationTurn(p) /\ CalibrationReady(p) /\ SenderAsks(p) /\ AnsweredEarly(p)
          /\ CalibrationReady(s)
      BY DEF RequestsInv
    <2>2. CalibrationTurn(p)'
      BY <1>1, <1>2, <2>1 DEF CalibrationTurn
    <2>3. CalibrationReady(p)'
      BY <1>1, <1>2, <1>3, <1>4, <2>1 DEF CalibrationReady, Serves
    <2>4. (Requested(p)' => Requested(p) /\ p # n) /\ (RequestedNow(p)' => RequestedNow(p))
      <3>1. p # s => kready'[p] = kready[p]
        BY <1>1, <1>4
      <3>2. kpc'[s] = kpc[s]
        BY <1>1, <1>2, <1>3
      <3>3. CASE p = s
        BY <1>2, <1>3, <2>1, <3>2, <3>3 DEF Requested, RequestedNow, Serves
      <3>4. CASE p # s
        BY <1>1, <1>2, <3>1, <3>4 DEF Requested, RequestedNow
      <3> QED
        BY <3>3, <3>4
    <2>5. SenderAsks(p)'
      <3>1. ASSUME Requested(p)'
            PROVE  \E q \in Node \ {p} : q = ksender'[p] /\ Serves(q, p)' /\ ~ kready'[q]
        <4>1. PICK q \in Node \ {p} : q = ksender[p] /\ Serves(q, p) /\ ~ kready[q]
          BY <2>1, <2>4, <3>1 DEF SenderAsks
        <4>2. q # n /\ q # s
          BY <1>2, <1>3, <2>4, <3>1, <4>1 DEF Serves
        <4> QED
          BY <1>1, <1>2, <1>4, <4>1, <4>2 DEF Serves
      <3>2. ASSUME RequestedNow(p)'
            PROVE  \E q \in Node \ {p} : /\ q = ksender'[p] /\ Serves(q, p)'
                                         /\ kpc'[q] = "poll" /\ ktimer'[q] > 0
        <4>1. PICK q \in Node \ {p} : /\ q = ksender[p] /\ Serves(q, p)
                                      /\ kpc[q] = "poll" /\ ktimer[q] > 0
          BY <2>1, <2>4, <3>2 DEF SenderAsks
        <4> QED
          BY <1>1, <1>2, <4>1 DEF Serves
      <3> QED
        BY <3>1, <3>2 DEF SenderAsks
    <2>6. AnsweredEarly(p)'
      <3> SUFFICES ASSUME kready'[p], kpc'[p] = "send"
                   PROVE  AnsweredEarly(p)'
        BY DEF AnsweredEarly
      <3>1. kpc[p] = "send" /\ p # n
        BY <1>1, <1>2
      <3>2. CASE kready[p]
        <4>1. PICK q \in Node \ {p} :
                /\ q = kreceiver[p] /\ ksender[q] = p /\ ~ kready[q]
                /\ \/ phase[q] = "ext" /\ kpc[q] \in {"replied", "external"}
                   \/ phase[q] = "on" /\ kpc[q] = "wait"
          BY <2>1, <3>1, <3>2 DEF AnsweredEarly
        <4>2. q # n /\ q # s
          BY <1>2, <1>3, <4>1 DEF Serves
        <4> QED
          BY <1>1, <1>2, <1>4, <4>1, <4>2 DEF AnsweredEarly
      <3>3. CASE ~ kready[p]
        <4>1. p = s
          BY <1>1, <1>4, <3>3
        <4>2. kready'[n] = kready[n] /\ kpc'[n] = "replied"
          BY <1>1, <1>2, <1>3, <1>4
        <4> QED
          BY <1>2, <1>3, <3>1, <4>1, <4>2 DEF AnsweredEarly, Serves
      <3> QED
        BY <3>2, <3>3
    <2> QED
      BY <2>2, <2>3, <2>5, <2>6
  <1> QED
    BY <1>5 DEF RequestsInv

CallbacksInv == \A n \in Node : Callbacks(n)
CrossTalkInv == CallbacksInv /\ HandshakesInv /\ RequestsInv

LEMMA HandshakesFrame ==
    ASSUME HandshakesInv, UNCHANGED consensusVars,
           \A n \in Node : handler'[n] = "consensus" => handler[n] = "consensus"
    PROVE  HandshakesInv'
  BY DEF HandshakesInv, ExchangeTurn, ExchangeReady, SenderWaits, Took, consensusVars

LEMMA RequestsFrame ==
    ASSUME RequestsInv, UNCHANGED calibVars
    PROVE  RequestsInv'
  BY DEF RequestsInv, CalibrationTurn, CalibrationReady, SenderAsks, AnsweredEarly, Serves,
     Requested, RequestedNow, calibVars

LEMMA CrossTalkInit == Init => CrossTalkInv
  <1> SUFFICES ASSUME Init PROVE CrossTalkInv
    OBVIOUS
  <1>1. /\ handler = [n \in Node |-> "communication"] /\ loc = [n \in Node |-> "loop"]
        /\ cpc = [n \in Node |-> "idle"] /\ kpc = [n \in Node |-> "idle"]
        /\ csender = [n \in Node |-> 0] /\ ksender = [n \in Node |-> 0]
        /\ cready = [n \in Node |-> FALSE] /\ kready = [n \in Node |-> FALSE]
        /\ phase = [n \in Node |-> "ext"]
    BY SameNodes DEF Init, C!Init, K!Init
  <1>2. CallbacksInv
    BY <1>1 DEF CallbacksInv, Callbacks
  <1>3. HandshakesInv
    BY <1>1 DEF HandshakesInv, ExchangeTurn, ExchangeReady, SenderWaits, Took
  <1>4. RequestsInv
    BY <1>1 DEF RequestsInv, CalibrationTurn, CalibrationReady, SenderAsks, AnsweredEarly,
       Requested, RequestedNow
  <1> QED
    BY <1>2, <1>3, <1>4 DEF CrossTalkInv

(* Steps outside the procedures. *)
LEMMA CrossTalkFrame ==
    ASSUME CrossTalkInv, UNCHANGED <<handler, consensusVars, calibVars>>,
           \A n \in Node : /\ loc'[n] = "solving" <=> loc[n] = "solving"
                           /\ loc'[n] = "calibrating" <=> loc[n] = "calibrating"
    PROVE  CrossTalkInv'
  <1>1. CallbacksInv'
    BY DEF CrossTalkInv, CallbacksInv, Callbacks, consensusVars, calibVars
  <1>2. HandshakesInv' /\ RequestsInv'
    BY HandshakesFrame, RequestsFrame DEF CrossTalkInv
  <1> QED
    BY <1>1, <1>2 DEF CrossTalkInv

LEMMA CrossTalkMain ==
    ASSUME LocalInv, CrossTalkInv,
           \/ \E o \in Order : Type(o)
           \/ Master
           \/ \E n \in Node : \/ Update(n) \/ ClearReset(n) \/ ResetRef(n) \/ ResetBound(n)
                              \/ ResetMode(n) \/ ClearChanged(n) \/ React(n)
           \/ UNCHANGED vars
    PROVE  CrossTalkInv'
  <1>1. loc = [m \in Node |-> loc[m]]
    BY DEF LocalInv, MainTypeOK
  <1>2. CASE (\E o \in Order : Type(o)) \/ UNCHANGED vars
    BY <1>2, CrossTalkFrame DEF Type, vars, mainVars
  <1>3. CASE Master
    <2>1. /\ UNCHANGED <<handler, consensusVars, calibVars>>
          /\ \/ loc' = loc
             \/ /\ loc[MASTER] \in {"loop", "process", "forward"}
                /\ \E l \in {"process", "forward", "update"} :
                      loc' = [loc EXCEPT ![MASTER] = l]
      BY <1>3 DEF Master, ReadCommand, Process, Forward, Apply, Goto
    <2> QED
      BY <1>1, <2>1, CrossTalkFrame
  <1>4. ASSUME NEW n \in Node,
               \/ Update(n) \/ ClearReset(n) \/ ResetRef(n) \/ ResetBound(n)
               \/ ResetMode(n) \/ ClearChanged(n) \/ React(n)
        PROVE  CrossTalkInv'
    <2>1. UNCHANGED <<handler, consensusVars, calibVars>>
      BY <1>4 DEF Update, ClearReset, ResetRef, ResetBound, ResetMode, ClearChanged, React
    <2>2. loc[n] \notin {"solving", "calibrating"}
      BY <1>4 DEF Update, ClearReset, ResetRef, ResetBound, ResetMode, ClearChanged, React
    <2>3. PICK l : l \notin {"solving", "calibrating"} /\ loc' = [loc EXCEPT ![n] = l]
      BY <1>4 DEF Update, ClearReset, ResetRef, ResetBound, ResetMode, ClearChanged, React, Goto
    <2> QED
      BY <1>1, <2>1, <2>2, <2>3, CrossTalkFrame
  <1> QED
    BY <1>2, <1>3, <1>4

(* A step of the consensus: its callback is installed where it says. *)
LEMMA CallbacksExchange ==
    ASSUME LocalInv, ExchangeInv, CrossTalkInv, NEW n \in Node, Solve(n) \/ Consense(n)
    PROVE  CallbacksInv'
  <1> USE DEF C!Goto, Goto
  <1>1. /\ loc = [m \in Node |-> loc[m]] /\ handler \in [Node -> Callback]
        /\ cpc \in [Node -> C!Location] /\ Callbacks(n) /\ ExchangeBounds(n)
    BY SameNodes DEF LocalInv, MainTypeOK, ExchangeInv, C!TypeOK, CrossTalkInv, CallbacksInv
  <1>2. kpc' = kpc
    BY DEF Solve, Consense, calibVars
  <1>3. \A m \in Node : m # n => /\ handler'[m] = handler[m] /\ cpc'[m] = cpc[m]
                                 /\ loc'[m] = loc[m]
    <2>1. CASE Solve(n)
      BY <1>1, <2>1 DEF Solve, C!Solve
    <2>2. CASE Consense(n)
      <3>1. \A m \in Node : m # n => handler'[m] = handler[m] /\ loc'[m] = loc[m]
        BY <1>1, <2>2, ConsensusHandler DEF Consense, mainVars
      <3>2. CASE C!Local(n)
        BY <1>1, <3>1, <3>2, ExchangeLocalFrame
      <3>3. ASSUME NEW a, C!Transmit(n, a) \/ C!Reply(n, a)
            PROVE  \A m \in Node : m # n => cpc'[m] = cpc[m]
        BY <1>1, <3>3 DEF C!Transmit, C!Reply
      <3> QED
        BY <2>2, <3>1, <3>2, <3>3 DEF Consense, C!Step
    <2> QED
      BY <2>1, <2>2
  <1>4. Callbacks(n)'
    <2> USE DEF Callbacks
    <2>1. CASE Solve(n)
      <3>1. handler[n] = "communication" /\ kpc[n] = "idle"
        BY <1>1, <2>1 DEF Solve, LocalInv, Listens
      <3> QED
        BY <1>1, <1>2, <2>1, <3>1 DEF Solve, C!Solve
    <2>2. CASE Consense(n)
      <3>1. loc[n] = "solving" /\ loc' = loc /\ cpc[n] # "idle" /\ kpc[n] = "idle"
        BY <1>1, <2>2 DEF Consense, mainVars
      <3>2. CASE C!Install(n)
        BY <1>1, <1>2, <3>1, <3>2 DEF C!Install
      <3>3. CASE ~ C!Install(n)
        <4>1. handler' = handler /\ cpc'[n] # "idle"
              /\ (cpc'[n] \in {"minimise", "install"} \/ cpc[n] \notin {"minimise", "install"})
          <5>1. CASE C!Local(n)
            BY <1>1, <3>1, <3>3, <5>1 DEF C!Local, C!Solve, C!Fill, C!Enter, C!Turn,
               C!Target, C!NextReceiver, C!EndTurn, C!Poll, C!Clear, C!Heard, C!Take,
               C!Leave, C!Average, C!BeginStage
          <5>2. ASSUME NEW a, C!Transmit(n, a) \/ C!Reply(n, a)
                PROVE  handler' = handler /\ cpc'[n] \notin {"idle"} /\ cpc[n] \notin {"minimise", "install"}
            BY <1>1, <5>2 DEF C!Transmit, C!Reply
          <5> QED
            BY <2>2, <5>1, <5>2 DEF Consense, C!Step
        <4> QED
          BY <1>1, <1>2, <3>1, <4>1
      <3> QED
        BY <3>2, <3>3
    <2> QED
      BY <2>1, <2>2
  <1> QED
    BY <1>2, <1>3, <1>4 DEF CrossTalkInv, CallbacksInv, Callbacks

LEMMA CallbacksCalibration ==
    ASSUME LocalInv, CalibrationInv, CrossTalkInv, NEW n \in Node, Calibrate(n) \/ Measure(n)
    PROVE  CallbacksInv'
  <1> USE DEF K!Goto, Goto
  <1>1. /\ loc = [m \in Node |-> loc[m]] /\ handler \in [Node -> Callback]
        /\ kpc \in [Node -> K!Location] /\ Callbacks(n)
    <2>1. loc = [m \in Node |-> loc[m]] /\ handler \in [Node -> Callback]
      BY DEF LocalInv, MainTypeOK
    <2>2. kpc \in [Node -> K!Location]
      BY CalibrationTypesOK DEF CalibrationInv, CalibrationTypes
    <2> QED
      BY <2>1, <2>2 DEF CrossTalkInv, CallbacksInv
  <1>2. cpc' = cpc
    BY DEF Calibrate, Measure, consensusVars
  <1>3. \A m \in Node : m # n => /\ handler'[m] = handler[m] /\ kpc'[m] = kpc[m]
                                 /\ loc'[m] = loc[m]
    <2>1. CASE Calibrate(n)
      BY <1>1, <2>1 DEF Calibrate, K!Start
    <2>2. CASE Measure(n)
      <3>1. \A m \in Node : m # n => handler'[m] = handler[m] /\ loc'[m] = loc[m]
        BY <1>1, <2>2, CalibrationHandler DEF Measure, mainVars
      <3>2. CASE K!Local(n)
        BY <3>1, <3>2, CalibrationLocalFrame
      <3>3. ASSUME NEW a, K!Transmit(n, a) \/ K!Reply(n, a)
            PROVE  \A m \in Node : m # n => kpc'[m] = kpc[m]
        BY <1>1, <3>3 DEF K!Transmit, K!Reply
      <3> QED
        BY <2>2, <3>1, <3>2, <3>3 DEF Measure, K!Step
    <2> QED
      BY <2>1, <2>2
  <1>4. Callbacks(n)'
    <2> USE DEF Callbacks
    <2>1. CASE Calibrate(n)
      <3>1. handler[n] = "communication" /\ cpc[n] = "idle"
        BY <1>1, <2>1 DEF Calibrate, LocalInv, Listens
      <3> QED
        BY <1>1, <1>2, <2>1, <3>1 DEF Calibrate, K!Start
    <2>2. CASE Measure(n)
      <3>1. loc[n] = "calibrating" /\ loc' = loc /\ kpc[n] # "idle" /\ cpc[n] = "idle"
        BY <1>1, <2>2 DEF Measure, mainVars
      <3>2. CASE K!Install(n)
        BY <1>1, <1>2, <3>1, <3>2 DEF K!Install
      <3>3. CASE ~ K!Install(n)
        <4>1. handler' = handler /\ kpc[n] # "install" /\ kpc'[n] \notin {"idle", "install"}
          <5>1. CASE K!Local(n)
            BY <1>1, <3>1, <3>3, <5>1 DEF K!Local, K!Start, K!Unready, K!Begin, K!Settled,
               K!Target, K!NextReceiver, K!Poll, K!Clear, K!Heard, K!Take, K!External,
               K!FirstStage, K!TurnOff, K!WaitOff, K!Leave, K!BeginStage, K!EndStage,
               K!WriteLed
          <5>2. ASSUME NEW a, K!Transmit(n, a) \/ K!Reply(n, a)
                PROVE  handler' = handler /\ kpc[n] # "install" /\ kpc'[n] \notin {"idle", "install"}
            BY <1>1, <5>2 DEF K!Transmit, K!Reply
          <5> QED
            BY <2>2, <5>1, <5>2 DEF Measure, K!Step
        <4> QED
          BY <1>1, <1>2, <3>1, <4>1
      <3> QED
        BY <3>2, <3>3
    <2> QED
      BY <2>1, <2>2
  <1> QED
    BY <1>2, <1>3, <1>4 DEF CrossTalkInv, CallbacksInv, Callbacks

LEMMA CrossTalkProcedures ==
    ASSUME LocalInv, TypesInv, CrossTalkInv, NEW n \in Node,
           Solve(n) \/ Consense(n) \/ Calibrate(n) \/ Measure(n)
    PROVE  CrossTalkInv'
  <1>1. /\ MainTypeOK /\ ExchangeInv /\ CalibrationInv
        /\ CallbacksInv /\ HandshakesInv /\ RequestsInv /\ \A m \in Node : Callbacks(m)
    BY DEF LocalInv, TypesInv, CrossTalkInv, CallbacksInv
  <1>2. CASE Solve(n) \/ Consense(n)
    <2>1. C!Step(n) /\ UNCHANGED calibVars
      BY <1>2 DEF Solve, Consense, C!Step, C!Local
    <2>2. CallbacksInv'
      BY <1>1, <1>2, CallbacksExchange
    <2>3. HandshakesInv'
      BY <1>1, <2>1, HandshakesLocal, HandshakesTransmit, HandshakesReply DEF C!Step
    <2> QED
      BY <1>1, <2>1, <2>2, <2>3, RequestsFrame DEF CrossTalkInv
  <1>3. CASE Calibrate(n) \/ Measure(n)
    <2>1. K!Step(n) /\ UNCHANGED consensusVars
      BY <1>3 DEF Calibrate, Measure, K!Step, K!Local
    <2>2. CallbacksInv'
      BY <1>1, <1>3, CallbacksCalibration
    <2>3. RequestsInv'
      BY <1>1, <2>1, RequestsLocal, RequestsTransmit, RequestsReply DEF K!Step
    <2>4. \A m \in Node : handler'[m] = "consensus" => handler[m] = "consensus"
      <3>1. \A m \in Node : handler'[m] = "consensus" => cpc'[m] # "idle"
        BY <2>2 DEF CallbacksInv, Callbacks
      <3>2. \A m \in Node : m # n => handler'[m] = handler[m]
        BY <1>1, <2>1, CalibrationHandler DEF MainTypeOK
      <3>3. cpc[n] = "idle" /\ cpc' = cpc
        BY <1>1, <1>3 DEF Calibrate, Measure, Callbacks, consensusVars
      <3> QED
        BY <3>1, <3>2, <3>3
    <2> QED
      BY <1>1, <2>1, <2>2, <2>3, <2>4, HandshakesFrame DEF CrossTalkInv
  <1> QED
    BY <1>2, <1>3

(* A board that returns to its loop has no message left. *)
LEMMA CrossTalkReturns ==
    ASSUME LocalInv, TypesInv, CrossTalkInv, NEW n \in Node, Solved(n) \/ Calibrated(n)
    PROVE  CrossTalkInv'
  <1> USE DEF Goto
  <1>1. /\ CallbacksInv /\ HandshakesInv /\ RequestsInv /\ Callbacks(n)
        /\ loc = [m \in Node |-> loc[m]] /\ handler \in [Node -> Callback]
    BY DEF LocalInv, MainTypeOK, CrossTalkInv, CallbacksInv
  <1>2. cpc \in [Node -> C!Location] /\ kpc \in [Node -> K!Location]
    <2>1. cpc \in [Node -> C!Location]
      BY SameNodes DEF TypesInv, ExchangeInv, C!TypeOK
    <2> QED
      BY <2>1, CalibrationTypesOK DEF TypesInv, CalibrationInv, CalibrationTypes
  <1>3. CASE Solved(n)
    <2>1. /\ loc[n] = "solving" /\ cpc[n] = "done"
          /\ handler' = [handler EXCEPT ![n] = "communication"]
          /\ cpc' = [cpc EXCEPT ![n] = "idle"] /\ loc' = [loc EXCEPT ![n] = "loop"]
          /\ UNCHANGED <<csender, creceiver, cready, ctimer, calibVars>>
      BY <1>3 DEF Solved
    <2>2. CallbacksInv'
      BY <1>1, <1>2, <2>1 DEF CallbacksInv, Callbacks, calibVars
    <2>3. HandshakesInv'
      <3>1. ASSUME NEW m \in Node
            PROVE  ExchangeTurn(m)' /\ ExchangeReady(m)' /\ SenderWaits(m)'
        <4>1. ExchangeTurn(m) /\ ExchangeReady(m) /\ SenderWaits(m)
          BY <1>1 DEF HandshakesInv
        <4>2. ExchangeTurn(m)' /\ ExchangeReady(m)'
          BY <1>1, <1>2, <2>1, <4>1 DEF ExchangeTurn, ExchangeReady
        <4>3. Took(m)' => Took(m)
          BY <1>2, <2>1 DEF Took
        <4> QED
          BY <1>2, <2>1, <4>1, <4>2, <4>3 DEF SenderWaits
      <3> QED
        BY <3>1 DEF HandshakesInv
    <2> QED
      BY <1>1, <2>1, <2>2, <2>3, RequestsFrame DEF CrossTalkInv
  <1>4. CASE Calibrated(n)
    <2>1. /\ loc[n] = "calibrating" /\ kpc[n] = "done"
          /\ handler' = [handler EXCEPT ![n] = "communication"]
          /\ kpc' = [kpc EXCEPT ![n] = "idle"] /\ loc' = [loc EXCEPT ![n] = "loop"]
          /\ UNCHANGED <<consensusVars, phase, ksender, kreceiver, kready, ktimer>>
      BY <1>4 DEF Calibrated
    <2>2. CallbacksInv'
      BY <1>1, <1>2, <2>1 DEF CallbacksInv, Callbacks, consensusVars
    <2>3. RequestsInv'
      <3>1. ASSUME NEW m \in Node
            PROVE  /\ CalibrationTurn(m)' /\ CalibrationReady(m)'
                   /\ SenderAsks(m)' /\ AnsweredEarly(m)'
        <4>1. CalibrationTurn(m) /\ CalibrationReady(m) /\ SenderAsks(m) /\ AnsweredEarly(m)
          BY <1>1 DEF RequestsInv
        <4>2. CalibrationTurn(m)' /\ CalibrationReady(m)'
          BY <1>1, <1>2, <2>1, <4>1 DEF CalibrationTurn, CalibrationReady
        <4>3. (Requested(m)' => Requested(m)) /\ (RequestedNow(m)' => RequestedNow(m))
          BY <1>2, <2>1 DEF Requested, RequestedNow
        <4>4. SenderAsks(m)'
          BY <1>2, <2>1, <4>1, <4>3 DEF SenderAsks, Serves
        <4>5. AnsweredEarly(m)'
          BY <1>2, <2>1, <4>1 DEF AnsweredEarly
        <4> QED
          BY <4>2, <4>4, <4>5
      <3> QED
        BY <3>1 DEF RequestsInv
    <2>4. \A m \in Node : handler'[m] = "consensus" => handler[m] = "consensus"
      BY <1>1, <2>1
    <2> QED
      BY <1>1, <2>1, <2>2, <2>3, <2>4, HandshakesFrame DEF CrossTalkInv
  <1> QED
    BY <1>3, <1>4

(* No time passes while a board has something to answer at once. *)
LEMMA CrossTalkTick ==
    ASSUME TypesInv, CrossTalkInv, Tick PROVE CrossTalkInv'
  <1>1. /\ CallbacksInv /\ HandshakesInv /\ RequestsInv
        /\ UNCHANGED <<handler, loc, cpc, csender, creceiver, cready, kpc, phase, ksender,
                       kreceiver, kready>>
        /\ \A n \in Node : ~ Busy(n)
    BY DEF CrossTalkInv, Tick
  <1>2. CallbacksInv'
    BY <1>1 DEF CallbacksInv, Callbacks
  <1>3. ASSUME NEW n \in Node
        PROVE  /\ ~ Took(n) /\ ~ RequestedNow(n)
    <2>1. Callbacks(n) /\ CalibrationReady(n) /\ CalibrationTurn(n) /\ ~ Busy(n)
      BY <1>1 DEF CallbacksInv, RequestsInv
    <2>2. ~ Took(n)
      BY <2>1 DEF Callbacks, Took, Busy, C!Busy
    <2>3. ~ RequestedNow(n)
      BY <2>1 DEF Callbacks, RequestedNow, Busy, K!Busy
    <2> QED
      BY <2>2, <2>3
  <1>4. HandshakesInv'
    BY <1>1, <1>3 DEF HandshakesInv, ExchangeTurn, ExchangeReady, SenderWaits, Took
  <1>5. RequestsInv'
    <2>1. ASSUME NEW n \in Node
          PROVE  /\ CalibrationTurn(n)' /\ CalibrationReady(n)'
                 /\ SenderAsks(n)' /\ AnsweredEarly(n)'
      <3>1. CalibrationTurn(n) /\ CalibrationReady(n) /\ SenderAsks(n) /\ AnsweredEarly(n)
        BY <1>1 DEF RequestsInv
      <3>2. ~ RequestedNow(n)' /\ (Requested(n)' => Requested(n))
        BY <1>1, <1>3 DEF RequestedNow, Requested
      <3> QED
        BY <1>1, <3>1, <3>2 DEF CalibrationTurn, CalibrationReady, SenderAsks, AnsweredEarly,
           Serves
    <2> QED
      BY <2>1 DEF RequestsInv
  <1> QED
    BY <1>2, <1>4, <1>5 DEF CrossTalkInv

LEMMA CrossTalkStep ==
    LocalInv /\ TypesInv /\ CrossTalkInv /\ [Next]_vars => CrossTalkInv'
  <1> SUFFICES ASSUME LocalInv, TypesInv, CrossTalkInv, [Next]_vars PROVE CrossTalkInv'
    OBVIOUS
  <1> QED
    BY CrossTalkMain, CrossTalkProcedures, CrossTalkReturns, CrossTalkTick DEF Next, Board

(* However commands come, whatever is lost and in however different phases *)
(* or runs the boards are, an acknowledgement finds the callback of the    *)
(* procedure that it belongs to (getCopies, calibrate, onReceive): its     *)
(* sender is still in the retransmission loop that waits for it.           *)
THEOREM ProceduresApart == Spec => []NoCrossTalk
  <1>1. Init => LocalInv /\ TypesInv /\ CrossTalkInv
    BY LocalInit, TypesInit, CrossTalkInit
  <1>2. LocalInv /\ TypesInv /\ CrossTalkInv /\ [Next]_vars
          => (LocalInv /\ TypesInv /\ CrossTalkInv)'
    BY LocalStep, TypesStep, CrossTalkStep
  <1>3. ASSUME CrossTalkInv, NEW n \in Node
        PROVE  /\ cpc[n] = "reply" => handler[csender[n]] = "consensus"
               /\ kpc[n] = "reply" => handler[ksender[n]] = "calibration"
    <2>1. SenderWaits(n) /\ SenderAsks(n) /\ \A m \in Node : Callbacks(m)
      BY <1>3 DEF CrossTalkInv, HandshakesInv, RequestsInv, CallbacksInv
    <2>2. kpc[n] = "reply" => Requested(n) \/ RequestedNow(n)
      BY DEF Requested, RequestedNow
    <2> QED
      BY <2>1, <2>2 DEF SenderWaits, Took, SenderAsks, Serves, Callbacks
  <1>4. CrossTalkInv => NoCrossTalk
    BY <1>3 DEF NoCrossTalk
  <1> QED
    BY <1>1, <1>2, <1>4, PTL DEF Spec

-----------------------------------------------------------------------------
(* The runs of the consensus.  A position is a run and an iteration of it; *)
(* boards may be a position apart, and the handshakes keep them no further *)
(* apart than that.                                                        *)

(* When n is between its iterations. *)
Rounds(n) ==
    /\ cpc[n] = "idle" => iter[n] = IF runs[n] = 0 THEN 0 ELSE Iterations
    /\ cpc[n] = "done" => iter[n] = Iterations
    /\ cpc[n] # "idle" => runs[n] > 0

(* Who has taken a solution is where its sender is. *)
InStep(n) ==
    Took(n) => runs[csender[n]] = runs[n] /\ iter[csender[n]] = iter[n]

(* The stage that n is in: whose solution is being distributed. *)
Stage(n) ==
    IF cpc[n] \in {"idle", "minimise", "install", "enter", "done"} THEN 0 ELSE csender[n]

(* In its iteration n has the solution of m; it knows that m has its own. *)
Has(n, m) == m < Stage(n) \/ (m = Stage(n) /\ Took(n))
Acknowledged(n, m) ==
    \/ n < Stage(n)
    \/ /\ cpc[n] \in {"target", "poll", "send", "clear", "next"}
       /\ \/ m < creceiver[n]
          \/ m = creceiver[n] /\ (cready[n] \/ cpc[n] \in {"clear", "next"})

(* The same of iteration k of run r, which n may have left behind. *)
Past(n, r, k)            == runs[n] > r \/ (runs[n] = r /\ iter[n] > k)
Now(n, r, k)             == runs[n] = r /\ iter[n] = k
HasIn(n, m, r, k)          == Past(n, r, k) \/ (Now(n, r, k) /\ Has(n, m))
AcknowledgedIn(n, m, r, k) == Past(n, r, k) \/ (Now(n, r, k) /\ Acknowledged(n, m))

Run   == Nat \ {0}
Round == 0 .. Iterations - 1

(* No board believes that another has its solution before it has. *)
Barrier(n, m) ==
    \A r \in Run, k \in Round : AcknowledgedIn(n, m, r, k) => HasIn(m, n, r, k)

(* What n has added up, and what it has averaged last. *)
Sum(n) ==
    cpc[n] \notin {"idle", "minimise", "done"} =>
        \A m \in Node, k \in Round :
            copies[n][<<m, k>>] = IF m # n /\ k = iter[n] /\ Has(n, m) THEN 1 ELSE 0
Mean(n) ==
    \A m \in Node, k \in Round : average[n][<<m, k>>] = IF k + 1 = iter[n] THEN 1 ELSE 0

PositionsInv == \A n \in Node : Rounds(n) /\ InStep(n)
BarriersInv  == \A n, m \in Node : n # m => Barrier(n, m)
SumsInv      == \A n \in Node : Sum(n) /\ Mean(n)
RunsInv      == PositionsInv /\ BarriersInv /\ SumsInv

(* Types, in the form that the proofs about runs use. *)
ExchangeTypes ==
    /\ cpc \in [Node -> C!Location]
    /\ csender \in [Node -> 0 .. N] /\ creceiver \in [Node -> 0 .. N]
    /\ cready \in [Node -> BOOLEAN] /\ iter \in [Node -> 0 .. Iterations]
    /\ copies \in [Node -> [C!Solution -> Nat]] /\ average \in [Node -> [C!Solution -> Nat]]
    /\ runs \in [Node -> Nat] /\ ctimer \in [Node -> 0 .. Delay]

LEMMA ExchangeTypesOK == TypesInv => ExchangeTypes
  BY SameNodes DEF TypesInv, ExchangeInv, SettingsOK, C!TypeOK, ExchangeTypes

LEMMA SolutionFacts ==
    \A m \in Node, k \in Round : <<m, k>> \in C!Solution /\ C!None[<<m, k>>] = 0
  BY SameNodes DEF C!Solution, C!None, Round

LEMMA StageFacts ==
    ASSUME ExchangeTypes, HandshakesInv, NEW n \in Node
    PROVE  /\ Stage(n) \in 0 .. N
           /\ cpc[n] \in {"turn", "target", "poll", "send", "clear", "next"} => Stage(n) = n
           /\ cpc[n] = "average" => Stage(n) = N
           /\ Took(n) => Stage(n) = csender[n] /\ csender[n] \in Node \ {n}
           /\ Took(n) => cpc[n] \in {"enter", "wait", "take", "reply", "leave"}
  <1>1. /\ ExchangeTurn(n) /\ ExchangeReady(n) /\ SenderWaits(n)
        /\ csender[n] \in 0 .. N /\ cpc[n] \in C!Location /\ n \in 0 .. N /\ n # N
        /\ 0 \in 0 .. N /\ \A m \in Node : m \in 0 .. N /\ m # N
    BY DEF ExchangeTypes, HandshakesInv, Node
  <1>2. Stage(n) \in 0 .. N
    BY <1>1 DEF Stage
  <1>3. /\ cpc[n] \in {"turn", "target", "poll", "send", "clear", "next"} => Stage(n) = n
        /\ cpc[n] = "average" => Stage(n) = N
    BY <1>1 DEF Stage, ExchangeTurn
  <1>4. Took(n) => csender[n] \in Node \ {n}
    BY <1>1 DEF SenderWaits
  <1>5. Took(n) => cpc[n] \in {"enter", "wait", "take", "reply", "leave"}
    BY DEF Took
  <1>6. Took(n) => Stage(n) = csender[n]
    BY <1>1, <1>4, <1>5 DEF Stage, ExchangeTurn
  <1> QED
    BY <1>2, <1>3, <1>4, <1>5, <1>6

(* Nobody's progress is undone, and only an answer is an acknowledgement:  *)
(* what this asks of a step is enough to keep the barriers.                *)
LEMMA BarriersPreserved ==
    ASSUME BarriersInv,
           ASSUME NEW p \in Node, NEW q \in Node, p # q, NEW r \in Run, NEW k \in Round,
                  AcknowledgedIn(p, q, r, k)'
           PROVE  AcknowledgedIn(p, q, r, k) \/ HasIn(q, p, r, k),
           ASSUME NEW p \in Node, NEW q \in Node, p # q, NEW r \in Run, NEW k \in Round,
                  HasIn(p, q, r, k)
           PROVE  HasIn(p, q, r, k)'
    PROVE  BarriersInv'
  <1> SUFFICES ASSUME NEW p \in Node, NEW q \in Node, p # q, NEW r \in Run, NEW k \in Round,
                      AcknowledgedIn(p, q, r, k)'
               PROVE  HasIn(q, p, r, k)'
    BY DEF BarriersInv, Barrier, Run, Round
  <1>1. AcknowledgedIn(p, q, r, k) => HasIn(q, p, r, k)
    BY DEF BarriersInv, Barrier
  <1> QED
    BY <1>1

(* A sum is kept by a step that changes neither it nor what its board has. *)
LEMMA SumFrame ==
    ASSUME NEW n \in Node, Sum(n), copies'[n] = copies[n], iter'[n] = iter[n],
           cpc'[n] \notin {"idle", "minimise", "done"} => cpc[n] \notin {"idle", "minimise", "done"},
           \A m \in Node \ {n} : Has(n, m)' <=> Has(n, m)
    PROVE  Sum(n)'
  <1> SUFFICES ASSUME cpc'[n] \notin {"idle", "minimise", "done"},
                      NEW m \in Node, NEW k \in Round
               PROVE  copies'[n][<<m, k>>]
                        = IF m # n /\ k = iter'[n] /\ Has(n, m)' THEN 1 ELSE 0
    BY DEF Sum, Round
  <1>1. copies[n][<<m, k>>] = IF m # n /\ k = iter[n] /\ Has(n, m) THEN 1 ELSE 0
    BY DEF Sum
  <1> QED
    BY <1>1

(* Steps that do not touch the exchange, and time. *)
LEMMA RunsFrame ==
    ASSUME RunsInv, UNCHANGED <<runs, cpc, csender, creceiver, cready, iter, copies, average>>
    PROVE  RunsInv'
  BY DEF RunsInv, PositionsInv, BarriersInv, SumsInv, Rounds, InStep, Barrier, Sum, Mean, Took,
     Stage, Has, Acknowledged, Past, Now, HasIn, AcknowledgedIn, Run, Round

LEMMA RunsInit == Init => RunsInv
  <1> SUFFICES ASSUME Init PROVE RunsInv
    OBVIOUS
  <1>1. /\ cpc = [n \in Node |-> "idle"] /\ cready = [n \in Node |-> FALSE]
        /\ iter = [n \in Node |-> 0] /\ average = [n \in Node |-> C!None]
        /\ runs = [n \in Node |-> 0]
    BY SameNodes DEF Init, C!Init
  <1>2. PositionsInv
    BY <1>1 DEF PositionsInv, Rounds, InStep, Took
  <1>3. BarriersInv
    <2>1. ASSUME NEW n \in Node, NEW r \in Run, NEW k \in Round PROVE ~ Past(n, r, k)
      BY <1>1 DEF Past, Run, Round
    <2>2. ASSUME NEW n \in Node, NEW r \in Run, NEW k \in Round PROVE ~ Now(n, r, k)
      BY <1>1 DEF Now, Run
    <2> QED
      BY <2>1, <2>2 DEF BarriersInv, Barrier, AcknowledgedIn
  <1>4. SumsInv
    BY <1>1, SolutionFacts DEF SumsInv, Sum, Mean, Round
  <1> QED
    BY <1>2, <1>3, <1>4 DEF RunsInv

(* The steps of one board's program. *)
LEMMA RunsLocalFrame ==
    ASSUME ExchangeTypes, NEW n \in Node, C!Local(n), NEW m \in Node, m # n
    PROVE  /\ cpc'[m] = cpc[m] /\ csender'[m] = csender[m] /\ creceiver'[m] = creceiver[m]
           /\ cready'[m] = cready[m] /\ iter'[m] = iter[m] /\ copies'[m] = copies[m]
           /\ average'[m] = average[m] /\ (Took(m)' <=> Took(m)) /\ Stage(m)' = Stage(m)
  <1> USE DEF ExchangeTypes
  <1>1. /\ cpc'[m] = cpc[m] /\ csender'[m] = csender[m] /\ creceiver'[m] = creceiver[m]
        /\ cready'[m] = cready[m]
    BY ExchangeLocalFrame
  <1>2. iter'[m] = iter[m] /\ copies'[m] = copies[m] /\ average'[m] = average[m]
    BY DEF C!Local, C!Solve, C!Fill, C!Install, C!Enter, C!Turn, C!Target, C!NextReceiver,
       C!EndTurn, C!Poll, C!Clear, C!Heard, C!Take, C!Leave, C!Average, C!BeginStage
  <1> QED
    BY <1>1, <1>2 DEF Took, Stage

(* Within an iteration n neither gets nor loses a solution by itself... *)
LEMMA LocalHas ==
    ASSUME ExchangeTypes, HandshakesInv, NEW n \in Node, C!Local(n), cpc[n] # "idle",
           ~ C!Average(n), NEW m \in Node, m # n
    PROVE  Has(n, m)' <=> Has(n, m)
  <1> USE DEF Has, Stage, Took, C!Goto
  <1>1. /\ ExchangeTurn(n) /\ ExchangeReady(n) /\ cpc \in [Node -> C!Location]
        /\ csender \in [Node -> 0 .. N] /\ cready \in [Node -> BOOLEAN]
    BY DEF ExchangeTypes, HandshakesInv
  <1>2. csender[n] \in Int /\ n \in Int /\ m \in Int /\ ~ (m < 0) /\ N \in Int /\ n # N /\ m # N
    BY <1>1, NodeFacts DEF Node
  <1>3. CASE C!Fill(n) \/ C!Install(n)
    BY <1>1, <1>2, <1>3 DEF C!Fill, C!Install, ExchangeReady
  <1>4. CASE C!Enter(n)
    BY <1>1, <1>2, <1>4 DEF C!Enter, C!BeginStage, ExchangeReady, ExchangeTurn
  <1>5. CASE C!Turn(n) \/ C!Target(n) \/ C!NextReceiver(n)
    BY <1>1, <1>2, <1>5 DEF C!Turn, C!Target, C!NextReceiver, ExchangeReady
  <1>6. CASE C!EndTurn(n)
    BY <1>1, <1>2, <1>6 DEF C!EndTurn, C!BeginStage, ExchangeReady, ExchangeTurn
  <1>7. CASE C!Poll(n) \/ C!Clear(n)
    BY <1>1, <1>2, <1>7 DEF C!Poll, C!Clear, ExchangeReady
  <1>8. CASE C!Heard(n) \/ C!Take(n)
    BY <1>1, <1>2, <1>8 DEF C!Heard, C!Take, ExchangeReady
  <1>9. CASE C!Leave(n)
    BY <1>1, <1>2, <1>9 DEF C!Leave, C!BeginStage, ExchangeReady, ExchangeTurn
  <1>10. ~ C!Solve(n)
    BY DEF C!Solve
  <1> QED
    BY <1>3, <1>4, <1>5, <1>6, <1>7, <1>8, <1>9, <1>10 DEF C!Local

(* ... nor an acknowledgement. *)
LEMMA LocalAcknowledged ==
    ASSUME ExchangeTypes, HandshakesInv, NEW n \in Node, C!Local(n), cpc[n] # "idle",
           ~ C!Average(n), NEW m \in Node, m # n, Acknowledged(n, m)'
    PROVE  Acknowledged(n, m)
  <1> USE DEF Acknowledged, Stage, C!Goto
  <1>1. /\ ExchangeTurn(n) /\ ExchangeReady(n) /\ cpc \in [Node -> C!Location]
        /\ csender \in [Node -> 0 .. N] /\ creceiver \in [Node -> 0 .. N]
        /\ cready \in [Node -> BOOLEAN]
    BY DEF ExchangeTypes, HandshakesInv
  <1>2. /\ csender[n] \in Int /\ n \in Int /\ m \in Int /\ creceiver[n] \in Int
         /\ ~ (n < 0) /\ ~ (m < 0) /\ N \in Int /\ n # N /\ m # N /\ m < N
    BY <1>1 DEF Node
  <1>3. CASE C!Fill(n) \/ C!Install(n)
    BY <1>1, <1>2, <1>3 DEF C!Fill, C!Install
  <1>4. CASE C!Enter(n)
    BY <1>1, <1>2, <1>4 DEF C!Enter, C!BeginStage
  <1>5. CASE C!Turn(n) \/ C!Target(n)
    BY <1>1, <1>2, <1>5 DEF C!Turn, C!Target, ExchangeReady, ExchangeTurn
  <1>6. CASE C!NextReceiver(n)
    <2>1. /\ cpc[n] = "next" \/ (cpc[n] = "target" /\ creceiver[n] = n)
          /\ cpc'[n] = "target" /\ creceiver'[n] = creceiver[n] + 1
          /\ csender[n] = n /\ csender'[n] = n /\ cready'[n] = cready[n]
      BY <1>1, <1>2, <1>6 DEF C!NextReceiver, ExchangeTurn
    <2>2. ~ cready[n]
      BY <1>1, <1>2, <2>1 DEF ExchangeReady
    <2>3. m < creceiver[n] + 1
      BY <1>1, <1>2, <2>1, <2>2
    <2>4. m < creceiver[n] \/ m = creceiver[n]
      BY <1>1, <1>2, <2>3
    <2> QED
      BY <1>1, <1>2, <2>1, <2>4
  <1>7. CASE C!EndTurn(n)
    BY <1>1, <1>2, <1>7 DEF C!EndTurn
  <1>8. CASE C!Poll(n)
    BY <1>1, <1>2, <1>8 DEF C!Poll
  <1>9. CASE C!Clear(n)
    BY <1>1, <1>2, <1>9 DEF C!Clear, ExchangeReady
  <1>10. CASE C!Heard(n) \/ C!Take(n)
    BY <1>1, <1>2, <1>10 DEF C!Heard, C!Take
  <1>11. CASE C!Leave(n)
    <2>1. /\ cpc[n] = "leave" /\ csender'[n] = csender[n] + 1 /\ csender[n] # n
          /\ cpc'[n] \in {"average", "turn", "wait"}
      BY <1>1, <1>2, <1>11 DEF C!Leave, C!BeginStage, ExchangeTurn
    <2>2. n < csender[n] + 1
      BY <1>1, <1>2, <2>1
    <2>3. n < csender[n]
      BY <1>1, <1>2, <2>1, <2>2
    <2> QED
      BY <2>1, <2>3
  <1>12. ~ C!Solve(n)
    BY DEF C!Solve
  <1> QED
    BY <1>3, <1>4, <1>5, <1>6, <1>7, <1>8, <1>9, <1>10, <1>11, <1>12 DEF C!Local

(* It averages when it has, and knows that the others have, everything. *)
LEMMA AverageHas ==
    ASSUME ExchangeTypes, HandshakesInv, NEW n \in Node, C!Average(n), NEW m \in Node
    PROVE  /\ Has(n, m) /\ Acknowledged(n, m) /\ iter'[n] = iter[n] + 1
           /\ ~ Has(n, m)' /\ ~ Acknowledged(n, m)'
  <1>1. /\ ExchangeTurn(n) /\ ExchangeReady(n) /\ cpc \in [Node -> C!Location]
        /\ iter \in [Node -> 0 .. Iterations] /\ cpc[n] = "average"
        /\ cpc' = [cpc EXCEPT ![n] = IF iter[n] + 1 < Iterations THEN "minimise" ELSE "done"]
        /\ iter' = [iter EXCEPT ![n] = @ + 1] /\ cready' = cready
    BY DEF ExchangeTypes, HandshakesInv, C!Average, C!Goto
  <1>2. cpc'[n] \in {"minimise", "done"} /\ iter'[n] = iter[n] + 1 /\ ~ cready[n]
    BY <1>1 DEF ExchangeReady
  <1>3. n \in Int /\ m \in Int /\ n < N /\ m < N /\ ~ (n < 0) /\ ~ (m < 0)
    BY DEF Node
  <1>4. Stage(n) = N /\ Stage(n)' = 0
    BY <1>1, <1>2 DEF Stage, ExchangeTurn
  <1> QED
    BY <1>1, <1>2, <1>3, <1>4 DEF Has, Acknowledged, Took

(* No step of n's own takes a solution, and none disturbs who has taken its *)
(* own: n is delaying then.                                                 *)
LEMMA LocalTook ==
    ASSUME ExchangeTypes, HandshakesInv, NEW n \in Node, C!Local(n), cpc[n] # "idle",
           NEW m \in Node, Took(m)'
    PROVE  Took(m) /\ csender'[m] = csender[m] /\ csender[m] # n /\ iter'[m] = iter[m]
  <1>1. /\ ExchangeTurn(n) /\ ExchangeReady(n) /\ cpc \in [Node -> C!Location]
        /\ csender \in [Node -> 0 .. N] /\ cready \in [Node -> BOOLEAN]
        /\ ctimer \in [Node -> 0 .. Delay] /\ iter \in [Node -> 0 .. Iterations]
        /\ SenderWaits(m) /\ n # N
    BY NodeFacts DEF ExchangeTypes, HandshakesInv
  <1>2. CASE m = n
    <2>1. cpc'[n] \in {"take", "reply", "leave"} \/ (cready'[n] /\ cpc'[n] \in {"enter", "wait"})
      BY <1>2 DEF Took
    <2>2. C!Enter(n) \/ C!Heard(n) \/ C!Take(n)
      <3>1. CASE C!Fill(n) \/ C!Install(n) \/ C!Turn(n) \/ C!Target(n) \/ C!NextReceiver(n)
        BY <1>1, <2>1, <3>1 DEF ExchangeReady, C!Goto, C!Fill, C!Install, C!Turn, C!Target,
           C!NextReceiver
      <3>2. CASE C!EndTurn(n) \/ C!Leave(n)
        BY <1>1, <2>1, <3>2 DEF ExchangeReady, C!Goto, C!EndTurn, C!Leave, C!BeginStage
      <3>3. CASE C!Poll(n) \/ C!Clear(n) \/ C!Average(n)
        BY <1>1, <2>1, <3>3 DEF ExchangeReady, C!Goto, C!Poll, C!Clear, C!Average
      <3> QED
        BY <3>1, <3>2, <3>3 DEF C!Local, C!Solve
    <2>3. Took(n) /\ csender'[n] = csender[n] /\ iter' = iter
      <3>1. CASE C!Enter(n)
        <4>1. cpc[n] = "enter" /\ csender' = [csender EXCEPT ![n] = 0]
              /\ UNCHANGED <<iter, cready>> /\ cpc'[n] \in {"average", "turn", "wait"}
          BY <1>1, <3>1 DEF C!Enter, C!BeginStage, C!Goto
        <4>2. cready[n] /\ csender[n] \in Node /\ csender[n] \in {0, N}
          BY <1>1, <2>1, <4>1 DEF ExchangeReady, ExchangeTurn
        <4> QED
          BY <1>1, <4>1, <4>2 DEF Took, Node
      <3>2. CASE C!Heard(n) \/ C!Take(n)
        BY <1>1, <3>2 DEF Took, C!Heard, C!Take, C!Goto
      <3> QED
        BY <2>2, <3>1, <3>2
    <2>4. csender[n] # n
      BY <2>3, StageFacts
    <2> QED
      BY <1>2, <2>3, <2>4 DEF Took
  <1>3. CASE m # n
    <2>1. Took(m) /\ csender'[m] = csender[m] /\ iter'[m] = iter[m]
      BY <1>3, RunsLocalFrame
    <2>2. PICK s \in Node \ {m} : s = csender[m] /\ cpc[s] = "poll" /\ ctimer[s] > 0
      BY <1>1, <2>1 DEF SenderWaits
    <2>3. ctimer[s] # 0
      BY <1>1, <2>2
    <2>4. s # n
      BY <2>2, <2>3 DEF C!Local, C!Solve, C!Fill, C!Install, C!Enter, C!Turn, C!Target,
         C!NextReceiver, C!EndTurn, C!Poll, C!Clear, C!Heard, C!Take, C!Leave, C!Average
    <2> QED
      BY <2>1, <2>2, <2>4
  <1> QED
    BY <1>2, <1>3

LEMMA PositionsLocal ==
    ASSUME TypesInv, HandshakesInv, PositionsInv, NEW n \in Node, C!Local(n),
           cpc[n] # "idle", runs' = runs
    PROVE  PositionsInv'
  <1>1. ExchangeTypes /\ ExchangeBounds(n) /\ Rounds(n)
    BY ExchangeTypesOK DEF TypesInv, ExchangeInv, PositionsInv
  <1>2. ASSUME NEW m \in Node PROVE InStep(m)'
    <2> SUFFICES ASSUME Took(m)' PROVE InStep(m)'
      BY DEF InStep
    <2>1. Took(m) /\ csender'[m] = csender[m] /\ csender[m] # n /\ iter'[m] = iter[m]
      BY <1>1, LocalTook
    <2>2. csender[m] \in Node /\ InStep(m)
      BY <1>1, <2>1, StageFacts DEF PositionsInv
    <2>3. iter'[csender[m]] = iter[csender[m]]
      BY <1>1, <2>1, <2>2, RunsLocalFrame
    <2> QED
      BY <2>1, <2>2, <2>3 DEF InStep
  <1>3. Rounds(n)'
    <2>1. cpc \in [Node -> C!Location] /\ iter \in [Node -> 0 .. Iterations]
      BY <1>1 DEF ExchangeTypes
    <2>2. CASE C!Average(n)
      <3>1. /\ cpc[n] = "average" /\ iter'[n] = iter[n] + 1 /\ iter[n] \in 0 .. Iterations
            /\ cpc'[n] = IF iter[n] + 1 < Iterations THEN "minimise" ELSE "done"
        BY <2>1, <2>2 DEF C!Average, C!Goto
      <3>2. iter[n] < Iterations
        BY <1>1, <3>1 DEF ExchangeBounds
      <3> QED
        BY <1>1, <3>1, <3>2 DEF Rounds
    <2>3. CASE ~ C!Average(n)
      <3>1. iter' = iter /\ cpc'[n] \notin {"idle", "done"}
        BY <2>1, <2>3 DEF C!Local, C!Goto, C!Solve, C!Fill, C!Install, C!Enter, C!Turn,
           C!Target, C!NextReceiver, C!EndTurn, C!Poll, C!Clear, C!Heard, C!Take, C!Leave,
           C!BeginStage
      <3> QED
        BY <1>1, <3>1 DEF Rounds
    <2> QED
      BY <2>2, <2>3
  <1>4. ASSUME NEW m \in Node, m # n PROVE Rounds(m)'
    BY <1>1, <1>4, RunsLocalFrame DEF PositionsInv, Rounds
  <1> QED
    BY <1>2, <1>3, <1>4 DEF PositionsInv

(* The iteration is over when n averages, and goes on in any other step. *)
LEMMA LocalIter ==
    ASSUME NEW n \in Node, C!Local(n), cpc[n] # "idle", ~ C!Average(n)
    PROVE  iter' = iter /\ average' = average
  BY DEF C!Local, C!Solve, C!Fill, C!Install, C!Enter, C!Turn, C!Target, C!NextReceiver,
     C!EndTurn, C!Poll, C!Clear, C!Heard, C!Take, C!Leave, C!BeginStage

LEMMA BarriersLocal ==
    ASSUME TypesInv, HandshakesInv, BarriersInv, NEW n \in Node, C!Local(n),
           cpc[n] # "idle", runs' = runs
    PROVE  BarriersInv'
  <1>1. ExchangeTypes
    BY ExchangeTypesOK
  <1>2. ASSUME NEW p \in Node, NEW q \in Node, p # q, NEW r \in Run, NEW k \in Round
        PROVE  /\ AcknowledgedIn(p, q, r, k)' => AcknowledgedIn(p, q, r, k)
               /\ HasIn(p, q, r, k) => HasIn(p, q, r, k)'
    <2>1. CASE p # n
      <3>1. /\ cpc'[p] = cpc[p] /\ csender'[p] = csender[p] /\ creceiver'[p] = creceiver[p]
            /\ cready'[p] = cready[p] /\ iter'[p] = iter[p]
            /\ (Took(p)' <=> Took(p)) /\ Stage(p)' = Stage(p)
        BY <1>1, <2>1, RunsLocalFrame
      <3> QED
        BY <3>1 DEF AcknowledgedIn, HasIn, Past, Now, Has, Acknowledged
    <2>2. CASE p = n /\ C!Average(n)
      <3>1. /\ Has(n, q) /\ Acknowledged(n, q) /\ iter'[n] = iter[n] + 1
            /\ ~ Has(n, q)' /\ ~ Acknowledged(n, q)'
        BY <1>1, <2>2, AverageHas
      <3>2. iter[n] \in Int /\ k \in Int
        BY <1>1 DEF ExchangeTypes, Round
      <3>3. iter[n] + 1 > k <=> (iter[n] > k \/ iter[n] = k)
        BY <3>2
      <3>4. Past(n, r, k)' <=> Past(n, r, k) \/ Now(n, r, k)
        BY <3>1, <3>3 DEF Past, Now
      <3> QED
        BY <2>2, <3>1, <3>4 DEF AcknowledgedIn, HasIn
    <2>3. CASE p = n /\ ~ C!Average(n)
      <3>1. iter' = iter /\ (Has(n, q) <=> Has(n, q)')
            /\ (Acknowledged(n, q)' => Acknowledged(n, q))
        BY <1>1, <1>2, <2>3, LocalIter, LocalHas, LocalAcknowledged
      <3> QED
        BY <2>3, <3>1 DEF AcknowledgedIn, HasIn, Past, Now
    <2> QED
      BY <2>1, <2>2, <2>3
  <1> QED
    BY <1>2, BarriersPreserved

LEMMA SumsLocal ==
    ASSUME TypesInv, HandshakesInv, SumsInv, NEW n \in Node, C!Local(n), cpc[n] # "idle"
    PROVE  SumsInv'
  <1>1. ExchangeTypes /\ Sum(n) /\ Mean(n) /\ ExchangeReady(n)
    BY ExchangeTypesOK DEF SumsInv, HandshakesInv
  <1>2. ASSUME NEW m \in Node, m # n PROVE Sum(m)' /\ Mean(m)'
    <2>1. /\ cpc'[m] = cpc[m] /\ iter'[m] = iter[m] /\ copies'[m] = copies[m]
          /\ average'[m] = average[m] /\ (Took(m)' <=> Took(m)) /\ Stage(m)' = Stage(m)
      BY <1>1, <1>2, RunsLocalFrame
    <2>2. \A q \in Node : Has(m, q)' <=> Has(m, q)
      BY <2>1 DEF Has
    <2>3. Sum(m) /\ Mean(m)
      BY DEF SumsInv
    <2>4. Sum(m)'
      BY <2>1, <2>2, <2>3, SumFrame
    <2> QED
      BY <2>1, <2>3, <2>4 DEF Mean, Round
  <1>3. CASE C!Fill(n)
    <2>1. /\ cpc'[n] = "install" /\ copies'[n] = C!None /\ UNCHANGED <<iter, average, cready>>
          /\ cpc[n] = "minimise"
      BY <1>1, <1>3 DEF ExchangeTypes, C!Fill, C!Goto
    <2>2. ~ cready[n]
      BY <1>1, <2>1 DEF ExchangeReady
    <2>3. \A m \in Node : ~ Has(n, m)'
      BY <2>1, <2>2 DEF Has, Stage, Took, Node
    <2>4. Sum(n)'
      BY <2>1, <2>3, SolutionFacts DEF Sum, Round
    <2> QED
      BY <1>1, <1>2, <2>1, <2>4 DEF SumsInv, Mean, Round
  <1>4. CASE C!Average(n)
    <2>1. /\ cpc[n] = "average" /\ cpc'[n] \in {"minimise", "done"} /\ iter[n] \in Nat
          /\ iter'[n] = iter[n] + 1
          /\ average'[n] = [copies[n] EXCEPT ![<<n, iter[n]>>] = @ + 1]
          /\ copies[n] \in [C!Solution -> Nat]
      BY <1>1, <1>4 DEF ExchangeTypes, C!Average, C!Goto
    <2>2. ASSUME NEW m \in Node, NEW k \in Round
          PROVE  average'[n][<<m, k>>] = IF k + 1 = iter'[n] THEN 1 ELSE 0
      <3>1. copies[n][<<m, k>>] = IF m # n /\ k = iter[n] THEN 1 ELSE 0
        BY <1>1, <1>4, <2>1, AverageHas DEF Sum
      <3>2. <<m, k>> \in C!Solution
        BY SolutionFacts
      <3>3. <<m, k>> = <<n, iter[n]>> <=> m = n /\ k = iter[n]
        OBVIOUS
      <3>4. average'[n][<<m, k>>]
              = IF m = n /\ k = iter[n] THEN copies[n][<<m, k>>] + 1 ELSE copies[n][<<m, k>>]
        BY <2>1, <3>2, <3>3
      <3>5. k + 1 = iter[n] + 1 <=> k = iter[n]
        BY <2>1 DEF Round
      <3> QED
        BY <2>1, <3>1, <3>4, <3>5
    <2>3. Sum(n)' /\ Mean(n)'
      BY <2>1, <2>2 DEF Sum, Mean, Round
    <2> QED
      BY <1>2, <2>3 DEF SumsInv
  <1>5. CASE ~ (C!Fill(n) \/ C!Average(n))
    <2>1. UNCHANGED <<iter, average, copies>> /\ cpc[n] \notin {"idle", "minimise", "done"}
      BY <1>5 DEF C!Local, C!Solve, C!Install, C!Enter, C!Turn, C!Target, C!NextReceiver,
         C!EndTurn, C!Poll, C!Clear, C!Heard, C!Take, C!Leave, C!BeginStage
    <2>2. \A m \in Node \ {n} : Has(n, m)' <=> Has(n, m)
      BY <1>1, <1>5, LocalHas
    <2>3. Sum(n)'
      BY <1>1, <2>1, <2>2, SumFrame
    <2> QED
      BY <1>1, <1>2, <2>1, <2>3 DEF SumsInv, Mean, Round
  <1> QED
    BY <1>3, <1>4, <1>5

(* The two ends of a solution: who accepts it is in its sender's turn, run *)
(* and iteration, and does not have it yet.                                *)
LEMMA SolutionAccepted ==
    ASSUME TypesInv, CallbacksInv, HandshakesInv, PositionsInv, BarriersInv, NEW n \in Node,
           cpc[n] = "send", NEW m \in Node, m # n, C!Accepts(m, n, "CON")
    PROVE  /\ cpc[m] \in {"enter", "wait"} /\ csender[m] = n /\ Stage(m) = n /\ ~ Took(m)
           /\ ~ Has(m, n) /\ runs[m] = runs[n] /\ iter[m] = iter[n] /\ ~ cready[m]
  <1>1. /\ ExchangeTypes /\ ExchangeTurn(m) /\ SenderWaits(m) /\ Callbacks(m) /\ Stage(n) = n
        /\ ExchangeBounds(m) /\ ExchangeBounds(n) /\ Rounds(m) /\ Rounds(n)
    BY ExchangeTypesOK, StageFacts
       DEF HandshakesInv, CallbacksInv, PositionsInv, TypesInv, ExchangeInv
  <1>2. csender[m] = n /\ handler[m] = "consensus"
    BY DEF C!Accepts
  <1>3. ~ Took(m)
    BY <1>1, <1>2 DEF SenderWaits
  <1>4. cpc[m] \in {"enter", "wait"} /\ ~ cready[m] /\ (cpc[m] = "enter" => n = 0)
    <2>1. cpc[m] \in C!Location /\ cready[m] \in BOOLEAN /\ n # N
      BY <1>1, NodeFacts DEF ExchangeTypes
    <2> QED
      BY <1>1, <1>2, <1>3, <2>1 DEF ExchangeTurn, Callbacks, C!Location, Took
  <1>5. Stage(m) = n
    BY <1>2, <1>4 DEF Stage
  <1>6. ~ Has(m, n)
    BY <1>3, <1>5 DEF Has, Node
  <1>7. /\ runs[m] \in Run /\ runs[n] \in Run /\ iter[m] \in Round /\ iter[n] \in Round
        /\ runs[m] \in Nat /\ runs[n] \in Nat /\ iter[m] \in Int /\ iter[n] \in Int
    BY <1>1, <1>4 DEF ExchangeTypes, ExchangeBounds, Rounds, Run, Round
  <1>8. Barrier(n, m) /\ Barrier(m, n)
    BY DEF BarriersInv
  (* n cannot be ahead: m would have the solution of n. *)
  <1>9. ~ Past(n, runs[m], iter[m])
    <2> SUFFICES ASSUME Past(n, runs[m], iter[m]) PROVE FALSE
      OBVIOUS
    <2>1. HasIn(m, n, runs[m], iter[m])
      BY <1>7, <1>8 DEF AcknowledgedIn, Barrier
    <2>2. ~ Past(m, runs[m], iter[m])
      BY <1>7 DEF Past
    <2> QED
      BY <1>6, <2>1, <2>2 DEF HasIn
  (* Nor can m: n would have the solution of m, and m an answer to it. *)
  <1>10. ~ Past(m, runs[n], iter[n])
    <2> SUFFICES ASSUME Past(m, runs[n], iter[n]) PROVE FALSE
      OBVIOUS
    <2>1. HasIn(n, m, runs[n], iter[n])
      BY <1>7, <1>8 DEF AcknowledgedIn, Barrier
    <2>2. ~ Past(n, runs[n], iter[n])
      BY <1>7 DEF Past
    <2>3. ~ Took(n)
      BY DEF Took
    <2>4. m < n
      BY <1>1, <2>1, <2>2, <2>3 DEF HasIn, Has
    <2>5. AcknowledgedIn(m, n, runs[m], iter[m])
      BY <1>5, <2>4 DEF AcknowledgedIn, Acknowledged, Now
    <2>6. HasIn(n, m, runs[m], iter[m])
      BY <1>7, <1>8, <2>5 DEF Barrier
    <2>7. runs[n] > runs[m] \/ (runs[n] = runs[m] /\ (iter[n] > iter[m] \/ iter[n] = iter[m]))
      BY <2>6 DEF HasIn, Past, Now
    <2>8. runs[m] > runs[n] \/ (runs[m] = runs[n] /\ iter[m] > iter[n])
      BY DEF Past
    <2> QED
      BY <1>7, <2>7, <2>8
  <1>11. runs[m] = runs[n] /\ iter[m] = iter[n]
    BY <1>7, <1>9, <1>10 DEF Past
  <1> QED
    BY <1>2, <1>3, <1>4, <1>5, <1>6, <1>11

LEMMA RunsTransmit ==
    ASSUME TypesInv, CallbacksInv, HandshakesInv, RunsInv, NEW n \in Node, NEW a,
           C!Transmit(n, a), runs' = runs
    PROVE  RunsInv'
  <1>1. /\ ExchangeTypes /\ PositionsInv /\ BarriersInv /\ SumsInv
        /\ cpc \in [Node -> C!Location] /\ cready \in [Node -> BOOLEAN]
    BY ExchangeTypesOK DEF RunsInv, ExchangeTypes
  <1>2. /\ cpc[n] = "send" /\ cpc' = [cpc EXCEPT ![n] = "poll"]
        /\ UNCHANGED <<csender, creceiver, iter, average>>
    BY DEF C!Transmit, C!Goto
  <1>3. PICK m : m = creceiver[n]
    OBVIOUS
  <1>4. m \in Node \ {n} /\ ~ cready[n]
    BY <1>2, <1>3 DEF HandshakesInv, ExchangeTurn, ExchangeReady
  <1>5. \/ UNCHANGED <<cready, copies>>
        \/ /\ C!Accepts(m, n, "CON") /\ cready' = [cready EXCEPT ![m] = TRUE]
           /\ copies' = [copies EXCEPT ![m][<<n, iter[n]>>] = @ + 1]
    BY <1>3 DEF C!Transmit, C!SendPacket, C!OnReceive
  <1>6. C!Accepts(m, n, "CON") =>
           /\ cpc[m] \in {"enter", "wait"} /\ csender[m] = n /\ Stage(m) = n /\ ~ Took(m)
           /\ ~ Has(m, n) /\ runs[m] = runs[n] /\ iter[m] = iter[n] /\ ~ cready[m]
    BY <1>1, <1>2, <1>4, SolutionAccepted
  <1>7. /\ \A p \in Node : Stage(p)' = Stage(p)
        /\ \A p \in Node : p # n => cpc'[p] = cpc[p]
        /\ cpc'[n] = "poll"
    BY <1>1, <1>2 DEF Stage
  <1>8. ASSUME NEW p \in Node
        PROVE  /\ Took(p) => Took(p)'
               /\ Took(p)' => Took(p) \/ (p = m /\ cready' # cready)
    <2>1. CASE p = n
      BY <1>2, <1>7, <2>1 DEF Took
    <2>2. CASE p # n
      <3>1. cready[p] => cready'[p]
        BY <1>1, <1>5
      <3>2. cready'[p] => cready[p] \/ (p = m /\ cready' # cready)
        BY <1>1, <1>4, <1>5, <1>6
      <3> QED
        BY <1>7, <2>2, <3>1, <3>2 DEF Took
    <2> QED
      BY <2>1, <2>2
  <1>9. PositionsInv'
    <2>1. ASSUME NEW p \in Node PROVE Rounds(p)' /\ InStep(p)'
      <3>1. Rounds(p) /\ InStep(p)
        BY <1>1 DEF PositionsInv
      <3>2. Rounds(p)'
        BY <1>2, <1>7, <3>1 DEF Rounds
      <3>3. CASE Took(p)
        BY <1>2, <3>1, <3>2, <3>3 DEF InStep
      <3>4. CASE Took(p)' /\ ~ Took(p)
        <4>1. p = m /\ C!Accepts(m, n, "CON")
          BY <1>5, <1>8, <3>4
        <4> QED
          BY <1>2, <1>6, <3>2, <4>1 DEF InStep
      <3> QED
        BY <3>2, <3>3, <3>4 DEF InStep
    <2> QED
      BY <2>1 DEF PositionsInv
  <1>10. BarriersInv'
    <2>1. ASSUME NEW p \in Node, NEW q \in Node, p # q
          PROVE  /\ Has(p, q) => Has(p, q)'
                 /\ Acknowledged(p, q)' => Acknowledged(p, q)
      <3>1. Has(p, q) => Has(p, q)'
        BY <1>7, <1>8 DEF Has
      <3>2. CASE p = n
        <4>1. ~ cready'[n]
          BY <1>1, <1>4, <1>5
        <4> QED
          BY <1>2, <1>7, <3>1, <3>2, <4>1 DEF Acknowledged
      <3>3. CASE p # n
        <4>1. cpc[p] \in {"target", "poll", "send", "clear", "next"} => cready'[p] = cready[p]
          BY <1>1, <1>5, <1>6
        <4> QED
          BY <1>2, <1>7, <3>1, <3>3, <4>1 DEF Acknowledged
      <3> QED
        BY <3>2, <3>3
    <2>2. ASSUME NEW p \in Node, NEW q \in Node, p # q, NEW r \in Run, NEW k \in Round
          PROVE  /\ AcknowledgedIn(p, q, r, k)' => AcknowledgedIn(p, q, r, k)
                 /\ HasIn(p, q, r, k) => HasIn(p, q, r, k)'
      BY <1>2, <2>1, <2>2 DEF AcknowledgedIn, HasIn, Past, Now
    <2> QED
      BY <1>1, <2>2, BarriersPreserved
  <1>11. SumsInv'
    <2>1. ASSUME NEW p \in Node, p # m \/ UNCHANGED <<cready, copies>> PROVE Sum(p)'
      <3>1. copies'[p] = copies[p]
        BY <1>1, <1>5, <2>1 DEF ExchangeTypes
      <3>2. \A q \in Node : Has(p, q)' <=> Has(p, q)
        BY <1>7, <1>8, <2>1 DEF Has
      <3>3. cpc'[p] \notin {"idle", "minimise", "done"} => cpc[p] \notin {"idle", "minimise", "done"}
        BY <1>2, <1>7
      <3> QED
        BY <1>1, <1>2, <3>1, <3>2, <3>3, SumFrame DEF SumsInv
    <2>2. CASE ~ UNCHANGED <<cready, copies>>
      <3>1. /\ cpc[m] \in {"enter", "wait"} /\ Stage(m) = n /\ ~ Has(m, n) /\ ~ Took(m)
            /\ iter[m] = iter[n]
            /\ copies' = [copies EXCEPT ![m][<<n, iter[n]>>] = @ + 1] /\ cready'[m]
        BY <1>1, <1>4, <1>5, <1>6, <2>2
      <3>2. Took(m)' /\ Stage(m)' = n /\ cpc'[m] = cpc[m]
        BY <1>4, <1>7, <3>1 DEF Took
      <3>3. \A q \in Node : Has(m, q)' <=> (Has(m, q) \/ q = n)
        BY <3>1, <3>2 DEF Has
      <3>4. ASSUME NEW q \in Node, NEW k \in Round
            PROVE  copies'[m][<<q, k>>] = IF q # m /\ k = iter'[m] /\ Has(m, q)' THEN 1 ELSE 0
        <4>1. copies[m][<<q, k>>] = IF q # m /\ k = iter[m] /\ Has(m, q) THEN 1 ELSE 0
          BY <1>1, <1>4, <3>1 DEF SumsInv, Sum
        <4>2. <<q, k>> \in DOMAIN copies[m] /\ m \in DOMAIN copies
          BY <1>1, <1>4, SolutionFacts DEF ExchangeTypes
        <4>3. <<q, k>> = <<n, iter[n]>> <=> q = n /\ k = iter[n]
          OBVIOUS
        <4>4. copies'[m][<<q, k>>]
                = IF q = n /\ k = iter[n] THEN copies[m][<<q, k>>] + 1 ELSE copies[m][<<q, k>>]
          BY <3>1, <4>2, <4>3
        <4>5. CASE q = n /\ k = iter[n]
          BY <1>2, <1>4, <3>1, <3>3, <4>1, <4>4, <4>5
        <4>6. CASE ~ (q = n /\ k = iter[n])
          BY <1>2, <3>1, <3>3, <4>1, <4>4, <4>6
        <4> QED
          BY <4>5, <4>6
      <3>5. Sum(m)'
        BY <3>4 DEF Sum, Round
      <3> QED
        BY <1>1, <1>2, <2>1, <3>5 DEF SumsInv, Mean, Round
    <2>3. CASE UNCHANGED <<cready, copies>>
      BY <1>1, <1>2, <2>1, <2>3 DEF SumsInv, Mean, Round
    <2> QED
      BY <2>2, <2>3
  <1> QED
    BY <1>9, <1>10, <1>11 DEF RunsInv

(* An answer finds its sender where the board that gives it is. *)
LEMMA RunsReply ==
    ASSUME TypesInv, HandshakesInv, RunsInv, NEW n \in Node, NEW a,
           C!Reply(n, a), runs' = runs
    PROVE  RunsInv'
  <1>1. /\ ExchangeTypes /\ PositionsInv /\ BarriersInv /\ SumsInv
        /\ cpc \in [Node -> C!Location] /\ cready \in [Node -> BOOLEAN]
    BY ExchangeTypesOK DEF RunsInv, ExchangeTypes
  <1>2. /\ cpc[n] = "reply" /\ cpc' = [cpc EXCEPT ![n] = "leave"]
        /\ UNCHANGED <<csender, creceiver, iter, copies, average>>
    BY DEF C!Reply, C!Goto, C!SendPacket, C!OnReceive
  <1>3. Took(n) /\ SenderWaits(n) /\ InStep(n)
    BY <1>1, <1>2 DEF Took, HandshakesInv, PositionsInv
  <1>4. PICK s \in Node \ {n} : s = csender[n] /\ cpc[s] = "poll" /\ creceiver[s] = n
    BY <1>3 DEF SenderWaits
  <1>5. cready' = cready \/ cready' = [cready EXCEPT ![s] = TRUE]
    BY <1>4 DEF C!Reply, C!SendPacket, C!OnReceive
  <1>6. runs[s] = runs[n] /\ iter[s] = iter[n] /\ Has(n, s)
    BY <1>1, <1>3, <1>4, StageFacts DEF InStep, Has
  <1>7. /\ \A p \in Node : Stage(p)' = Stage(p)
        /\ \A p \in Node : p # n => cpc'[p] = cpc[p]
        /\ cpc'[n] = "leave"
    BY <1>1, <1>2 DEF Stage
  <1>8. \A p \in Node : p # s => cready'[p] = cready[p]
    BY <1>1, <1>5
  <1>9. ASSUME NEW p \in Node PROVE Took(p)' <=> Took(p)
    BY <1>2, <1>4, <1>7, <1>8 DEF Took
  <1>10. PositionsInv'
    BY <1>1, <1>2, <1>7, <1>9 DEF PositionsInv, Rounds, InStep
  <1>11. BarriersInv'
    <2>1. ASSUME NEW p \in Node, NEW q \in Node, p # q
          PROVE  /\ Has(p, q) => Has(p, q)'
                 /\ Acknowledged(p, q)' => Acknowledged(p, q) \/ (p = s /\ q = n)
      <3>1. Has(p, q) => Has(p, q)'
        BY <1>7, <1>9 DEF Has
      <3>2. CASE p = s
        BY <1>2, <1>4, <1>7, <3>1, <3>2 DEF Acknowledged
      <3>3. CASE p # s
        BY <1>2, <1>7, <1>8, <3>1, <3>3 DEF Acknowledged
      <3> QED
        BY <3>2, <3>3
    <2>2. ASSUME NEW p \in Node, NEW q \in Node, p # q, NEW r \in Run, NEW k \in Round
          PROVE  /\ AcknowledgedIn(p, q, r, k)' => AcknowledgedIn(p, q, r, k) \/ HasIn(q, p, r, k)
                 /\ HasIn(p, q, r, k) => HasIn(p, q, r, k)'
      BY <1>2, <1>6, <2>1, <2>2 DEF AcknowledgedIn, HasIn, Past, Now
    <2> QED
      BY <1>1, <2>2, BarriersPreserved
  <1>12. SumsInv'
    <2>1. ASSUME NEW p \in Node PROVE Sum(p)'
      <3>1. \A q \in Node : Has(p, q)' <=> Has(p, q)
        BY <1>7, <1>9 DEF Has
      <3>2. cpc'[p] \notin {"idle", "minimise", "done"} => cpc[p] \notin {"idle", "minimise", "done"}
        BY <1>2, <1>7
      <3> QED
        BY <1>1, <1>2, <3>1, <3>2, SumFrame DEF SumsInv
    <2> QED
      BY <1>1, <1>2, <2>1 DEF SumsInv, Mean, Round
  <1> QED
    BY <1>10, <1>11, <1>12 DEF RunsInv

(* Between two runs a board is past the last iteration of the one before,  *)
(* and before the first of the next.                                       *)
LEMMA RunsBetween ==
    ASSUME TypesInv, HandshakesInv, RunsInv, NEW n \in Node,
           \/ C!Solve(n) /\ runs' = [runs EXCEPT ![n] = @ + 1]
           \/ /\ cpc[n] = "done" /\ cpc' = [cpc EXCEPT ![n] = "idle"]
              /\ UNCHANGED <<runs, csender, creceiver, cready, iter, copies, average>>
    PROVE  RunsInv'
  <1> DEFINE first == cpc[n] = "idle"
  <1>1. /\ ExchangeTypes /\ PositionsInv /\ BarriersInv /\ SumsInv
        /\ cpc \in [Node -> C!Location] /\ iter \in [Node -> 0 .. Iterations]
        /\ average = [m \in Node |-> average[m]] /\ runs \in [Node -> Nat]
        /\ Rounds(n) /\ Mean(n)
    BY ExchangeTypesOK DEF RunsInv, ExchangeTypes, PositionsInv, SumsInv
  <1>2. /\ UNCHANGED <<csender, creceiver, cready, copies>>
        /\ cpc[n] \in {"idle", "done"}
        /\ cpc'[n] = IF first THEN "minimise" ELSE "idle"
        /\ iter'[n] = IF first THEN 0 ELSE iter[n]
        /\ average'[n] = IF first THEN C!None ELSE average[n]
        /\ runs'[n] = IF first THEN runs[n] + 1 ELSE runs[n]
        /\ iter[n] = IF first /\ runs[n] = 0 THEN 0 ELSE Iterations
        /\ ~ first => runs[n] > 0
    BY <1>1 DEF C!Solve, C!Goto, Rounds
  <1>3. \A m \in Node : m # n => /\ cpc'[m] = cpc[m] /\ iter'[m] = iter[m]
                                 /\ average'[m] = average[m] /\ runs'[m] = runs[m]
    BY <1>1 DEF C!Solve, C!Goto
  <1>4. /\ ~ Took(n) /\ ~ Took(n)' /\ Stage(n) = 0 /\ Stage(n)' = 0
        /\ \A m \in Node : m # n => (Took(m)' <=> Took(m)) /\ Stage(m)' = Stage(m)
    BY <1>2, <1>3 DEF Took, Stage
  <1>5. PositionsInv'
    <2>1. ASSUME NEW m \in Node PROVE InStep(m)'
      <3> SUFFICES ASSUME Took(m)' PROVE InStep(m)'
        BY DEF InStep
      <3>1. m # n /\ Took(m) /\ SenderWaits(m) /\ InStep(m)
        BY <1>1, <1>4 DEF HandshakesInv, PositionsInv
      <3>2. PICK s \in Node \ {m} : s = csender[m] /\ cpc[s] = "poll"
        BY <3>1 DEF SenderWaits
      <3>3. s # n
        BY <1>2, <3>2
      <3> QED
        BY <1>2, <1>3, <3>1, <3>2, <3>3 DEF InStep
    <2>2. Rounds(n)'
      BY <1>1, <1>2 DEF Rounds
    <2>3. ASSUME NEW m \in Node, m # n PROVE Rounds(m)'
      BY <1>1, <1>3, <2>3 DEF PositionsInv, Rounds
    <2> QED
      BY <2>1, <2>2, <2>3 DEF PositionsInv
  <1>6. BarriersInv'
    <2>1. ASSUME NEW r \in Run, NEW k \in Round
          PROVE  Past(n, r, k)' <=> Past(n, r, k)
      <3>1. /\ r \in Int /\ r > 0 /\ k \in Int /\ ~ (0 > k) /\ Iterations > k /\ runs[n] \in Nat
        BY <1>1 DEF Run, Round
      <3>2. CASE first
        <4>1. Past(n, r, k)' <=> runs[n] + 1 > r
          BY <1>2, <3>1, <3>2 DEF Past
        <4>2. CASE runs[n] = 0
          BY <1>2, <3>1, <3>2, <4>1, <4>2 DEF Past
        <4>3. CASE runs[n] # 0
          BY <1>2, <3>1, <3>2, <4>1, <4>3 DEF Past
        <4> QED
          BY <4>2, <4>3
      <3>3. CASE ~ first
        BY <1>2, <3>3 DEF Past
      <3> QED
        BY <3>2, <3>3
    <2>2. ASSUME NEW m \in Node
          PROVE  ~ Has(n, m) /\ ~ Acknowledged(n, m) /\ ~ Acknowledged(n, m)'
      <3>1. ~ (m < 0) /\ ~ (n < 0)
        BY DEF Node
      <3> QED
        BY <1>2, <1>4, <3>1 DEF Has, Acknowledged
    <2>3. ASSUME NEW p \in Node, NEW q \in Node, p # q, NEW r \in Run, NEW k \in Round
          PROVE  /\ AcknowledgedIn(p, q, r, k)' => AcknowledgedIn(p, q, r, k)
                 /\ HasIn(p, q, r, k) => HasIn(p, q, r, k)'
      <3>1. CASE p = n
        BY <2>1, <2>2, <3>1 DEF AcknowledgedIn, HasIn
      <3>2. CASE p # n
        BY <1>2, <1>3, <1>4, <3>2 DEF AcknowledgedIn, HasIn, Past, Now, Has, Acknowledged
      <3> QED
        BY <3>1, <3>2
    <2> QED
      BY <1>1, <2>3, BarriersPreserved
  <1>7. SumsInv'
    <2>1. Sum(n)'
      BY <1>2 DEF Sum
    <2>2. Mean(n)'
      <3>1. \A k \in Round : k + 1 # 0
        BY DEF Round
      <3>2. CASE first
        <4>1. \A m \in Node, k \in Round : average'[n][<<m, k>>] = 0
          BY <1>2, <3>2, SolutionFacts
        <4>2. iter'[n] = 0
          BY <1>2, <3>2
        <4> QED
          BY <3>1, <4>1, <4>2 DEF Mean, Round
      <3>3. CASE ~ first
        <4>1. iter'[n] = iter[n] /\ average'[n] = average[n]
          BY <1>2, <3>3
        <4>2. Mean(n)
          BY <1>1
        <4> QED
          BY <4>1, <4>2 DEF Mean, Round
      <3> QED
        BY <3>2, <3>3
    <2>3. ASSUME NEW m \in Node, m # n PROVE Sum(m)' /\ Mean(m)'
      <3>1. Sum(m) /\ Mean(m)
        BY <1>1 DEF SumsInv
      <3>2. \A q \in Node : Has(m, q)' <=> Has(m, q)
        BY <1>4, <2>3 DEF Has
      <3>3. Sum(m)'
        BY <1>2, <1>3, <2>3, <3>1, <3>2, SumFrame
      <3> QED
        BY <1>3, <2>3, <3>1, <3>3 DEF Mean, Round
    <2> QED
      BY <2>1, <2>2, <2>3 DEF SumsInv
  <1> QED
    BY <1>5, <1>6, <1>7 DEF RunsInv

LEMMA RunsStep ==
    LocalInv /\ TypesInv /\ CrossTalkInv /\ RunsInv /\ [Next]_vars => RunsInv'
  <1> SUFFICES ASSUME LocalInv, TypesInv, CrossTalkInv, RunsInv, [Next]_vars
               PROVE  RunsInv'
    OBVIOUS
  <1>1. CallbacksInv /\ HandshakesInv /\ PositionsInv /\ BarriersInv /\ SumsInv
    BY DEF CrossTalkInv, RunsInv
  <1>2. CASE \/ \E o \in Order : Type(o)
             \/ Master
             \/ \E n \in Node : \/ Update(n) \/ ClearReset(n) \/ ResetRef(n) \/ ResetBound(n)
                                \/ ResetMode(n) \/ ClearChanged(n) \/ React(n)
                                \/ Calibrate(n) \/ Calibrated(n) \/ Measure(n)
             \/ Tick \/ UNCHANGED vars
    <2>1. UNCHANGED <<runs, cpc, csender, creceiver, cready, iter, copies, average>>
      <3>1. CASE Master
        BY <3>1 DEF Master, ReadCommand, Process, Forward, Apply, line, consensusVars
      <3>2. CASE (\E o \in Order : Type(o)) \/ Tick \/ UNCHANGED vars
        BY <3>2 DEF Type, Tick, vars, line, consensusVars
      <3>3. ASSUME NEW n \in Node,
                   \/ Update(n) \/ ClearReset(n) \/ ResetRef(n) \/ ResetBound(n)
                   \/ ResetMode(n) \/ ClearChanged(n) \/ React(n)
                   \/ Calibrate(n) \/ Calibrated(n) \/ Measure(n)
            PROVE  UNCHANGED <<runs, cpc, csender, creceiver, cready, iter, copies, average>>
        BY <3>3 DEF Update, ClearReset, ResetRef, ResetBound, ResetMode, ClearChanged, React,
           Calibrate, Calibrated, Measure, line, consensusVars
      <3> QED
        BY <1>2, <3>1, <3>2, <3>3
    <2> QED
      BY <2>1, RunsFrame
  <1>3. ASSUME NEW n \in Node, Solve(n) \/ Solved(n) PROVE RunsInv'
    BY <1>1, <1>3, RunsBetween DEF Solve, Solved, line
  <1>4. ASSUME NEW n \in Node, Consense(n) PROVE RunsInv'
    <2>1. runs' = runs /\ cpc[n] # "idle" /\ C!Step(n)
      BY <1>1, <1>4 DEF Consense, line, CallbacksInv, Callbacks
    <2>2. CASE C!Local(n)
      BY <1>1, <2>1, <2>2, PositionsLocal, BarriersLocal, SumsLocal DEF RunsInv
    <2> QED
      BY <1>1, <2>1, <2>2, RunsTransmit, RunsReply DEF C!Step
  <1> QED
    BY <1>2, <1>3, <1>4 DEF Next, Board

(* However commands come, whatever is lost and in however different phases *)
(* boards are: once they are quiet all have run the consensus as often,    *)
(* and the last time they have averaged the same solutions (doConsensus,   *)
(* solve, getCopies).                                                      *)
THEOREM ConsensusTogether == Spec => []SameConsensus
  <1>1. Init => LocalInv /\ TypesInv /\ CrossTalkInv /\ RunsInv
    BY LocalInit, TypesInit, CrossTalkInit, RunsInit
  <1>2. LocalInv /\ TypesInv /\ CrossTalkInv /\ RunsInv /\ [Next]_vars
          => (LocalInv /\ TypesInv /\ CrossTalkInv /\ RunsInv)'
    BY LocalStep, TypesStep, CrossTalkStep, RunsStep
  <1>3. ASSUME TypesInv, CrossTalkInv, RunsInv, Quiet, NEW n \in Node, NEW m \in Node
        PROVE  runs[n] = runs[m] /\ average[n] = average[m]
    <2>1. ExchangeTypes
      BY <1>3, ExchangeTypesOK
    <2>2. \A p \in Node : cpc[p] = "idle" /\ Rounds(p) /\ Mean(p)
      BY <1>3 DEF Quiet, CrossTalkInv, CallbacksInv, Callbacks, RunsInv, PositionsInv, SumsInv
    (* Who has completed a run knows that the others have all its solutions. *)
    <2>3. ASSUME NEW p \in Node, NEW q \in Node PROVE ~ (runs[p] > runs[q])
      <3> SUFFICES ASSUME runs[p] > runs[q] PROVE FALSE
        OBVIOUS
      <3> DEFINE last == Iterations - 1
      <3>1. /\ runs[p] \in Run /\ last \in Round /\ p # q /\ Iterations > last
            /\ runs[p] \in Nat /\ runs[q] \in Nat
        BY <2>1 DEF ExchangeTypes, Run, Round
      <3>2. iter[p] = Iterations
        BY <2>2, <3>1 DEF Rounds, Run
      <3>3. AcknowledgedIn(p, q, runs[p], last)
        BY <3>1, <3>2 DEF AcknowledgedIn, Past
      <3>4. HasIn(q, p, runs[p], last)
        BY <1>3, <3>1, <3>3 DEF RunsInv, BarriersInv, Barrier
      <3> QED
        BY <3>1, <3>4 DEF HasIn, Past, Now
    <2>4. runs[n] = runs[m]
      <3>1. runs[n] \in Nat /\ runs[m] \in Nat
        BY <2>1 DEF ExchangeTypes
      <3>2. ~ (runs[n] > runs[m]) /\ ~ (runs[m] > runs[n])
        BY <2>3
      <3> QED
        BY <3>1, <3>2
    <2>5. iter[n] = iter[m]
      BY <2>2, <2>4 DEF Rounds
    <2>6. average[n] \in [C!Solution -> Nat] /\ average[m] \in [C!Solution -> Nat]
      BY <2>1 DEF ExchangeTypes
    <2>7. \A s \in C!Solution : average[n][s] = average[m][s]
      BY <2>2, <2>5, SameNodes DEF C!Solution, Mean, Round
    <2> QED
      BY <2>4, <2>6, <2>7
  <1>4. TypesInv /\ CrossTalkInv /\ RunsInv => SameConsensus
    BY <1>3 DEF SameConsensus
  <1> QED
    BY <1>1, <1>2, <1>4, PTL DEF Spec

-----------------------------------------------------------------------------
(* Commands. *)

LEMMA CommandsInit == Init => CommandsInv
  <1> SUFFICES ASSUME Init PROVE CommandsInv
    OBVIOUS
  <1>1. /\ serial = <<>> /\ Len(serial) = 0
        /\ \A n \in Node : /\ loc[n] = "loop" /\ ~ reset[n]
                           /\ wanted.bound[n] = bound[n] /\ wanted.distributed = distributed[n]
    BY DEF Init
  <1>2. \A n \in Node : ~ Untold(n) /\ Obeys(n)
    BY <1>1, NodeFacts DEF Untold, Obeys, Resetting
  <1> QED
    BY <1>1, <1>2 DEF CommandsInv

(* A command is typed: no other is being executed, all boards hear of it. *)
LEMMA CommandTyped ==
    ASSUME LocalInv, CommandsInv, NEW o \in Order, Type(o)
    PROVE  CommandsInv'
  <1> SUFFICES ASSUME ~ rushed'
               PROVE  Len(serial') <= 1 /\ \A n \in Node : Untold(n)' /\ AtRest(n)'
                                                           /\ Promised(n, Current)'
    BY DEF CommandsInv
  <1>1. /\ serial' = Append(serial, o) /\ wanted' = Executed(o)
        /\ ~ rushed /\ Quiet
        /\ UNCHANGED mainVars
    BY DEF Type
  <1>2. MainTypeOK /\ serial = <<>>
    BY <1>1 DEF LocalInv, Quiet
  <1>3. serial' = <<o>> /\ serial' # <<>> /\ Head(serial') = o /\ Len(serial') = 1
    BY <1>1, <1>2
  <1>4. ASSUME NEW n \in Node PROVE Untold(n)' /\ AtRest(n)'
    BY <1>1, <1>3 DEF Untold, AtRest, Quiet, mainVars, flags
  <1>5. ASSUME NEW n \in Node PROVE Promised(n, Current)'
    <2>1. Obeys(n) /\ loc[n] = "loop" /\ ~ reset[n]
      BY <1>1, <1>2, NodeFacts DEF CommandsInv, Untold, Quiet
    <2>2. wanted.bound[n] = bound[n] /\ wanted.distributed = distributed[n]
      BY <2>1 DEF Obeys, Resetting
    <2>3. /\ wanted'.bound[n] = IF o.op = "RES" THEN LOW_LUX
                                ELSE IF o.op = "ICO" /\ o.node = n THEN o.lux ELSE bound[n]
          /\ wanted'.distributed = IF o.op \in {"RES", "DON"} THEN TRUE
                                   ELSE IF o.op = "DOF" THEN FALSE ELSE distributed[n]
      BY <1>1, <1>2, <2>2, OrderFacts DEF Executed, MainTypeOK
    <2>4. bound' = bound /\ distributed' = distributed /\ Current' = o
      BY <1>1, <1>3 DEF mainVars, flags, Current
    <2> QED
      BY <2>3, <2>4 DEF Promised
  <1> QED
    BY <1>3, <1>4, <1>5

(* The master takes it from the line. *)
LEMMA CommandRead ==
    ASSUME LocalInv, CommandsInv, ReadCommand
    PROVE  CommandsInv'
  <1> SUFFICES ASSUME ~ rushed'
               PROVE  Len(serial') <= 1 /\ \A n \in Node : Untold(n)' /\ AtRest(n)'
                                                           /\ Promised(n, Current)'
    BY DEF CommandsInv
  <1>1. /\ loc[MASTER] = "loop" /\ serial # <<>>
        /\ command' = Head(serial) /\ serial' = Tail(serial)
        /\ loc' = [loc EXCEPT ![MASTER] = "process"]
        /\ UNCHANGED <<mode, reset, changed, distributed, bound, wanted, rushed>>
    BY DEF ReadCommand, Goto, flags
  <1>2. MainTypeOK /\ serial \in Seq(Order) /\ Len(serial) <= 1
    BY <1>1 DEF LocalInv, MainTypeOK, CommandsInv
  <1>3. serial' = <<>> /\ Len(serial') <= 1
    BY <1>1, <1>2
  <1>4. /\ loc'[MASTER] = "process"
        /\ \A m \in Node : m # MASTER => loc'[m] = loc[m]
    BY <1>1, <1>2, NodeFacts DEF MainTypeOK
  <1>5. Current' = Current
    BY <1>1, <1>3 DEF Current
  <1>6. ASSUME NEW n \in Node PROVE AtRest(n) /\ Promised(n, Current)
    BY <1>1 DEF CommandsInv, Untold
  <1>7. ASSUME NEW n \in Node PROVE Untold(n)' /\ AtRest(n)'
    BY <1>1, <1>3, <1>4, <1>6 DEF Untold, AtRest
  <1>8. ASSUME NEW n \in Node PROVE Promised(n, Current)'
    BY <1>1, <1>5, <1>6 DEF Promised
  <1> QED
    BY <1>3, <1>7, <1>8

(* While the master has it nothing has been typed, or it was in a hurry. *)
LEMMA LineIsEmpty ==
    ASSUME LocalInv, CommandsInv, ~ rushed, loc[MASTER] # "loop"
    PROVE  serial = <<>>
  <1> SUFFICES ASSUME serial # <<>> PROVE FALSE
    OBVIOUS
  <1>1. AtRest(MASTER)
    BY NodeFacts DEF CommandsInv, Untold
  <1> QED
    BY <1>1, NodeFacts DEF AtRest

(* A bound of its own the master sets at once. *)
LEMMA CommandProcessed ==
    ASSUME LocalInv, CommandsInv, Process
    PROVE  CommandsInv'
  <1> SUFFICES ASSUME ~ rushed'
               PROVE  Len(serial') <= 1 /\ \A n \in Node : Untold(n)' /\ AtRest(n)'
                                                           /\ Promised(n, Current)'
    BY DEF CommandsInv
  <1>1. /\ loc[MASTER] = "process" /\ loc' = [loc EXCEPT ![MASTER] = "forward"]
        /\ UNCHANGED <<mode, reset, changed, distributed, command, target, serial, wanted,
                       rushed>>
    BY DEF Process, Goto, line
  <1>2. MainTypeOK /\ target = 1 /\ serial = <<>> /\ Len(serial) <= 1
    BY <1>1, LineIsEmpty DEF LocalInv, MasterReads, CommandsInv
  <1>3. /\ loc'[MASTER] = "forward"
        /\ \A m \in Node : m # MASTER => loc'[m] = loc[m]
    BY <1>1, <1>2, NodeFacts DEF MainTypeOK
  <1>4. Current = command /\ Current' = command
    BY <1>1, <1>2 DEF Current
  <1>5. ASSUME NEW n \in Node PROVE AtRest(n) /\ Promised(n, command)
    BY <1>1, <1>4 DEF CommandsInv, Untold
  <1>6. ASSUME NEW n \in Node PROVE Untold(n)' /\ AtRest(n)'
    BY <1>1, <1>2, <1>3, <1>5, NodeFacts DEF Untold, AtRest
  <1>7. ASSUME NEW n \in Node PROVE Promised(n, command)'
    <2>1. CASE bound'[n] = bound[n]
      BY <1>1, <1>5, <2>1 DEF Promised
    <2>2. CASE bound'[n] # bound[n]
      <3>1. n = MASTER /\ command.op = "ICO" /\ command.node = n
            /\ bound' = [bound EXCEPT ![MASTER] = command.lux]
        BY <1>2, <2>2 DEF Process, SetBound, MainTypeOK
      <3> QED
        BY <1>1, <1>5, <3>1 DEF Promised
    <2> QED
      BY <2>1, <2>2
  <1> QED
    BY <1>1, <1>2, <1>4, <1>6, <1>7

(* A board is told: it listens, since it is at rest, and does what is      *)
(* promised, or will.                                                      *)
LEMMA CommandForwarded ==
    ASSUME LocalInv, CommandsInv, OrdersArrive, NEW a \in Arrival(command.op), Forward(a)
    PROVE  CommandsInv'
  <1> SUFFICES ASSUME ~ rushed'
               PROVE  /\ Len(serial') <= 1
                      /\ \A n \in Node : IF Untold(n)' THEN AtRest(n)' /\ Promised(n, Current)'
                                                       ELSE Obeys(n)'
    BY DEF CommandsInv
  <1> PICK t \in Node : t = target
    BY NodeFacts DEF LocalInv, MasterReads, Forward
  <1>1. /\ loc[MASTER] = "forward" /\ target = t /\ target' = t + 1
        /\ SendPacket(t, command, a)
        /\ UNCHANGED <<handler, mode, loc, command, serial, wanted, rushed>>
    BY DEF Forward, line
  <1>2. /\ MainTypeOK /\ t # MASTER /\ command \in Order
        /\ serial = <<>> /\ Len(serial) <= 1
    BY <1>1, LineIsEmpty, NodeFacts DEF LocalInv, MasterReads, CommandsInv
  <1>3. Current = command /\ Current' = command
    BY <1>1, <1>2 DEF Current
  <1>4. Untold(t) /\ ~ Untold(t)'
    <2>1. t \in Int
      BY DEF Node
    <2>2. t <= t /\ ~ (t + 1 <= t)
      BY <2>1
    <2> QED
      BY <1>1, <1>2, <2>2 DEF Untold
  <1>5. AtRest(t) /\ Promised(t, command) /\ loc[t] = "loop"
    BY <1>1, <1>2, <1>3, <1>4 DEF CommandsInv, AtRest
  <1>6. OnReceive(t, command)
    <2>1. handler[t] = "communication"
      BY <1>2, <1>5 DEF LocalInv, Listens
    <2>2. a = TRUE
      BY <1>2, OrderFacts DEF OrdersArrive, Arrival
    <2> QED
      BY <1>1, <2>1, <2>2 DEF SendPacket
  <1>7. ASSUME NEW n \in Node, n # t
        PROVE  /\ reset'[n] = reset[n] /\ changed'[n] = changed[n]
               /\ distributed'[n] = distributed[n] /\ bound'[n] = bound[n]
    BY <1>2, <1>6, <1>7 DEF OnReceive, SetBound, MainTypeOK
  <1>8. Obeys(t)'
    <2>1. CASE command.op = "RES"
      <3>1. reset'[t] = TRUE
        BY <1>2, <1>6, <2>1 DEF OnReceive, MainTypeOK
      <3> QED
        BY <1>1, <1>5, <2>1, <3>1 DEF Promised, Obeys, Resetting
    <2>2. CASE command.op = "ICO"
      <3>1. /\ reset' = reset /\ distributed' = distributed
            /\ bound'[t] = IF command.node = t THEN command.lux ELSE bound[t]
        BY <1>2, <1>6, <2>2 DEF OnReceive, SetBound, MainTypeOK
      <3> QED
        BY <1>1, <1>5, <2>2, <3>1 DEF Promised, Obeys, Resetting, AtRest
    <2>3. CASE command.op \in {"DON", "DOF"}
      <3>1. /\ reset' = reset /\ bound' = bound
            /\ distributed'[t] = (command.op = "DON")
        BY <1>2, <1>6, <2>3 DEF OnReceive, MainTypeOK
      <3> QED
        BY <1>1, <1>5, <2>3, <3>1 DEF Promised, Obeys, Resetting, AtRest
    <2> QED
      BY <1>2, <2>1, <2>2, <2>3, OrderFacts
  <1>9. ASSUME NEW n \in Node, n # t
        PROVE  IF Untold(n)' THEN AtRest(n)' /\ Promised(n, Current)' ELSE Obeys(n)'
    <2>1. Untold(n)' <=> Untold(n)
      <3>1. n \in Int /\ t \in Int
        BY DEF Node
      <3>2. t + 1 <= n <=> t <= n
        BY <1>9, <3>1
      <3> QED
        BY <1>1, <3>2 DEF Untold
    <2>2. IF Untold(n) THEN AtRest(n) /\ Promised(n, command) ELSE Obeys(n)
      BY <1>1, <1>3 DEF CommandsInv
    <2>3. CASE Untold(n)
      BY <1>1, <1>3, <1>7, <1>9, <2>1, <2>2, <2>3 DEF AtRest, Promised
    <2>4. CASE ~ Untold(n)
      BY <1>1, <1>7, <1>9, <2>1, <2>2, <2>4 DEF Obeys, Resetting
    <2> QED
      BY <2>3, <2>4
  <1> QED
    BY <1>1, <1>2, <1>4, <1>8, <1>9

(* Everybody else has been told: the master does what is promised itself.  *)
LEMMA CommandApplied ==
    ASSUME LocalInv, CommandsInv, Apply
    PROVE  CommandsInv'
  <1> SUFFICES ASSUME ~ rushed'
               PROVE  Len(serial') <= 1 /\ \A n \in Node : ~ Untold(n)' /\ Obeys(n)'
    BY DEF CommandsInv
  <1>1. /\ loc[MASTER] = "forward" /\ target = N
        /\ loc' = [loc EXCEPT ![MASTER] = "update"]
        /\ reset' = IF command.op = "RES" THEN [reset EXCEPT ![MASTER] = TRUE] ELSE reset
        /\ distributed' = IF command.op \in {"DON", "DOF"}
                            THEN [distributed EXCEPT ![MASTER] = (command.op = "DON")]
                            ELSE distributed
        /\ UNCHANGED <<mode, bound, serial, wanted, rushed>>
    BY DEF Apply, Goto, line
  <1>2. MainTypeOK /\ command \in Order /\ serial = <<>> /\ Len(serial) <= 1
    BY <1>1, LineIsEmpty DEF LocalInv, MasterReads, CommandsInv
  <1>3. /\ loc'[MASTER] = "update"
        /\ \A m \in Node : m # MASTER => loc'[m] = loc[m] /\ reset'[m] = reset[m]
                                         /\ distributed'[m] = distributed[m]
    BY <1>1, <1>2, NodeFacts DEF MainTypeOK
  <1>4. ASSUME NEW n \in Node PROVE ~ Untold(n)'
    BY <1>1, <1>2, <1>3 DEF Untold
  <1>5. ASSUME NEW n \in Node, n # MASTER PROVE Obeys(n)'
    <2>1. Obeys(n)
      <3>1. n < N /\ n \in Int
        BY NodeFacts DEF Node
      <3>2. ~ (N <= n)
        BY <3>1
      <3> QED
        BY <1>1, <1>2, <1>5, <3>2 DEF CommandsInv, Untold
    <2> QED
      BY <1>1, <1>3, <1>5, <2>1 DEF Obeys, Resetting
  <1>6. Obeys(MASTER)'
    <2>1. Promised(MASTER, command) /\ ~ reset[MASTER]
      BY <1>1, <1>2, NodeFacts DEF CommandsInv, Untold, Current, AtRest
    <2>2. CASE command.op = "RES"
      <3>1. reset'[MASTER] = TRUE
        BY <1>1, <1>2, <2>2, NodeFacts DEF MainTypeOK
      <3> QED
        BY <1>1, <2>1, <2>2, <3>1 DEF Promised, Obeys, Resetting
    <2>3. CASE command.op = "ICO"
      <3>1. reset' = reset /\ distributed' = distributed
        BY <1>1, <2>3
      <3>2. wanted.bound[MASTER] = bound[MASTER]
        BY <1>1, <2>1, <2>3 DEF Promised, LocalInv, MasterReads
      <3> QED
        BY <1>1, <1>3, <2>1, <2>3, <3>1, <3>2 DEF Promised, Obeys, Resetting
    <2>4. CASE command.op \in {"DON", "DOF"}
      <3>1. reset' = reset /\ distributed'[MASTER] = (command.op = "DON")
        BY <1>1, <1>2, <2>4, NodeFacts DEF MainTypeOK
      <3> QED
        BY <1>1, <1>3, <2>1, <2>4, <3>1 DEF Promised, Obeys, Resetting
    <2> QED
      BY <1>2, <2>2, <2>3, <2>4, OrderFacts
  <1> QED
    BY <1>1, <1>2, <1>4, <1>5, <1>6

(* A board that does something for itself has been told all there is. *)
LEMMA OwnIsTold ==
    ASSUME LocalInv, CommandsInv, ~ rushed, NEW n \in Node, Own(n)
    PROVE  ~ Untold(n) /\ Obeys(n)
  <1>1. SUFFICES ASSUME Untold(n) PROVE FALSE
    BY DEF CommandsInv
  <1>2. AtRest(n)
    BY <1>1 DEF CommandsInv
  <1>3. loc[n] = "loop"
    <2>1. loc[n] \notin {"process", "forward"}
      BY OwnFrame
    <2> QED
      BY <1>1, <1>2, <2>1 DEF AtRest, Untold
  <1>4. ~ Pending(n)
    BY <1>2 DEF AtRest, Pending
  <1> QED
    BY <1>3, <1>4 DEF Own, Update, ClearReset, ResetRef, ResetBound, ResetMode, ClearChanged,
       React, Solve, Solved, Calibrate, Calibrated, Consense, Measure

(* What it does is what a reset asks for, or it leaves the settings alone. *)
LEMMA OwnObeys ==
    ASSUME LocalInv, NEW n \in Node, Own(n), Obeys(n)
    PROVE  Obeys(n)'
  <1>1. MainTypeOK /\ wanted' = wanted
    BY OwnFrame DEF LocalInv
  <1>2. CASE UNCHANGED <<reset, distributed, bound>> /\ loc'[n] # "resetMode"
             /\ (Resetting(n)' <=> Resetting(n))
    BY <1>1, <1>2 DEF Obeys
  <1>3. CASE Update(n)
    <2>1. /\ loc[n] \in {"update", "loop"}
          /\ loc'[n] \in {"reset", "calibrate", "changed", "loop"}
          /\ loc'[n] = "reset" <=> reset[n]
          /\ UNCHANGED <<reset, distributed, bound>>
      <3>1. loc' = [loc EXCEPT ![n] = CASE reset[n] -> "reset"
                 [] ~ reset[n] /\ mode[n] = "calibration" -> "calibrate"
                 [] ~ reset[n] /\ mode[n] = "control" /\ changed[n] -> "changed"
                 [] OTHER -> "loop"]
        BY <1>3 DEF Update, Goto
      <3>2. loc[n] \in {"update", "loop"} /\ UNCHANGED flags
        BY <1>3 DEF Update
      <3>3. reset[n] \in BOOLEAN /\ loc'[n] = CASE reset[n] -> "reset"
                 [] ~ reset[n] /\ mode[n] = "calibration" -> "calibrate"
                 [] ~ reset[n] /\ mode[n] = "control" /\ changed[n] -> "changed"
                 [] OTHER -> "loop"
        BY <1>1, <3>1 DEF MainTypeOK
      <3> QED
        BY <3>2, <3>3 DEF flags
    <2> QED
      BY <1>2, <2>1 DEF Resetting
  <1>4. CASE ClearReset(n)
    <2>1. loc[n] = "reset" /\ loc'[n] = "resetRef"
      BY <1>1, <1>4 DEF ClearReset, Goto, MainTypeOK
    <2> QED
      BY <1>1, <2>1 DEF Obeys, Resetting
  <1>5. CASE ResetRef(n)
    <2>1. loc[n] = "resetRef" /\ loc'[n] = "resetBound"
      BY <1>1, <1>5 DEF ResetRef, Goto, MainTypeOK
    <2> QED
      BY <1>1, <2>1 DEF Obeys, Resetting
  <1>6. CASE ResetBound(n)
    <2>1. loc[n] = "resetBound" /\ loc'[n] = "resetMode" /\ bound'[n] = LOW_LUX
      BY <1>1, <1>6 DEF ResetBound, Goto, MainTypeOK
    <2> QED
      BY <1>1, <2>1 DEF Obeys, Resetting
  <1>7. CASE ResetMode(n)
    <2>1. /\ loc[n] = "resetMode" /\ loc'[n] = "loop" /\ distributed'[n] = TRUE
          /\ bound' = bound
      BY <1>1, <1>7 DEF ResetMode, Goto, MainTypeOK
    <2> QED
      BY <1>1, <2>1 DEF Obeys, Resetting
  <1>8. CASE ClearChanged(n) \/ React(n)
    <2>1. /\ loc[n] \in {"changed", "react"} /\ loc'[n] \in {"react", "solve", "loop"}
          /\ UNCHANGED <<reset, distributed, bound>>
      BY <1>1, <1>8 DEF ClearChanged, React, Goto, MainTypeOK, flags
    <2> QED
      BY <1>2, <2>1 DEF Resetting
  <1>9. CASE Solve(n) \/ Solved(n) \/ Calibrate(n) \/ Calibrated(n)
    <2>1. /\ loc[n] \in {"solve", "solving", "calibrate", "calibrating"}
          /\ loc'[n] \in {"solving", "calibrating", "loop"}
          /\ UNCHANGED <<reset, distributed, bound>>
      BY <1>1, <1>9 DEF Solve, Solved, Calibrate, Calibrated, Goto, MainTypeOK, flags
    <2> QED
      BY <1>2, <2>1 DEF Resetting
  <1>10. CASE Consense(n) \/ Measure(n)
    <2>1. /\ loc[n] \in {"solving", "calibrating"} /\ loc' = loc
          /\ UNCHANGED <<reset, distributed, bound>>
      BY <1>10 DEF Consense, Measure, mainVars, flags
    <2> QED
      BY <1>2, <2>1 DEF Resetting
  <1> QED
    BY <1>3, <1>4, <1>5, <1>6, <1>7, <1>8, <1>9, <1>10 DEF Own

LEMMA CommandsOwn ==
    ASSUME LocalInv, CommandsInv, NEW n \in Node, Own(n)
    PROVE  CommandsInv'
  <1>1. /\ UNCHANGED <<command, target, serial, wanted, rushed>>
        /\ \A m \in Node : m # n =>
              /\ mode'[m] = mode[m] /\ loc'[m] = loc[m]
              /\ reset'[m] = reset[m] /\ changed'[m] = changed[m]
              /\ distributed'[m] = distributed[m] /\ bound'[m] = bound[m]
        /\ loc[n] \notin {"process", "forward"} /\ loc'[n] \notin {"process", "forward"}
    BY OwnFrame
  <1> SUFFICES ASSUME ~ rushed'
               PROVE  /\ Len(serial') <= 1
                      /\ \A m \in Node : IF Untold(m)' THEN AtRest(m)' /\ Promised(m, Current)'
                                                       ELSE Obeys(m)'
    BY DEF CommandsInv
  <1>2. /\ ~ rushed /\ Len(serial') <= 1
        /\ \A m \in Node : IF Untold(m) THEN AtRest(m) /\ Promised(m, Current) ELSE Obeys(m)
    BY <1>1 DEF CommandsInv
  <1>3. ASSUME NEW m \in Node PROVE Untold(m)' <=> Untold(m)
    <2>1. \A l \in {"process", "forward"} : loc'[MASTER] = l <=> loc[MASTER] = l
      BY <1>1, NodeFacts
    <2> QED
      BY <1>1, <2>1 DEF Untold
  <1>4. Current' = Current
    BY <1>1 DEF Current
  <1>5. ASSUME NEW m \in Node, m # n
        PROVE  IF Untold(m)' THEN AtRest(m)' /\ Promised(m, Current)' ELSE Obeys(m)'
    <2>1. CASE Untold(m)
      BY <1>1, <1>2, <1>3, <1>4, <1>5, <2>1 DEF AtRest, Promised
    <2>2. CASE ~ Untold(m)
      BY <1>1, <1>2, <1>3, <1>5, <2>2 DEF Obeys, Resetting
    <2> QED
      BY <2>1, <2>2
  <1>6. ~ Untold(n)' /\ Obeys(n)'
    BY <1>2, <1>3, OwnIsTold, OwnObeys
  <1> QED
    BY <1>2, <1>5, <1>6

LEMMA CommandsStep ==
    ASSUME OrdersArrive, LocalInv, CommandsInv, [Next]_vars
    PROVE  CommandsInv'
  <1>1. CASE Tick \/ UNCHANGED vars
    BY <1>1 DEF Tick, vars, mainVars, flags, line, CommandsInv, Untold, AtRest, Promised,
       Current, Obeys, Resetting
  <1>2. CASE Master
    BY <1>2, CommandRead, CommandProcessed, CommandForwarded, CommandApplied DEF Master
  <1>3. ASSUME NEW n \in Node, Board(n) PROVE CommandsInv'
    BY <1>2, <1>3, CommandsOwn DEF Board, Own
  <1> QED
    BY <1>1, <1>3, CommandTyped DEF Next

(* Whatever the steps of the boards and of their procedures interleave     *)
(* like, a command that is typed when the boards are quiet has been        *)
(* executed by every one of them once they are quiet again, if no command  *)
(* is lost on the bus (processCommand, onReceive, updateState).            *)
THEOREM CommandsAreExecuted ==
    ASSUME OrdersArrive
    PROVE  Spec => []CommandsTakeEffect
  <1>1. ASSUME LocalInv, CommandsInv PROVE CommandsTakeEffect
    <2> SUFFICES ASSUME Quiet, ~ rushed, NEW n \in Node
                 PROVE  bound[n] = wanted.bound[n] /\ distributed[n] = wanted.distributed
      BY DEF CommandsTakeEffect, Obeyed
    <2>1. ~ Untold(n) /\ ~ Resetting(n)
      BY NodeFacts DEF Quiet, Untold, Resetting
    <2> QED
      BY <1>1, <2>1 DEF CommandsInv, Obeys
  <1>2. LocalInv /\ CommandsInv /\ [Next]_vars => CommandsInv'
    BY CommandsStep
  <1> QED
    BY <1>1, <1>2, CommandsInit, BoardsListen, PTL DEF Spec

-----------------------------------------------------------------------------
(* The calibrations of boards whose commands are typed at rest.  All boards *)
(* begin one before time passes, so that each is the run of Calibration    *)
(* without skew, and all that is proved of it holds again.                 *)

(* n takes part in a calibration, or is about to. *)
Calibrates(n) ==
    \/ reset[n] \/ mode[n] = "calibration"
    \/ loc[n] \in {"reset", "resetRef", "resetBound", "resetMode", "calibrate", "calibrating"}
    \/ Untold(n) /\ Current.op = "RES"

(* n has returned to its loop from a calibration that others are still in. *)
Returned(n) == ~ Calibrates(n) /\ \E m \in Node : Calibrates(m)

(* n has turned its lamp off for the calibration. *)
Within(n) == loc[n] = "calibrating" /\ kpc[n] \notin {"idle", "install", "unready", "begin"}

(* The calibration as its own specification has it: a board is there from  *)
(* the moment that all are quiet until all of them have returned.          *)
AtStep == [n \in Node |-> IF loc[n] = "calibrating" THEN kpc[n]
                          ELSE IF Returned(n) THEN "done" ELSE "idle"]
InPhase == [n \in Node |-> IF Within(n) THEN phase[n]
                           ELSE IF Returned(n) THEN "off" ELSE "ext"]
Callee == [n \in Node |-> IF loc[n] = "calibrating" THEN handler[n]
                          ELSE IF Returned(n) THEN "calibration" ELSE "communication"]
Lamps == [n \in Node |-> IF Within(n) THEN led[n] ELSE IF Returned(n) THEN 0 ELSE Samples + 1]
Ages  == [n \in Node |-> IF Within(n) THEN since[n] ELSE Settle]
Left  == [n \in Node |-> IF Within(n) THEN ktimer[n] ELSE 0]

Cal == INSTANCE CalibrationProofs WITH
         MaxSkew <- 0, lag <- 0,
         handler <- Callee, pc <- AtStep, phase <- InPhase, sender <- ksender,
         receiver <- kreceiver, ready <- kready, state <- kstate, led <- Lamps,
         since <- Ages, timer <- Left

(* Who is in which mode.  A reset reaches a board that is at rest, and the *)
(* board is then not in a consensus until it has calibrated.               *)
ModesInv ==
    ~ rushed => \A n \in Node :
        /\ Calibrates(n) => loc[n] \notin {"changed", "react", "solve", "solving"}
        /\ reset[n] => mode[n] = "control" /\ loc[n] \in {"loop", "update", "reset"}
        /\ loc[n] \in {"calibrate", "calibrating"} => mode[n] = "calibration"

(* The light of a board that is in no calibration is for its control. *)
ControlledInv == \A n \in Node : ~ Within(n) => led[n] = K!Controlled

RunsAsOne == ~ rushed => Cal!IInv

(* Nor is the bus known to lose answers. *)
RepliesArrive == "ACK" \notin Lossy

LEMMA CalAssumptions ==
    /\ Samples \in Nat /\ Samples > 0
    /\ Wait \in Nat /\ Wait > 0 /\ WaitLed \in Nat
    /\ 0 \in Nat /\ 0 < Wait /\ 0 < WaitLed /\ Settle \in Nat /\ Settle + 0 <= WaitLed
    /\ Lossy \subseteq Cal!PacketType
  BY ProceduresAssumption, LossyAssumption DEF PacketType, Cal!PacketType

LEMMA CalNames ==
    /\ Cal!Node = Node /\ Cal!Callback = Callback /\ Cal!MASTER = MASTER
    /\ Cal!Location = K!Location /\ Cal!Level = K!Level /\ Cal!Vector = K!Vector
    /\ Cal!Outside = {"idle", "install", "unready", "begin"}
    /\ Cal!Off = 0 /\ Cal!Controlled = Samples + 1 /\ K!Off = 0 /\ K!Controlled = Samples + 1
  BY DEF Cal!Node, Node, Cal!Callback, Callback, Cal!MASTER, MASTER, Cal!Location,
     K!Location, Cal!Level, K!Level, Cal!Vector, K!Vector, K!Node, Cal!Outside, Cal!Off, K!Off,
     Cal!Controlled, K!Controlled

-----------------------------------------------------------------------------
(* Whom a command concerns does not change until its boards return. *)

(* Nobody calibrates before a command is typed, and all or none after it. *)
LEMMA NobodyWhenQuiet ==
    ASSUME Quiet, NEW n \in Node PROVE ~ Calibrates(n)
  BY NodeFacts DEF Quiet, Calibrates, Untold

LEMMA CalibratesTyped ==
    ASSUME LocalInv, ModesInv, NEW o \in Order, Type(o), ~ rushed'
    PROVE  /\ ModesInv'
           /\ \A n \in Node : Returned(n)' <=> Returned(n)
           /\ \A n \in Node : loc'[n] = loc[n] /\ handler'[n] = handler[n]
  <1>1. /\ serial' = Append(serial, o) /\ serial = <<>> /\ Quiet
        /\ UNCHANGED <<handler, mode, loc, reset>>
    BY DEF Type, mainVars, flags, Quiet
  <1>2. serial' = <<o>> /\ serial' # <<>> /\ Head(serial') = o
    BY <1>1
  <1>3. \A n \in Node : ~ Calibrates(n) /\ loc[n] = "loop" /\ ~ reset[n]
    BY <1>1, NobodyWhenQuiet DEF Quiet
  <1>4. ASSUME NEW n \in Node PROVE Calibrates(n)' <=> o.op = "RES"
    BY <1>1, <1>2, <1>3 DEF Calibrates, Untold, Current
  <1>5. \A n \in Node : ~ Returned(n)' /\ ~ Returned(n)
    BY <1>3, <1>4 DEF Returned
  <1> QED
    BY <1>1, <1>3, <1>5 DEF ModesInv

LEMMA CalibratesRead ==
    ASSUME LocalInv, CommandsInv, ModesInv, ReadCommand, ~ rushed'
    PROVE  /\ ModesInv' /\ \A n \in Node : Calibrates(n)' <=> Calibrates(n)
           /\ \A n \in Node : loc'[n] = "calibrating" <=> loc[n] = "calibrating"
           /\ UNCHANGED <<handler, calibVars>>
  <1>1. /\ loc[MASTER] = "loop" /\ serial # <<>>
        /\ command' = Head(serial) /\ serial' = Tail(serial)
        /\ loc' = [loc EXCEPT ![MASTER] = "process"]
        /\ UNCHANGED <<handler, mode, reset, rushed, calibVars>>
    BY DEF ReadCommand, Goto, flags
  <1>2. MainTypeOK /\ serial \in Seq(Order) /\ Len(serial) <= 1
    BY <1>1 DEF LocalInv, MainTypeOK, CommandsInv
  <1>3. serial' = <<>>
    BY <1>1, <1>2
  <1>4. loc'[MASTER] = "process" /\ \A m \in Node : m # MASTER => loc'[m] = loc[m]
    BY <1>1, <1>2, NodeFacts DEF MainTypeOK
  <1>5. \A n \in Node : Untold(n) /\ Untold(n)' /\ ~ reset[n]
    BY <1>1, <1>3, <1>4 DEF Untold, CommandsInv, AtRest
  <1>6. Current' = Current
    BY <1>1, <1>3 DEF Current
  <1>7. \A n \in Node : Calibrates(n)' <=> Calibrates(n)
    BY <1>1, <1>4, <1>5, <1>6 DEF Calibrates
  <1> QED
    BY <1>1, <1>4, <1>5, <1>7 DEF ModesInv

LEMMA CalibratesProcessed ==
    ASSUME LocalInv, CommandsInv, ModesInv, Process, ~ rushed'
    PROVE  /\ ModesInv' /\ \A n \in Node : Calibrates(n)' <=> Calibrates(n)
           /\ \A n \in Node : loc'[n] = "calibrating" <=> loc[n] = "calibrating"
           /\ UNCHANGED <<handler, calibVars>>
  <1>1. /\ loc[MASTER] = "process" /\ loc' = [loc EXCEPT ![MASTER] = "forward"]
        /\ UNCHANGED <<handler, mode, reset, command, target, serial, rushed, calibVars>>
    BY DEF Process, Goto, line
  <1>2. MainTypeOK /\ target = 1 /\ serial = <<>>
    BY <1>1, LineIsEmpty DEF LocalInv, MasterReads
  <1>3. loc'[MASTER] = "forward" /\ \A m \in Node : m # MASTER => loc'[m] = loc[m]
    BY <1>1, <1>2, NodeFacts DEF MainTypeOK
  <1>4. \A n \in Node : Untold(n) /\ Untold(n)' /\ ~ reset[n]
    BY <1>1, <1>2, <1>3, NodeFacts DEF Untold, CommandsInv, AtRest
  <1>5. Current' = Current
    BY <1>1, <1>2 DEF Current
  <1>6. \A n \in Node : Calibrates(n)' <=> Calibrates(n)
    BY <1>1, <1>3, <1>4, <1>5 DEF Calibrates
  <1> QED
    BY <1>1, <1>3, <1>4, <1>6 DEF ModesInv

(* The reset reaches a board at rest: from then on it calibrates by its    *)
(* flag.                                                                   *)
LEMMA CalibratesForwarded ==
    ASSUME LocalInv, CommandsInv, ModesInv, OrdersArrive,
           NEW a \in Arrival(command.op), Forward(a), ~ rushed'
    PROVE  /\ ModesInv' /\ \A n \in Node : Calibrates(n)' <=> Calibrates(n)
           /\ \A n \in Node : loc'[n] = "calibrating" <=> loc[n] = "calibrating"
           /\ UNCHANGED <<handler, calibVars>>
  <1> PICK t \in Node : t = target
    BY NodeFacts DEF LocalInv, MasterReads, Forward
  <1>1. /\ loc[MASTER] = "forward" /\ target = t /\ target' = t + 1
        /\ SendPacket(t, command, a)
        /\ UNCHANGED <<handler, mode, loc, command, serial, rushed, calibVars>>
    BY DEF Forward, line
  <1>2. MainTypeOK /\ t # MASTER /\ command \in Order /\ serial = <<>>
    BY <1>1, LineIsEmpty, NodeFacts DEF LocalInv, MasterReads
  <1>3. Current = command /\ Current' = command
    BY <1>1, <1>2 DEF Current
  <1>4. Untold(t) /\ ~ Untold(t)'
    <2>1. t \in Int
      BY DEF Node
    <2>2. t <= t /\ ~ (t + 1 <= t)
      BY <2>1
    <2> QED
      BY <1>1, <1>2, <2>2 DEF Untold
  <1>5. AtRest(t) /\ loc[t] = "loop" /\ mode[t] = "control" /\ ~ reset[t]
    BY <1>1, <1>2, <1>4 DEF CommandsInv, AtRest
  <1>6. OnReceive(t, command)
    <2>1. handler[t] = "communication"
      BY <1>2, <1>5 DEF LocalInv, Listens
    <2>2. a = TRUE
      BY <1>2, OrderFacts DEF OrdersArrive, Arrival
    <2> QED
      BY <1>1, <2>1, <2>2 DEF SendPacket
  <1>7. reset' = IF command.op = "RES" THEN [reset EXCEPT ![t] = TRUE] ELSE reset
    BY <1>6 DEF OnReceive
  <1>8. ASSUME NEW n \in Node, n # t
        PROVE  /\ Untold(n)' <=> Untold(n)
               /\ reset'[n] = reset[n]
    <2>1. t + 1 <= n <=> t <= n
      BY <1>8 DEF Node
    <2> QED
      BY <1>1, <1>2, <1>7, <1>8, <2>1 DEF Untold, MainTypeOK
  <1>9. reset'[t] <=> command.op = "RES"
    BY <1>2, <1>5, <1>7 DEF MainTypeOK
  <1>10. ASSUME NEW n \in Node PROVE Calibrates(n)' <=> Calibrates(n)
    <2>1. CASE n = t
      BY <1>1, <1>3, <1>4, <1>5, <1>9, <2>1 DEF Calibrates
    <2>2. CASE n # t
      BY <1>1, <1>3, <1>8, <2>2 DEF Calibrates
    <2> QED
      BY <2>1, <2>2
  <1>11. \A n \in Node : reset'[n] => reset[n] \/ n = t
    BY <1>8
  <1> QED
    BY <1>1, <1>5, <1>10, <1>11 DEF ModesInv

LEMMA CalibratesApplied ==
    ASSUME LocalInv, CommandsInv, ModesInv, Apply, ~ rushed'
    PROVE  /\ ModesInv' /\ \A n \in Node : Calibrates(n)' <=> Calibrates(n)
           /\ \A n \in Node : loc'[n] = "calibrating" <=> loc[n] = "calibrating"
           /\ UNCHANGED <<handler, calibVars>>
  <1>1. /\ loc[MASTER] = "forward" /\ target = N
        /\ loc' = [loc EXCEPT ![MASTER] = "update"]
        /\ reset' = IF command.op = "RES" THEN [reset EXCEPT ![MASTER] = TRUE] ELSE reset
        /\ UNCHANGED <<handler, mode, serial, rushed, calibVars>>
    BY DEF Apply, Goto, line
  <1>2. MainTypeOK /\ command \in Order /\ serial = <<>>
    BY <1>1, LineIsEmpty DEF LocalInv, MasterReads
  <1>3. /\ loc'[MASTER] = "update"
        /\ \A m \in Node : m # MASTER => loc'[m] = loc[m] /\ reset'[m] = reset[m]
    BY <1>1, <1>2, NodeFacts DEF MainTypeOK
  <1>4. \A n \in Node : ~ Untold(n)'
    BY <1>1, <1>2, <1>3 DEF Untold
  <1>5. \A n \in Node : n # MASTER => ~ Untold(n)
    <2>1. \A n \in Node : ~ (N <= n)
      BY DEF Node
    <2> QED
      BY <1>1, <1>2, <2>1 DEF Untold
  <1>6. Untold(MASTER) /\ AtRest(MASTER) /\ Current = command
    BY <1>1, <1>2, NodeFacts DEF Untold, CommandsInv, Current
  <1>7. mode[MASTER] = "control" /\ ~ reset[MASTER] /\ (reset'[MASTER] <=> command.op = "RES")
    BY <1>1, <1>2, <1>6, NodeFacts DEF AtRest, MainTypeOK
  <1>8. ASSUME NEW n \in Node PROVE Calibrates(n)' <=> Calibrates(n)
    <2>1. CASE n = MASTER
      BY <1>1, <1>3, <1>4, <1>6, <1>7, <2>1 DEF Calibrates
    <2>2. CASE n # MASTER
      BY <1>1, <1>3, <1>4, <1>5, <2>2 DEF Calibrates
    <2> QED
      BY <2>1, <2>2
  <1> QED
    BY <1>1, <1>3, <1>7, <1>8 DEF ModesInv

LEMMA CalibratesMaster ==
    ASSUME LocalInv, CommandsInv, ModesInv, OrdersArrive, Master, ~ rushed'
    PROVE  /\ ModesInv' /\ \A n \in Node : Calibrates(n)' <=> Calibrates(n)
           /\ \A n \in Node : loc'[n] = "calibrating" <=> loc[n] = "calibrating"
           /\ UNCHANGED <<handler, calibVars>>
  BY CalibratesRead, CalibratesProcessed, CalibratesForwarded, CalibratesApplied DEF Master

(* Nor by what a board does for itself. *)
LEMMA CalibratesOwn ==
    ASSUME LocalInv, CommandsInv, ModesInv, NEW n \in Node, Own(n), ~ rushed
    PROVE  /\ ModesInv'
           /\ \A m \in Node : m # n => (Calibrates(m)' <=> Calibrates(m))
           /\ Calibrates(n)' <=> Calibrates(n) /\ ~ Calibrated(n)
           /\ Calibrated(n) => Calibrates(n)
  <1>1. /\ UNCHANGED <<command, target, serial, rushed>>
        /\ \A m \in Node : m # n => mode'[m] = mode[m] /\ loc'[m] = loc[m] /\ reset'[m] = reset[m]
        /\ loc[n] \notin {"process", "forward"} /\ loc'[n] \notin {"process", "forward"}
        /\ MainTypeOK /\ MainTypeOK'
    BY OwnFrame DEF LocalInv
  <1>2. ASSUME NEW m \in Node PROVE Untold(m)' <=> Untold(m)
    <2>1. \A l \in {"process", "forward"} : loc'[MASTER] = l <=> loc[MASTER] = l
      BY <1>1, NodeFacts
    <2> QED
      BY <1>1, <2>1 DEF Untold
  <1>3. Current' = Current /\ ~ Untold(n) /\ ~ Untold(n)'
    BY <1>1, <1>2, OwnIsTold DEF Current
  <1>4. \A m \in Node : m # n => (Calibrates(m)' <=> Calibrates(m))
    BY <1>1, <1>2, <1>3 DEF Calibrates
  <1>5. /\ Calibrates(n) => loc[n] \notin {"changed", "react", "solve", "solving"}
        /\ reset[n] => mode[n] = "control" /\ loc[n] \in {"loop", "update", "reset"}
        /\ loc[n] \in {"calibrate", "calibrating"} => mode[n] = "calibration"
    BY DEF ModesInv
  <1>6. /\ Calibrates(n) <=> \/ reset[n] \/ mode[n] = "calibration"
                             \/ loc[n] \in {"reset", "resetRef", "resetBound", "resetMode",
                                            "calibrate", "calibrating"}
        /\ Calibrates(n)' <=> \/ reset'[n] \/ mode'[n] = "calibration"
                              \/ loc'[n] \in {"reset", "resetRef", "resetBound", "resetMode",
                                              "calibrate", "calibrating"}
    BY <1>3 DEF Calibrates
  <1> DEFINE Goal == /\ Calibrates(n)' <=> Calibrates(n) /\ ~ Calibrated(n)
                     /\ Calibrated(n) => Calibrates(n)
                     /\ Calibrates(n)' => loc'[n] \notin {"changed", "react", "solve", "solving"}
                     /\ reset'[n] => mode'[n] = "control" /\ loc'[n] \in {"loop", "update", "reset"}
                     /\ loc'[n] \in {"calibrate", "calibrating"} => mode'[n] = "calibration"
  <1>7. ASSUME Update(n) PROVE Goal
    <2>1. /\ loc[n] \in {"update", "loop"} /\ UNCHANGED <<mode, reset>>
          /\ loc' = [loc EXCEPT ![n] = CASE reset[n] -> "reset"
                 [] ~ reset[n] /\ mode[n] = "calibration" -> "calibrate"
                 [] ~ reset[n] /\ mode[n] = "control" /\ changed[n] -> "changed"
                 [] OTHER -> "loop"]
      BY <1>7 DEF Update, Goto, flags
    <2>2. loc'[n] = CASE reset[n] -> "reset"
                 [] ~ reset[n] /\ mode[n] = "calibration" -> "calibrate"
                 [] ~ reset[n] /\ mode[n] = "control" /\ changed[n] -> "changed"
                 [] OTHER -> "loop"
      BY <1>1, <2>1 DEF MainTypeOK
    <2>3. ~ Calibrated(n)
      BY <2>1 DEF Calibrated
    <2>4. \/ reset[n] /\ loc'[n] = "reset"
          \/ ~ reset[n] /\ mode[n] = "calibration" /\ loc'[n] = "calibrate"
          \/ ~ reset[n] /\ mode[n] = "control" /\ loc'[n] = "changed"
          \/ ~ reset[n] /\ mode[n] # "calibration" /\ loc'[n] = "loop"
      BY <1>1, <2>2 DEF MainTypeOK
    <2> QED
      BY <1>5, <1>6, <2>1, <2>3, <2>4
  <1>8. ASSUME ClearReset(n) \/ ResetRef(n) \/ ResetBound(n) \/ ResetMode(n) PROVE Goal
    <2>1. /\ loc[n] \in {"reset", "resetRef", "resetBound", "resetMode"} /\ ~ Calibrated(n)
          /\ \/ /\ loc[n] = "reset" /\ reset' = [reset EXCEPT ![n] = FALSE]
                /\ mode' = mode /\ loc' = [loc EXCEPT ![n] = "resetRef"]
             \/ /\ loc[n] \in {"resetRef", "resetBound"} /\ UNCHANGED <<reset, mode>>
                /\ \E l \in {"resetBound", "resetMode"} : loc' = [loc EXCEPT ![n] = l]
             \/ /\ loc[n] = "resetMode" /\ UNCHANGED reset
                /\ mode' = [mode EXCEPT ![n] = "calibration"] /\ loc' = [loc EXCEPT ![n] = "loop"]
      BY <1>8 DEF ClearReset, ResetRef, ResetBound, ResetMode, Goto, Calibrated
    <2>2. \/ ~ reset'[n] /\ mode'[n] = mode[n] /\ loc'[n] = "resetRef"
          \/ /\ loc[n] \in {"resetRef", "resetBound"} /\ reset'[n] = reset[n]
             /\ mode'[n] = mode[n] /\ loc'[n] \in {"resetBound", "resetMode"}
          \/ /\ loc[n] = "resetMode" /\ reset'[n] = reset[n]
             /\ mode'[n] = "calibration" /\ loc'[n] = "loop"
      BY <1>1, <2>1 DEF MainTypeOK
    <2> QED
      BY <1>5, <1>6, <2>1, <2>2
  <1>9. ASSUME ClearChanged(n) \/ React(n) \/ Solve(n) \/ Solved(n) \/ Consense(n) PROVE Goal
    <2>1. /\ loc[n] \in {"changed", "react", "solve", "solving"} /\ ~ Calibrated(n)
          /\ UNCHANGED reset
          /\ \E l \in {"react", "loop", "solve", "solving"} :
                loc' = [loc EXCEPT ![n] = l] \/ (loc' = loc /\ loc[n] = "solving")
          /\ mode' = mode \/ \E q \in {"consensus", "control"} : mode' = [mode EXCEPT ![n] = q]
      BY <1>9 DEF ClearChanged, React, Solve, Solved, Consense, Goto, flags, mainVars, Calibrated
    <2>2. /\ reset'[n] = reset[n] /\ loc'[n] \in {"react", "loop", "solve", "solving"}
          /\ mode'[n] = mode[n] \/ mode'[n] \in {"consensus", "control"}
      BY <1>1, <2>1 DEF MainTypeOK
    <2> QED
      BY <1>5, <1>6, <2>1, <2>2
  <1>10. ASSUME Calibrate(n) \/ Measure(n) PROVE Goal
    <2>1. /\ loc[n] \in {"calibrate", "calibrating"} /\ UNCHANGED <<reset, mode>>
          /\ loc' = [loc EXCEPT ![n] = "calibrating"] \/ (loc' = loc /\ loc[n] = "calibrating")
      BY <1>10 DEF Calibrate, Measure, Goto, flags, mainVars
    <2>2. loc'[n] = "calibrating"
      BY <1>1, <2>1 DEF MainTypeOK
    <2>3. ~ Calibrated(n)
      <3>1. "calibrating" # "loop"
        OBVIOUS
      <3>2. Calibrated(n) => loc'[n] = "loop"
        BY <1>1 DEF Calibrated, Goto, MainTypeOK
      <3> QED
        BY <2>2, <3>1, <3>2
    <2> QED
      BY <1>5, <1>6, <2>1, <2>2, <2>3
  <1>11. ASSUME Calibrated(n) PROVE Goal
    <2>1. /\ loc[n] = "calibrating" /\ UNCHANGED reset
          /\ mode' = [mode EXCEPT ![n] = "control"] /\ loc' = [loc EXCEPT ![n] = "loop"]
      BY <1>11 DEF Calibrated, Goto, flags
    <2>2. reset'[n] = reset[n] /\ mode'[n] = "control" /\ loc'[n] = "loop"
      BY <1>1, <2>1 DEF MainTypeOK
    <2> QED
      BY <1>5, <1>6, <1>11, <2>1, <2>2
  <1>12. Goal
    BY <1>7, <1>8, <1>9, <1>10, <1>11 DEF Own
  <1>13. ASSUME NEW m \in Node, m # n
         PROVE  /\ Calibrates(m)' => loc'[m] \notin {"changed", "react", "solve", "solving"}
                /\ reset'[m] => mode'[m] = "control" /\ loc'[m] \in {"loop", "update", "reset"}
                /\ loc'[m] \in {"calibrate", "calibrating"} => mode'[m] = "calibration"
    BY <1>1, <1>4, <1>13 DEF ModesInv
  <1> QED
    BY <1>4, <1>12, <1>13 DEF ModesInv

-----------------------------------------------------------------------------
(* Steps that are none of a calibration. *)

LEMMA RunKept ==
    ASSUME RepliesArrive, Cal!IInv,
           UNCHANGED <<ksender, kreceiver, kready, kstate, sample, dark, Y>>,
           UNCHANGED <<AtStep, InPhase, Callee, Lamps, Ages, Left>>
    PROVE  Cal!IInv'
  <1>1. UNCHANGED Cal!vars
    BY DEF Cal!vars
  <1>2. Cal!RepliesArrive
    BY DEF Cal!RepliesArrive, RepliesArrive
  <1>3. Cal!RepliesArrive /\ Cal!IInv /\ [Cal!Next]_Cal!vars => Cal!IInv'
    BY Cal!InvStep, CalAssumptions
  <1> QED
    BY <1>1, <1>2, <1>3

LEMMA SameRun ==
    ASSUME UNCHANGED calibVars,
           \A n \in Node : /\ Returned(n)' <=> Returned(n)
                           /\ loc'[n] = "calibrating" <=> loc[n] = "calibrating"
                           /\ loc[n] = "calibrating" => handler'[n] = handler[n]
    PROVE  UNCHANGED <<AtStep, InPhase, Callee, Lamps, Ages, Left>>
  <1>1. UNCHANGED <<kpc, phase, led, since, ktimer>>
    BY DEF calibVars
  <1>2. \A n \in Node : Within(n)' <=> Within(n)
    BY <1>1 DEF Within
  <1>3. AtStep' = AtStep /\ Callee' = Callee
    BY <1>1 DEF AtStep, Callee
  <1>4. InPhase' = InPhase /\ Lamps' = Lamps
    BY <1>1, <1>2 DEF InPhase, Lamps
  <1>5. Ages' = Ages /\ Left' = Left
    BY <1>1, <1>2 DEF Ages, Left
  <1> QED
    BY <1>3, <1>4, <1>5

LEMMA KeepsRun ==
    ASSUME RepliesArrive, Cal!IInv, UNCHANGED calibVars,
           \A n \in Node : /\ Returned(n)' <=> Returned(n)
                           /\ loc'[n] = "calibrating" <=> loc[n] = "calibrating"
                           /\ loc[n] = "calibrating" => handler'[n] = handler[n]
    PROVE  Cal!IInv'
  BY SameRun, RunKept DEF calibVars

LEMMA SameReturned ==
    ASSUME \A n \in Node : Calibrates(n)' <=> Calibrates(n), NEW n \in Node
    PROVE  Returned(n)' <=> Returned(n)
  BY DEF Returned

(* What a board does that neither calibrates nor begins to. *)
LEMMA OtherSteps ==
    ASSUME LocalInv, NEW n \in Node,
           \/ Update(n) \/ ClearReset(n) \/ ResetRef(n) \/ ResetBound(n) \/ ResetMode(n)
           \/ ClearChanged(n) \/ React(n) \/ Solve(n) \/ Solved(n) \/ Consense(n)
    PROVE  UNCHANGED calibVars /\ loc[n] # "calibrating" /\ loc'[n] # "calibrating"
  <1>1. MainTypeOK
    BY DEF LocalInv
  <1>2. CASE Update(n)
    <2>1. /\ loc[n] \in {"update", "loop"} /\ UNCHANGED calibVars
          /\ loc' = [loc EXCEPT ![n] = CASE reset[n] -> "reset"
               [] ~ reset[n] /\ mode[n] = "calibration" -> "calibrate"
               [] ~ reset[n] /\ mode[n] = "control" /\ changed[n] -> "changed"
               [] OTHER -> "loop"]
      BY <1>2 DEF Update, Goto
    <2>2. loc'[n] \in {"reset", "calibrate", "changed", "loop"}
      BY <1>1, <2>1 DEF MainTypeOK
    <2> QED
      BY <2>1, <2>2
  <1>3. CASE ClearReset(n) \/ ResetRef(n) \/ ResetBound(n) \/ ResetMode(n)
    BY <1>1, <1>3 DEF ClearReset, ResetRef, ResetBound, ResetMode, Goto, MainTypeOK
  <1>4. CASE ClearChanged(n) \/ React(n) \/ Solve(n) \/ Solved(n)
    BY <1>1, <1>4 DEF ClearChanged, React, Solve, Solved, Goto, MainTypeOK
  <1>5. CASE Consense(n)
    BY <1>5 DEF Consense, mainVars
  <1> QED
    BY <1>2, <1>3, <1>4, <1>5

LEMMA RunOwn ==
    ASSUME RepliesArrive, LocalInv, CommandsInv, ModesInv, Cal!IInv, ~ rushed, NEW n \in Node,
           \/ Update(n) \/ ClearReset(n) \/ ResetRef(n) \/ ResetBound(n) \/ ResetMode(n)
           \/ ClearChanged(n) \/ React(n) \/ Solve(n) \/ Solved(n) \/ Consense(n)
    PROVE  Cal!IInv'
  <1>1. Own(n)
    BY DEF Own
  <1>2. \A m \in Node : m # n => loc'[m] = loc[m] /\ handler'[m] = handler[m]
    BY <1>1, OwnFrame
  <1>3. UNCHANGED calibVars /\ loc[n] # "calibrating" /\ loc'[n] # "calibrating"
    BY OtherSteps
  <1>4. ~ Calibrated(n)
    BY <1>3 DEF Calibrated
  <1>5. \A m \in Node : Calibrates(m)' <=> Calibrates(m)
    BY <1>1, <1>4, CalibratesOwn
  <1> QED
    BY <1>2, <1>3, <1>5, SameReturned, KeepsRun

LEMMA RunMaster ==
    ASSUME RepliesArrive, OrdersArrive, LocalInv, CommandsInv, ModesInv, Cal!IInv, Master,
           ~ rushed'
    PROVE  Cal!IInv'
  <1>1. /\ \A n \in Node : Calibrates(n)' <=> Calibrates(n)
        /\ \A n \in Node : loc'[n] = "calibrating" <=> loc[n] = "calibrating"
        /\ UNCHANGED <<handler, calibVars>>
    BY CalibratesMaster
  <1> QED
    BY <1>1, SameReturned, KeepsRun

LEMMA RunTyped ==
    ASSUME RepliesArrive, LocalInv, ModesInv, Cal!IInv, NEW o \in Order, Type(o), ~ rushed'
    PROVE  Cal!IInv'
  <1>1. UNCHANGED calibVars
    BY DEF Type
  <1> QED
    BY <1>1, CalibratesTyped, KeepsRun

-----------------------------------------------------------------------------
(* The steps of a calibration are steps of its own specification. *)

BeforeDark == {"idle", "install", "unready", "begin"}

LEMMA CalibrationLamps ==
    ASSUME CalibrationInv, NEW n \in Node, K!Step(n)
    PROVE  /\ \A m \in Node : m # n => /\ kpc'[m] = kpc[m] /\ phase'[m] = phase[m]
                                       /\ ktimer'[m] = ktimer[m]
                                       /\ led'[m] = led[m] /\ since'[m] = since[m]
           /\ kpc'[n] \in BeforeDark => kpc[n] \in BeforeDark /\ led'[n] = led[n]
           /\ kpc[n] \notin BeforeDark => handler' = handler
  <1>1. /\ kpc \in [Node -> K!Location] /\ phase \in [Node -> {"ext", "on", "off"}]
        /\ led \in [Node -> K!Level] /\ since \in [Node -> 0 .. Settle]
        /\ ktimer \in [Node -> Nat]
    BY CalibrationTypesOK DEF CalibrationInv, CalibrationTypes
  <1> USE DEF K!Goto, K!exchanged, K!measured, K!lamps, BeforeDark
  <1> DEFINE Goal == /\ \A m \in Node : m # n => led'[m] = led[m] /\ since'[m] = since[m]
                     /\ kpc'[n] \in BeforeDark => kpc[n] \in BeforeDark /\ led'[n] = led[n]
                     /\ kpc[n] \notin BeforeDark => handler' = handler
  <1>2. ASSUME K!Start(n) \/ K!Install(n) \/ K!Unready(n) \/ K!Settled(n) PROVE Goal
    BY <1>1, <1>2 DEF K!Start, K!Install, K!Unready, K!Settled
  <1>3. ASSUME K!Begin(n) \/ K!TurnOff(n) PROVE Goal
    BY <1>1, <1>3 DEF K!Begin, K!TurnOff, K!WriteLed
  <1>4. ASSUME K!Target(n) \/ K!NextReceiver(n) \/ K!Poll(n) \/ K!Clear(n) PROVE Goal
    BY <1>1, <1>4 DEF K!Target, K!NextReceiver, K!Poll, K!Clear
  <1>5. ASSUME K!Heard(n) \/ K!Take(n) \/ K!External(n) \/ K!WaitOff(n) PROVE Goal
    BY <1>1, <1>5 DEF K!Heard, K!Take, K!External, K!WaitOff
  <1>6. ASSUME NEW s, NEW k, K!BeginStage(n, s, k), UNCHANGED handler PROVE Goal
    BY <1>1, <1>6 DEF K!BeginStage, K!WriteLed
  <1>7. ASSUME K!FirstStage(n) PROVE Goal
    BY <1>6, <1>7 DEF K!FirstStage
  <1>8. ASSUME K!Leave(n) PROVE Goal
    <2>1. CASE \E s, k : K!BeginStage(n, s, k)
      BY <1>6, <1>8, <2>1 DEF K!Leave
    <2>2. CASE kpc' = [kpc EXCEPT ![n] = "done"] /\ UNCHANGED <<led, since>>
      BY <1>1, <1>8, <2>2 DEF K!Leave
    <2> QED
      BY <1>8, <2>1, <2>2 DEF K!Leave, K!EndStage
  <1>9. ASSUME NEW a, K!Transmit(n, a) \/ K!Reply(n, a)
        PROVE  /\ Goal
               /\ \A m \in Node : m # n => /\ kpc'[m] = kpc[m] /\ phase'[m] = phase[m]
                                           /\ ktimer'[m] = ktimer[m]
    BY <1>1, <1>9 DEF K!Transmit, K!Reply
  <1>10. ASSUME K!Local(n) PROVE Goal
    BY <1>2, <1>3, <1>4, <1>5, <1>7, <1>8, <1>10 DEF K!Local
  <1> HIDE DEF Goal
  <1>11. Goal
    BY <1>9, <1>10 DEF K!Step
  <1>12. \A m \in Node : m # n => /\ kpc'[m] = kpc[m] /\ phase'[m] = phase[m]
                                  /\ ktimer'[m] = ktimer[m]
    BY <1>9, CalibrationLocalFrame DEF K!Step
  <1> QED
    BY <1>11, <1>12 DEF Goal

(* What the specification sees of a board that steps, and of the others. *)
LEMMA View ==
    ASSUME LocalInv, CalibrationInv, NEW n \in Node, loc[n] = "calibrating", K!Step(n),
           loc' = loc, \A m \in Node : Returned(m)' <=> Returned(m)
    PROVE  /\ AtStep[n] = kpc[n] /\ AtStep' = [AtStep EXCEPT ![n] = kpc'[n]]
           /\ Callee[n] = handler[n] /\ Callee' = [Callee EXCEPT ![n] = handler'[n]]
           /\ InPhase[n] = (IF kpc[n] \in BeforeDark THEN "ext" ELSE phase[n])
           /\ InPhase' = [InPhase EXCEPT ![n] =
                            IF kpc'[n] \in BeforeDark THEN "ext" ELSE phase'[n]]
           /\ Lamps[n] = (IF kpc[n] \in BeforeDark THEN Samples + 1 ELSE led[n])
           /\ Lamps' = [Lamps EXCEPT ![n] =
                          IF kpc'[n] \in BeforeDark THEN Samples + 1 ELSE led'[n]]
           /\ Ages[n] = (IF kpc[n] \in BeforeDark THEN Settle ELSE since[n])
           /\ Ages' = [Ages EXCEPT ![n] =
                         IF kpc'[n] \in BeforeDark THEN Settle ELSE since'[n]]
           /\ Left[n] = (IF kpc[n] \in BeforeDark THEN 0 ELSE ktimer[n])
           /\ Left' = [Left EXCEPT ![n] =
                         IF kpc'[n] \in BeforeDark THEN 0 ELSE ktimer'[n]]
  <1>1. /\ Within(n) <=> kpc[n] \notin BeforeDark
        /\ Within(n)' <=> kpc'[n] \notin BeforeDark
    BY DEF Within, BeforeDark
  <1>2. ASSUME NEW m \in Node, m # n
        PROVE  /\ kpc'[m] = kpc[m] /\ phase'[m] = phase[m] /\ ktimer'[m] = ktimer[m]
               /\ led'[m] = led[m] /\ since'[m] = since[m] /\ handler'[m] = handler[m]
               /\ Within(m)' <=> Within(m)
    <2>1. kpc'[m] = kpc[m] /\ handler'[m] = handler[m]
      BY <1>2, CalibrationLamps, CalibrationHandler DEF LocalInv, MainTypeOK
    <2> QED
      BY <1>2, <2>1, CalibrationLamps DEF Within
  <1>3. AtStep[n] = kpc[n] /\ AtStep' = [AtStep EXCEPT ![n] = kpc'[n]]
    BY <1>2 DEF AtStep
  <1>4. Callee[n] = handler[n] /\ Callee' = [Callee EXCEPT ![n] = handler'[n]]
    BY <1>2 DEF Callee
  <1>5. ~ Returned(n)
    BY DEF Returned, Calibrates
  <1>6. /\ InPhase[n] = (IF kpc[n] \in BeforeDark THEN "ext" ELSE phase[n])
        /\ InPhase' = [InPhase EXCEPT ![n] =
                         IF kpc'[n] \in BeforeDark THEN "ext" ELSE phase'[n]]
    BY <1>1, <1>2, <1>5 DEF InPhase
  <1>7. /\ Lamps[n] = (IF kpc[n] \in BeforeDark THEN Samples + 1 ELSE led[n])
        /\ Lamps' = [Lamps EXCEPT ![n] =
                       IF kpc'[n] \in BeforeDark THEN Samples + 1 ELSE led'[n]]
    BY <1>1, <1>2, <1>5 DEF Lamps
  <1>8. /\ Ages[n] = (IF kpc[n] \in BeforeDark THEN Settle ELSE since[n])
        /\ Ages' = [Ages EXCEPT ![n] =
                      IF kpc'[n] \in BeforeDark THEN Settle ELSE since'[n]]
    BY <1>1, <1>2, <1>5 DEF Ages
  <1>9. /\ Left[n] = (IF kpc[n] \in BeforeDark THEN 0 ELSE ktimer[n])
        /\ Left' = [Left EXCEPT ![n] =
                      IF kpc'[n] \in BeforeDark THEN 0 ELSE ktimer'[n]]
    BY <1>1, <1>2, <1>5 DEF Left
  <1> QED
    BY <1>3, <1>4, <1>6, <1>7, <1>8, <1>9

(* A board whose lamp is off or lit for the calibration is seen as it is.  *)
LEMMA ViewWithin ==
    ASSUME LocalInv, CalibrationInv, NEW n \in Node, loc[n] = "calibrating", K!Step(n),
           loc' = loc, \A m \in Node : Returned(m)' <=> Returned(m), kpc[n] \notin BeforeDark
    PROVE  /\ AtStep[n] = kpc[n] /\ InPhase[n] = phase[n] /\ Lamps[n] = led[n]
           /\ Ages[n] = since[n] /\ Left[n] = ktimer[n] /\ Callee' = Callee
           /\ \A l : kpc' = [kpc EXCEPT ![n] = l] => AtStep' = [AtStep EXCEPT ![n] = l]
           /\ \A p : phase' = [phase EXCEPT ![n] = p] => InPhase' = [InPhase EXCEPT ![n] = p]
           /\ \A l : led' = [led EXCEPT ![n] = l] => Lamps' = [Lamps EXCEPT ![n] = l]
           /\ \A t : since' = [since EXCEPT ![n] = t] => Ages' = [Ages EXCEPT ![n] = t]
           /\ \A t : ktimer' = [ktimer EXCEPT ![n] = t] => Left' = [Left EXCEPT ![n] = t]
           /\ phase' = phase => InPhase' = InPhase
           /\ led' = led => Lamps' = Lamps
           /\ since' = since => Ages' = Ages
           /\ ktimer' = ktimer => Left' = Left
  <1>1. /\ kpc \in [Node -> K!Location] /\ phase \in [Node -> {"ext", "on", "off"}]
        /\ led \in [Node -> K!Level] /\ since \in [Node -> 0 .. Settle]
        /\ ktimer \in [Node -> Nat] /\ handler \in [Node -> Callback]
    BY CalibrationTypesOK DEF CalibrationInv, CalibrationTypes
  <1>2. kpc'[n] \notin BeforeDark /\ handler' = handler
    BY CalibrationLamps
  <1>3. \A f \in {InPhase, Lamps, Ages, Left, Callee} : [f EXCEPT ![n] = f[n]] = f
    BY DEF InPhase, Lamps, Ages, Left, Callee
  <1>4. Callee' = Callee /\ AtStep[n] = kpc[n]
    BY <1>2, <1>3, View
  <1>5. \A l : kpc' = [kpc EXCEPT ![n] = l] => AtStep' = [AtStep EXCEPT ![n] = l]
    BY <1>1, View
  <1>6. /\ InPhase[n] = phase[n]
        /\ \A p : phase' = [phase EXCEPT ![n] = p] => InPhase' = [InPhase EXCEPT ![n] = p]
        /\ phase' = phase => InPhase' = InPhase
    BY <1>1, <1>2, <1>3, View
  <1>7. /\ Lamps[n] = led[n]
        /\ \A l : led' = [led EXCEPT ![n] = l] => Lamps' = [Lamps EXCEPT ![n] = l]
        /\ led' = led => Lamps' = Lamps
    BY <1>1, <1>2, <1>3, View
  <1>8. /\ Ages[n] = since[n]
        /\ \A t : since' = [since EXCEPT ![n] = t] => Ages' = [Ages EXCEPT ![n] = t]
        /\ since' = since => Ages' = Ages
    BY <1>1, <1>2, <1>3, View
  <1>9. /\ Left[n] = ktimer[n]
        /\ \A t : ktimer' = [ktimer EXCEPT ![n] = t] => Left' = [Left EXCEPT ![n] = t]
        /\ ktimer' = ktimer => Left' = Left
    BY <1>1, <1>2, <1>3, View
  <1> QED
    BY <1>4, <1>5, <1>6, <1>7, <1>8, <1>9

(* When all boards take part, a sensor sees what the specification says.   *)
LEMMA SameReading ==
    ASSUME CalibrationInv, \A m \in Node : Within(m)
    PROVE  Cal!Reading = K!Reading
  <1>1. led \in [Node -> K!Level] /\ K!Node = Node /\ Cal!Node = Node
    BY CalibrationTypesOK, SameNodes, CalNames DEF CalibrationInv, CalibrationTypes
  <1>2. Lamps = led /\ \A m \in Node : Ages[m] = since[m]
    BY <1>1 DEF Lamps, Ages
  <1> QED
    BY <1>1, <1>2 DEF Cal!Reading, K!Reading, Cal!Blurred, K!Blurred

LEMMA ReadingSame ==
    ASSUME Cal!IInv, CalibrationInv, NEW n \in Node, Within(n), ksender[n] = n,
           phase[n] # "off", kpc[n] = "settle" /\ phase[n] = "ext" => ktimer[n] = 0
    PROVE  Cal!Reading = K!Reading
  <1>1. /\ AtStep[n] = kpc[n] /\ InPhase[n] = phase[n] /\ Left[n] = ktimer[n]
        /\ kpc[n] \notin Cal!Outside
    BY CalNames DEF Within, AtStep, InPhase, Left
  <1>2. ASSUME NEW m \in Node PROVE AtStep[m] \notin Cal!Outside /\ AtStep[m] # "done"
    BY <1>1, <1>2, CalNames, CalAssumptions, Cal!AllTakePart
  <1>3. ASSUME NEW m \in Node PROVE Within(m)
    <2>1. AtStep[m] = IF loc[m] = "calibrating" THEN kpc[m]
                      ELSE IF Returned(m) THEN "done" ELSE "idle"
      BY DEF AtStep
    <2> QED
      BY <1>2, <2>1, CalNames DEF Within
  <1> QED
    BY <1>3, SameReading

(* A board installs its callback and turns its lamp off. *)
LEMMA BeginsAlike ==
    ASSUME LocalInv, CalibrationInv, ControlledInv, NEW n \in Node, loc[n] = "calibrating",
           K!Step(n), loc' = loc, \A m \in Node : Returned(m)' <=> Returned(m),
           K!Install(n) \/ K!Unready(n) \/ K!Begin(n)
    PROVE  Cal!Local(n)
  <1>1. /\ kpc \in [Node -> K!Location] /\ phase \in [Node -> {"ext", "on", "off"}]
        /\ led \in [Node -> K!Level] /\ since \in [Node -> 0 .. Settle]
        /\ ktimer \in [Node -> Nat] /\ handler \in [Node -> Callback]
    BY CalibrationTypesOK DEF CalibrationInv, CalibrationTypes
  <1>2. \A f \in {InPhase, Lamps, Ages, Left, Callee} : [f EXCEPT ![n] = f[n]] = f
    BY DEF InPhase, Lamps, Ages, Left, Callee
  <1>3. CASE K!Install(n)
    <2>1. /\ kpc[n] = "install" /\ kpc'[n] = "unready" /\ handler'[n] = "calibration"
          /\ UNCHANGED <<ksender, kreceiver, kready, kstate, dark, Y, sample>>
      BY <1>1, <1>3 DEF K!Install, K!Goto, K!exchanged, K!measured
    <2>2. /\ AtStep[n] = "install" /\ AtStep' = [AtStep EXCEPT ![n] = "unready"]
          /\ Callee' = [Callee EXCEPT ![n] = "calibration"]
          /\ UNCHANGED <<InPhase, Lamps, Ages, Left>>
      BY <1>2, <2>1, View DEF BeforeDark
    <2> QED
      BY <2>1, <2>2 DEF Cal!Local, Cal!Install, Cal!Goto, Cal!exchanged, Cal!measured, Cal!lamps
  <1>4. CASE K!Unready(n)
    <2>1. /\ kpc[n] = "unready" /\ kpc'[n] = "begin" /\ handler'[n] = handler[n]
          /\ kready' = [kready EXCEPT ![n] = FALSE]
          /\ UNCHANGED <<ksender, kreceiver, kstate, dark, Y, sample>>
      BY <1>1, <1>4 DEF K!Unready, K!Goto, K!measured
    <2>2. /\ AtStep[n] = "unready" /\ AtStep' = [AtStep EXCEPT ![n] = "begin"]
          /\ UNCHANGED <<Callee, InPhase, Lamps, Ages, Left>>
      BY <1>2, <2>1, View DEF BeforeDark
    <2> QED
      BY <2>1, <2>2 DEF Cal!Local, Cal!Unready, Cal!Goto, Cal!measured, Cal!lamps
  <1>5. CASE K!Begin(n)
    <2>1. led[n] = Samples + 1 /\ kpc[n] = "begin" /\ Samples + 1 # 0
      BY <1>5, ProceduresAssumption DEF ControlledInv, Within, K!Controlled, K!Begin
    <2>2. /\ kpc'[n] = "settle" /\ handler'[n] = handler[n] /\ phase'[n] = "ext"
          /\ led'[n] = 0 /\ since'[n] = 0 /\ ktimer'[n] = WaitLed
          /\ kstate' = [kstate EXCEPT ![n] = "ext"] /\ ksender' = [ksender EXCEPT ![n] = 0]
          /\ UNCHANGED <<kreceiver, kready, dark, Y, sample>>
      BY <1>1, <1>5, <2>1 DEF K!Begin, K!Goto, K!WriteLed, K!Off
    <2>3. /\ AtStep[n] = "begin" /\ AtStep' = [AtStep EXCEPT ![n] = "settle"]
          /\ Callee' = Callee /\ InPhase' = [InPhase EXCEPT ![n] = "ext"]
          /\ Lamps[n] = Samples + 1 /\ Lamps' = [Lamps EXCEPT ![n] = 0]
          /\ Ages' = [Ages EXCEPT ![n] = 0] /\ Left' = [Left EXCEPT ![n] = WaitLed]
      BY <1>2, <2>1, <2>2, View DEF BeforeDark
    <2> QED
      BY <2>1, <2>2, <2>3 DEF Cal!Local, Cal!Begin, Cal!Goto, Cal!WriteLed, Cal!Off
  <1> QED
    BY <1>3, <1>4, <1>5

(* What a board does between two packets. *)
LEMMA LocalAlike ==
    ASSUME LocalInv, CalibrationInv, ControlledInv, Cal!IInv, NEW n \in Node,
           loc[n] = "calibrating", kpc[n] # "idle", K!Local(n), loc' = loc,
           \A m \in Node : Returned(m)' <=> Returned(m)
    PROVE  Cal!Local(n)
  <1> USE DEF K!Goto, K!exchanged, K!measured, K!lamps, Cal!Goto, Cal!exchanged,
              Cal!measured, Cal!lamps
  <1>1. K!Step(n)
    BY DEF K!Step
  <1> DEFINE Seen ==
        /\ AtStep[n] = kpc[n] /\ InPhase[n] = phase[n] /\ Lamps[n] = led[n]
        /\ Ages[n] = since[n] /\ Left[n] = ktimer[n] /\ Callee' = Callee
        /\ \A l : kpc' = [kpc EXCEPT ![n] = l] => AtStep' = [AtStep EXCEPT ![n] = l]
        /\ \A p : phase' = [phase EXCEPT ![n] = p] => InPhase' = [InPhase EXCEPT ![n] = p]
        /\ \A l : led' = [led EXCEPT ![n] = l] => Lamps' = [Lamps EXCEPT ![n] = l]
        /\ \A t : since' = [since EXCEPT ![n] = t] => Ages' = [Ages EXCEPT ![n] = t]
        /\ \A t : ktimer' = [ktimer EXCEPT ![n] = t] => Left' = [Left EXCEPT ![n] = t]
        /\ phase' = phase => InPhase' = InPhase
        /\ led' = led => Lamps' = Lamps
        /\ since' = since => Ages' = Ages
        /\ ktimer' = ktimer => Left' = Left
  <1>2. kpc[n] \notin BeforeDark => Seen
    BY <1>1, ViewWithin
  <1> HIDE DEF Seen
  <1>3. ASSUME NEW l, K!WriteLed(n, l), Seen PROVE Cal!WriteLed(n, l)
    BY <1>3 DEF K!WriteLed, Cal!WriteLed, Seen
  <1>4. ASSUME NEW s, NEW k, K!BeginStage(n, s, k), Seen PROVE Cal!BeginStage(n, s, k)
    <2>1. K!Lit(k) = Cal!Lit(k)
      BY DEF K!Lit, Cal!Lit
    <2> QED
      BY <1>3, <1>4, <2>1 DEF K!BeginStage, Cal!BeginStage, Seen
  <1>5. CASE K!Start(n)
    BY <1>5 DEF K!Start
  <1>6. CASE K!Install(n) \/ K!Unready(n) \/ K!Begin(n)
    BY <1>1, <1>6, BeginsAlike
  <1>7. CASE K!Settled(n)
    <2>1. Seen /\ kpc[n] = "settle" /\ ktimer[n] = 0 /\ Within(n)
      BY <1>2, <1>7 DEF K!Settled, BeforeDark, Within
    <2>2. Cal!Structure(n) /\ Cal!MASTER = MASTER /\ K!MASTER = MASTER
      BY CalNames DEF Cal!IInv, Cal!TypeInv, K!MASTER, MASTER
    <2>3. /\ phase[n] = "on" => ksender[n] = n
          /\ phase[n] = "ext" /\ n = MASTER => ksender[n] = n
      BY <2>1, <2>2, CalNames DEF Cal!Structure, Seen
    <2>4. phase[n] = "on" \/ (phase[n] = "ext" /\ n = MASTER) => Cal!Reading = K!Reading
      BY <2>1, <2>3, ReadingSame
    <2>5. Cal!Settled(n)
      BY <1>7, <2>1, <2>2, <2>4 DEF K!Settled, Cal!Settled, Seen
    <2> QED
      BY <2>5 DEF Cal!Local
  <1>8. CASE K!Target(n) \/ K!NextReceiver(n) \/ K!Poll(n) \/ K!Clear(n)
    <2>1. Seen
      BY <1>2, <1>8 DEF K!Target, K!NextReceiver, K!Poll, K!Clear, BeforeDark
    <2>2. Cal!Target(n) \/ Cal!NextReceiver(n) \/ Cal!Poll(n) \/ Cal!Clear(n)
      BY <1>8, <2>1 DEF Seen, K!Target, K!NextReceiver, K!Poll, K!Clear, Cal!Target,
         Cal!NextReceiver, Cal!Poll, Cal!Clear
    <2> QED
      BY <2>2 DEF Cal!Local
  <1>9. CASE K!Heard(n) \/ K!Take(n) \/ K!External(n) \/ K!WaitOff(n)
    <2>1. Seen
      BY <1>2, <1>9 DEF K!Heard, K!Take, K!External, K!WaitOff, BeforeDark
    <2>2. Cal!Heard(n) \/ Cal!Take(n) \/ Cal!External(n) \/ Cal!WaitOff(n)
      BY <1>9, <2>1 DEF Seen, K!Heard, K!Take, K!External, K!WaitOff, Cal!Heard, Cal!Take,
         Cal!External, Cal!WaitOff
    <2> QED
      BY <2>2 DEF Cal!Local
  <1>10. CASE K!FirstStage(n)
    <2>1. Seen
      BY <1>2, <1>10 DEF K!FirstStage, BeforeDark
    <2>2. Cal!FirstStage(n)
      BY <1>4, <1>10, <2>1 DEF Seen, K!FirstStage, Cal!FirstStage
    <2> QED
      BY <2>2 DEF Cal!Local
  <1>11. CASE K!TurnOff(n)
    <2>1. Seen
      BY <1>2, <1>11 DEF K!TurnOff, BeforeDark
    <2>2. K!WriteLed(n, 0)
      BY <1>11 DEF K!TurnOff, K!Off
    <2>3. Cal!WriteLed(n, Cal!Off)
      BY <1>3, <2>1, <2>2 DEF Cal!Off
    <2>4. Cal!TurnOff(n)
      BY <1>11, <2>1, <2>3 DEF Seen, K!TurnOff, Cal!TurnOff
    <2> QED
      BY <2>4 DEF Cal!Local
  <1>12. CASE K!Leave(n)
    <2>1. Seen
      BY <1>2, <1>12 DEF K!Leave, BeforeDark
    <2>2. Cal!EndStage(n)
      BY <1>4, <1>12, <2>1 DEF Seen, K!Leave, K!EndStage, Cal!EndStage
    <2>3. Cal!Leave(n)
      BY <1>12, <2>1, <2>2 DEF Seen, K!Leave, Cal!Leave
    <2> QED
      BY <2>3 DEF Cal!Local
  <1> QED
    BY <1>5, <1>6, <1>7, <1>8, <1>9, <1>10, <1>11, <1>12 DEF K!Local

(* A packet is accepted by whom the specification has accept it: a board   *)
(* that is back in its loop listens to no calibration, one that is done    *)
(* expects nothing from anyone.                                            *)
LEMMA SameAccepts ==
    ASSUME Cal!IInv, CallbacksInv, NEW m \in Node, NEW n \in Node, NEW t
    PROVE  Cal!Accepts(m, n, t) <=> K!Accepts(m, n, t)
  <1>1. CASE loc[m] = "calibrating"
    BY <1>1 DEF Cal!Accepts, K!Accepts, Callee
  <1>2. CASE loc[m] # "calibrating"
    <2>1. handler[m] # "calibration"
      BY <1>2 DEF CallbacksInv, Callbacks
    <2>2. Callee[m] = "calibration" => AtStep[m] = "done"
      BY <1>2 DEF Callee, AtStep
    <2>3. AtStep[m] = "done" => ksender[m] = N
      BY CalNames DEF Cal!IInv, Cal!TypeInv, Cal!Structure
    <2>4. m # N /\ n # N
      BY NodeFacts
    <2> QED
      BY <2>1, <2>2, <2>3, <2>4 DEF Cal!Accepts, K!Accepts
  <1> QED
    BY <1>1, <1>2

LEMMA TransmitAlike ==
    ASSUME LocalInv, CalibrationInv, CallbacksInv, Cal!IInv, NEW n \in Node,
           loc[n] = "calibrating", NEW a \in Arrival("SYN"), K!Transmit(n, a), loc' = loc,
           \A m \in Node : Returned(m)' <=> Returned(m)
    PROVE  Cal!Transmit(n, a)
  <1>1. K!Step(n)
    BY DEF K!Step, Arrival, K!Arrival
  <1>2. kpc[n] = "send" /\ Within(n)
    BY DEF K!Transmit, Within
  <1>3. /\ AtStep[n] = "send" /\ InPhase[n] = phase[n] /\ Callee' = Callee
        /\ AtStep' = [AtStep EXCEPT ![n] = "poll"] /\ Left' = [Left EXCEPT ![n] = Wait]
        /\ UNCHANGED <<InPhase, Lamps, Ages, ksender, kreceiver, sample>>
    BY <1>1, <1>2, ViewWithin DEF K!Transmit, K!Goto, K!lamps, BeforeDark
  <1> DEFINE m == kreceiver[n]
  <1>4. m \in Node
    BY <1>2 DEF CalibrationInv, CalibrationBounds
  <1>5. /\ Cal!TypeInv /\ Cal!HandshakeInv /\ Cal!BarrierInv /\ Cal!SkewInv
        /\ Cal!Request(m)
    BY <1>4, CalNames DEF Cal!IInv, Cal!DataInv
  <1>6. ASSUME K!Accepts(m, n, "SYN")
        PROVE  kstate[m] = "off" \/ Cal!Reading = K!Reading
    <2>1. Cal!Accepts(m, n, "SYN")
      BY <1>4, <1>6, SameAccepts
    <2>2. /\ m # n /\ ksender[m] = n /\ ksender[n] = n /\ AtStep[m] \in {"settle", "wait"}
          /\ ~ Cal!Engaged(m) /\ InPhase[m] = InPhase[n]
      BY <1>3, <1>4, <1>5, <2>1, CalNames, CalAssumptions, Cal!AcceptRequest
    <2>3. phase[n] = "off" => kstate[m] = "off"
      BY <1>3, <1>5, <2>2, CalNames DEF Cal!Request
    <2>4. phase[n] # "off" => Cal!Reading = K!Reading
      BY <1>2, <2>2, ReadingSame
    <2> QED
      BY <2>3, <2>4
  <1>7. K!Measure(m) /\ (kstate[m] = "off" \/ Cal!Reading = K!Reading) => Cal!Measure(m)
    BY DEF K!Measure, Cal!Measure, K!PutReading, Cal!PutReading, K!Place, Cal!Place
  <1>8. K!SendPacket(n, m, "SYN", a) => Cal!SendPacket(n, m, "SYN", a)
    <2>1. Cal!Accepts(m, n, "SYN") <=> K!Accepts(m, n, "SYN")
      BY <1>4, SameAccepts
    <2> QED
      BY <1>6, <1>7, <2>1 DEF K!SendPacket, K!OnReceive, Cal!SendPacket, Cal!OnReceive,
         K!exchanged, K!measured, Cal!exchanged, Cal!measured
  <1> QED
    BY <1>3, <1>8 DEF K!Transmit, Cal!Transmit, Cal!Goto, Cal!lamps

LEMMA ReplyAlike ==
    ASSUME LocalInv, CalibrationInv, CallbacksInv, Cal!IInv, NEW n \in Node,
           loc[n] = "calibrating", NEW a \in Arrival("ACK"), K!Reply(n, a), loc' = loc,
           \A m \in Node : Returned(m)' <=> Returned(m)
    PROVE  Cal!Reply(n, a)
  <1>1. K!Step(n)
    BY DEF K!Step, Arrival, K!Arrival
  <1>2. kpc[n] = "reply"
    BY DEF K!Reply
  <1>3. /\ AtStep[n] = "reply" /\ Callee' = Callee
        /\ AtStep' = [AtStep EXCEPT ![n] = "replied"]
        /\ UNCHANGED <<InPhase, Lamps, Ages, Left, ksender, kreceiver, sample>>
    BY <1>1, <1>2, ViewWithin DEF K!Reply, K!Goto, K!lamps, BeforeDark
  <1>4. ksender[n] \in Node
    BY <1>3, CalNames DEF Cal!IInv, Cal!TypeInv, Cal!Structure, Cal!Answering
  <1>5. K!SendPacket(n, ksender[n], "ACK", a) => Cal!SendPacket(n, ksender[n], "ACK", a)
    <2>1. Cal!Accepts(ksender[n], n, "ACK") <=> K!Accepts(ksender[n], n, "ACK")
      BY <1>4, SameAccepts
    <2> QED
      BY <2>1 DEF K!SendPacket, K!OnReceive, Cal!SendPacket, Cal!OnReceive,
         K!exchanged, K!measured, Cal!exchanged, Cal!measured
  <1> QED
    BY <1>3, <1>5 DEF K!Reply, Cal!Reply, Cal!Goto, Cal!lamps

LEMMA RunMeasure ==
    ASSUME RepliesArrive, LocalInv, CalibrationInv, CommandsInv, CallbacksInv, ModesInv,
           ControlledInv, Cal!IInv, ~ rushed, NEW n \in Node, Measure(n)
    PROVE  Cal!IInv'
  <1>1. loc[n] = "calibrating" /\ K!Step(n) /\ loc' = loc /\ Own(n)
    BY DEF Measure, mainVars, Own
  <1>2. kpc[n] # "idle"
    BY <1>1 DEF CallbacksInv, Callbacks
  <1>3. \A m \in Node : Returned(m)' <=> Returned(m)
    <2>1. ~ Calibrated(n)
      <3>1. loc[n] \in {"reset", "resetRef", "resetBound", "resetMode", "calibrate", "calibrating"}
        BY <1>1
      <3>2. Calibrates(n) /\ Calibrates(n)'
        BY <1>1 DEF Calibrates
      <3> QED
        BY <1>1, <3>2, CalibratesOwn
    <2>2. \A m \in Node : Calibrates(m)' <=> Calibrates(m)
      BY <1>1, <2>1, CalibratesOwn
    <2> QED
      BY <2>2, SameReturned
  <1>4. Cal!Step(n)
    <2>1. CASE K!Local(n)
      BY <1>1, <1>2, <1>3, <2>1, LocalAlike DEF Cal!Step
    <2>2. ASSUME NEW a \in K!Arrival("SYN"), K!Transmit(n, a) PROVE Cal!Step(n)
      <3>1. a \in Arrival("SYN") /\ a \in Cal!Arrival("SYN")
        BY <2>2 DEF Arrival, K!Arrival, Cal!Arrival
      <3> QED
        BY <1>1, <1>3, <2>2, <3>1, TransmitAlike DEF Cal!Step
    <2>3. ASSUME NEW a \in K!Arrival("ACK"), K!Reply(n, a) PROVE Cal!Step(n)
      <3>1. a \in Arrival("ACK") /\ a \in Cal!Arrival("ACK")
        BY <2>3 DEF Arrival, K!Arrival, Cal!Arrival
      <3> QED
        BY <1>1, <1>3, <2>3, <3>1, ReplyAlike DEF Cal!Step
    <2> QED
      BY <1>1, <2>1, <2>2, <2>3 DEF K!Step
  <1>5. [Cal!Next]_Cal!vars
    BY <1>4, CalNames DEF Cal!Next
  <1>6. Cal!RepliesArrive
    BY DEF Cal!RepliesArrive, RepliesArrive
  <1>7. Cal!RepliesArrive /\ Cal!IInv /\ [Cal!Next]_Cal!vars => Cal!IInv'
    BY Cal!InvStep, CalAssumptions
  <1> QED
    BY <1>5, <1>6, <1>7

(* doCalibration calls the calibration. *)
LEMMA RunCalibrate ==
    ASSUME RepliesArrive, LocalInv, CalibrationInv, CommandsInv, ModesInv, Cal!IInv, ~ rushed,
           NEW n \in Node, Calibrate(n)
    PROVE  Cal!IInv'
  <1>1. /\ loc[n] = "calibrate" /\ loc' = [loc EXCEPT ![n] = "calibrating"]
        /\ kpc[n] = "idle" /\ kpc' = [kpc EXCEPT ![n] = "install"]
        /\ UNCHANGED <<handler, phase, ksender, kreceiver, kready, kstate, dark, Y, sample,
                       led, since, ktimer>>
        /\ Own(n)
    BY DEF Calibrate, Goto, K!Start, K!Goto, K!exchanged, K!measured, K!lamps, Own
  <1>2. /\ kpc \in [Node -> K!Location] /\ MainTypeOK /\ handler[n] = "communication"
    BY <1>1, CalibrationTypesOK DEF CalibrationInv, CalibrationTypes, LocalInv, Listens
  <1>3. /\ loc'[n] = "calibrating" /\ kpc'[n] = "install"
        /\ \A m \in Node : m # n => loc'[m] = loc[m] /\ kpc'[m] = kpc[m]
    BY <1>1, <1>2 DEF MainTypeOK
  <1>4. Calibrates(n) /\ ~ Calibrated(n)
    BY <1>1 DEF Calibrates, Calibrated
  <1>5. \A m \in Node : Calibrates(m)' <=> Calibrates(m)
    BY <1>1, <1>4, CalibratesOwn
  <1>6. \A m \in Node : Returned(m)' <=> Returned(m)
    BY <1>5, SameReturned
  <1>7. ~ Returned(n)
    BY <1>4 DEF Returned
  <1>8. \A m \in Node : Within(m)' <=> Within(m)
    BY <1>1, <1>3 DEF Within
  <1>9. AtStep[n] = "idle" /\ AtStep' = [AtStep EXCEPT ![n] = "install"]
    <2> DEFINE A(m) == IF loc[m] = "calibrating" THEN kpc[m]
                       ELSE IF Returned(m) THEN "done" ELSE "idle"
    <2>1. AtStep = [m \in Node |-> A(m)] /\ AtStep' = [m \in Node |-> A(m)']
      BY DEF AtStep
    <2>2. A(n) = "idle" /\ A(n)' = "install"
      BY <1>1, <1>3, <1>7
    <2>3. \A m \in Node : m # n => A(m)' = A(m)
      BY <1>3, <1>6
    <2> HIDE DEF A
    <2> QED
      BY <2>1, <2>2, <2>3
  <1>10. Callee' = Callee
    BY <1>1, <1>2, <1>3, <1>6, <1>7 DEF Callee
  <1>11. InPhase' = InPhase /\ Lamps' = Lamps
    BY <1>1, <1>6, <1>8 DEF InPhase, Lamps
  <1>12. Ages' = Ages /\ Left' = Left
    BY <1>1, <1>8 DEF Ages, Left
  <1>13. Cal!Start(n)
    BY <1>1, <1>9, <1>10, <1>11, <1>12
       DEF Cal!Start, Cal!Goto, Cal!exchanged, Cal!measured, Cal!lamps
  <1>14. [Cal!Next]_Cal!vars
    BY <1>13, CalNames DEF Cal!Next, Cal!Step, Cal!Local
  <1>15. Cal!RepliesArrive
    BY DEF Cal!RepliesArrive, RepliesArrive
  <1>16. Cal!RepliesArrive /\ Cal!IInv /\ [Cal!Next]_Cal!vars => Cal!IInv'
    BY Cal!InvStep, CalAssumptions
  <1> QED
    BY <1>14, <1>15, <1>16

(* No calibration is going on: the specification is where its runs begin.  *)
AllIdle ==
    /\ AtStep = [m \in Node |-> "idle"] /\ Callee = [m \in Node |-> "communication"]
    /\ InPhase = [m \in Node |-> "ext"] /\ Lamps = [m \in Node |-> Samples + 1]
    /\ Ages = [m \in Node |-> Settle] /\ Left = [m \in Node |-> 0]
    /\ \A m \in Node : ksender[m] \in {0, N} /\ sample[m] \in {0, Samples} /\ ~ kready[m]

LEMMA RunBegins ==
    /\ CalibrationTypes /\ AllIdle => Cal!IInv
    /\ (CalibrationTypes /\ AllIdle => Cal!IInv)'
  <1>1. ASSUME CalibrationTypes, AllIdle PROVE Cal!IInv
    <2>1. /\ "idle" \in K!Location /\ "communication" \in Callback
          /\ Samples + 1 \in K!Level /\ Settle \in 0 .. Settle /\ 0 \in 0 .. 0 /\ 0 \in Nat
      BY ProceduresAssumption DEF K!Location, Callback, K!Level
    <2>2. Cal!TypeOK
      <3>1. /\ Callee \in [Node -> Callback] /\ AtStep \in [Node -> K!Location]
            /\ InPhase \in [Node -> {"ext", "on", "off"}] /\ Lamps \in [Node -> K!Level]
            /\ Ages \in [Node -> 0 .. Settle] /\ Left \in [Node -> Nat]
        BY <1>1, <2>1 DEF AllIdle
      <3> QED
        BY <1>1, <2>1, <3>1, CalNames DEF Cal!TypeOK, CalibrationTypes
    <2>3. ASSUME NEW m \in Node PROVE Cal!Structure(m)
      <3>1. /\ AtStep[m] = "idle" /\ Callee[m] = "communication" /\ InPhase[m] = "ext"
            /\ Left[m] = 0 /\ ksender[m] \in {0, N} /\ sample[m] \in {0, Samples}
        BY <1>1 DEF AllIdle
      <3> QED
        BY <3>1, CalNames
           DEF Cal!Structure, Cal!Sending, Cal!Offering, Cal!Answering
    <2>4. ASSUME NEW m \in Node PROVE Cal!Lamp(m)
      <3>1. AtStep[m] = "idle" /\ Lamps[m] = Samples + 1 /\ Ages[m] = Settle
        BY <1>1 DEF AllIdle
      <3> QED
        BY <3>1, CalNames DEF Cal!Lamp
    <2>5. Cal!TypeInv
      BY <2>2, <2>3, <2>4, CalNames DEF Cal!TypeInv
    <2>6. \A m \in Node : AtStep[m] = "idle" /\ ~ kready[m]
      BY <1>1 DEF AllIdle
    <2> QED
      BY <2>5, <2>6, CalNames, CalAssumptions, Cal!InvIdle
  <1>2. CalibrationTypes /\ AllIdle => Cal!IInv
    BY <1>1
  <1> QED
    BY <1>2, PTL

(* A board that returns before others is seen as it was; with the last one *)
(* that returns the calibration is over.                                   *)
LEMMA RunCalibrated ==
    ASSUME RepliesArrive, LocalInv, CalibrationInv, CalibrationInv', CommandsInv, CallbacksInv,
           ModesInv, Cal!IInv, ~ rushed, NEW n \in Node, Calibrated(n)
    PROVE  Cal!IInv'
  <1>1. /\ loc[n] = "calibrating" /\ kpc[n] = "done"
        /\ loc' = [loc EXCEPT ![n] = "loop"] /\ kpc' = [kpc EXCEPT ![n] = "idle"]
        /\ handler' = [handler EXCEPT ![n] = "communication"]
        /\ led' = [led EXCEPT ![n] = Samples + 1] /\ since' = [since EXCEPT ![n] = 0]
        /\ UNCHANGED <<phase, ksender, kreceiver, kready, kstate, sample, dark, Y, ktimer>>
        /\ Own(n)
    BY DEF Calibrated, Goto, Own, K!Controlled
  <1>2. CalibrationTypes /\ CalibrationTypes' /\ MainTypeOK
    BY CalibrationTypesOK DEF CalibrationInv, LocalInv
  <1>3. /\ loc'[n] = "loop"
        /\ \A m \in Node : m # n => /\ loc'[m] = loc[m] /\ kpc'[m] = kpc[m]
                                    /\ handler'[m] = handler[m] /\ led'[m] = led[m]
                                    /\ since'[m] = since[m]
    BY <1>1, <1>2 DEF MainTypeOK, CalibrationTypes
  <1>4. /\ Calibrates(n) /\ ~ Calibrates(n)'
        /\ \A m \in Node : m # n => (Calibrates(m)' <=> Calibrates(m))
    BY <1>1, CalibratesOwn
  <1>5. ASSUME NEW m \in Node PROVE Cal!Structure(m) /\ Cal!Lamp(m) /\ Cal!ReadyDiscipline(m)
    BY CalNames DEF Cal!IInv, Cal!TypeInv, Cal!HandshakeInv
  <1>6. /\ AtStep[n] = "done" /\ Callee[n] = handler[n] /\ InPhase[n] = phase[n]
        /\ Lamps[n] = led[n] /\ Ages[n] = since[n] /\ Left[n] = ktimer[n]
    BY <1>1 DEF AtStep, Callee, InPhase, Lamps, Ages, Left, Within
  <1>7. /\ phase[n] = "off" /\ handler[n] = "calibration" /\ led[n] = 0 /\ since[n] = Settle
        /\ ktimer[n] = 0
    <2>1. /\ InPhase[n] = "off" /\ Callee[n] = "calibration" /\ ksender[n] = N /\ Left[n] = 0
      BY <1>5, <1>6, CalNames DEF Cal!Structure
    <2>2. Lamps[n] = 0 /\ Ages[n] = Settle
      BY <1>5, <1>6, <2>1, CalNames DEF Cal!Lamp
    <2> QED
      BY <1>6, <2>1, <2>2
  <1>8. ~ Within(n)' /\ \A m \in Node : m # n => (Within(m)' <=> Within(m))
    BY <1>3 DEF Within
  <1>9. CASE \E m \in Node : m # n /\ Calibrates(m)
    <2>1. Returned(n)' /\ \A m \in Node : m # n => (Returned(m)' <=> Returned(m))
      BY <1>4, <1>9 DEF Returned
    <2>2. \A m \in Node : /\ AtStep'[m] = AtStep[m] /\ Callee'[m] = Callee[m]
                          /\ InPhase'[m] = InPhase[m] /\ Lamps'[m] = Lamps[m]
                          /\ Ages'[m] = Ages[m] /\ Left'[m] = Left[m]
      <3>1. ASSUME NEW m \in Node, m # n
            PROVE  /\ AtStep'[m] = AtStep[m] /\ Callee'[m] = Callee[m]
                   /\ InPhase'[m] = InPhase[m] /\ Lamps'[m] = Lamps[m]
                   /\ Ages'[m] = Ages[m] /\ Left'[m] = Left[m]
        BY <1>1, <1>3, <1>8, <2>1, <3>1 DEF AtStep, Callee, InPhase, Lamps, Ages, Left
      <3>2. /\ AtStep'[n] = "done" /\ Callee'[n] = "calibration" /\ InPhase'[n] = "off"
            /\ Lamps'[n] = 0 /\ Ages'[n] = Settle /\ Left'[n] = 0
        BY <1>3, <1>8, <2>1 DEF AtStep, Callee, InPhase, Lamps, Ages, Left
      <3> QED
        BY <1>6, <1>7, <3>1, <3>2
    <2>3. UNCHANGED <<AtStep, Callee>>
      BY <2>2 DEF AtStep, Callee
    <2>4. UNCHANGED <<InPhase, Lamps>>
      BY <2>2 DEF InPhase, Lamps
    <2>5. UNCHANGED <<Ages, Left>>
      BY <2>2 DEF Ages, Left
    <2> QED
      BY <1>1, <2>3, <2>4, <2>5, RunKept
  <1>10. CASE ~ \E m \in Node : m # n /\ Calibrates(m)
    <2>1. \A m \in Node : ~ Calibrates(m)' /\ ~ Returned(m)'
      BY <1>4, <1>10 DEF Returned
    <2>2. \A m \in Node : loc'[m] # "calibrating" /\ ~ Within(m)'
      BY <2>1 DEF Calibrates, Within
    <2>3. \A m \in Node : AtStep[m] = "done"
      <3>1. \A m \in Node : m # n => Returned(m) /\ loc[m] # "calibrating"
        BY <1>4, <1>10 DEF Returned, Calibrates
      <3> QED
        BY <1>6, <3>1 DEF AtStep
    <2>4. \A m \in Node : ksender[m] = N /\ sample[m] = Samples /\ ~ kready[m]
      BY <1>5, <2>3, CalNames DEF Cal!Structure, Cal!ReadyDiscipline
    <2>5. /\ AtStep' = [m \in Node |-> "idle"] /\ Callee' = [m \in Node |-> "communication"]
          /\ InPhase' = [m \in Node |-> "ext"] /\ Lamps' = [m \in Node |-> Samples + 1]
          /\ Ages' = [m \in Node |-> Settle] /\ Left' = [m \in Node |-> 0]
      BY <2>1, <2>2 DEF AtStep, Callee, InPhase, Lamps, Ages, Left
    <2>6. AllIdle'
      BY <1>1, <2>4, <2>5 DEF AllIdle
    <2> QED
      BY <1>2, <2>6, RunBegins
  <1> QED
    BY <1>9, <1>10

(* Time passes for no calibration, or for one that every board has begun.  *)
LEMMA RunTick ==
    ASSUME RepliesArrive, LocalInv, CalibrationInv, CommandsInv, CallbacksInv, ModesInv,
           Cal!IInv, ~ rushed, Tick
    PROVE  Cal!IInv'
  <1>1. /\ \A n \in Node : ~ Busy(n)
        /\ ktimer' = C!Elapsed(ktimer) /\ since' = K!Aged(since)
        /\ UNCHANGED <<handler, mode, loc, reset, command, target, serial, kpc, phase, ksender,
                       kreceiver, kready, kstate, sample, led, dark, Y>>
    BY DEF Tick, flags, line
  <1>2. /\ \A n \in Node : Calibrates(n)' <=> Calibrates(n)
        /\ \A n \in Node : Returned(n)' <=> Returned(n)
        /\ \A n \in Node : Within(n)' <=> Within(n)
    BY <1>1 DEF Calibrates, Untold, Current, Returned, Within
  <1>3. /\ AtStep' = AtStep /\ Callee' = Callee
        /\ InPhase' = InPhase /\ Lamps' = Lamps
    BY <1>1, <1>2 DEF AtStep, Callee, InPhase, Lamps
  <1>4. CASE \A n \in Node : ~ Calibrates(n)
    <2>1. \A n \in Node : ~ Within(n)
      BY <1>4 DEF Within, Calibrates
    <2>2. Ages' = Ages /\ Left' = Left
      BY <1>2, <2>1 DEF Ages, Left
    <2> QED
      BY <1>1, <1>3, <2>2, RunKept
  <1>5. CASE \E n \in Node : Calibrates(n)
    <2>1. ASSUME NEW n \in Node, Calibrates(n) PROVE loc[n] = "calibrating"
      <3>1. serial = <<>> /\ loc[MASTER] \notin {"process", "forward"}
        <4>1. loc[MASTER] \notin {"process", "forward"}
          BY <1>1, NodeFacts DEF Busy
        <4>2. serial = <<>>
          <5>1. loc[MASTER] = "loop" => serial = <<>>
            BY <1>1, NodeFacts DEF Busy
          <5> QED
            BY <5>1, LineIsEmpty
        <4> QED
          BY <4>1, <4>2
      <3>2. ~ Untold(n)
        BY <3>1 DEF Untold
      <3>3. ~ Busy(n) /\ loc[n] \notin {"changed", "react", "solve", "solving"}
        BY <1>1, <2>1 DEF ModesInv
      <3>4. loc[n] \in {"loop", "calibrating"}
        BY <3>3 DEF Busy
      <3>5. loc[n] = "loop" => ~ reset[n] /\ mode[n] # "calibration"
        BY <3>3 DEF Busy, Pending
      <3>6. reset[n] => loc[n] \in {"loop", "update", "reset"}
        BY DEF ModesInv
      <3> QED
        BY <2>1, <3>2, <3>4, <3>5, <3>6 DEF Calibrates
    <2>2. ASSUME NEW n \in Node
          PROVE  /\ ~ Cal!Busy(n) /\ AtStep[n] # "idle"
                 /\ Left'[n] = IF Left[n] > 0 THEN Left[n] - 1 ELSE 0
                 /\ Ages'[n] = IF Ages[n] < Settle THEN Ages[n] + 1 ELSE Settle
      <3>1. CASE Calibrates(n)
        <4>1. loc[n] = "calibrating" /\ ~ K!Busy(n) /\ kpc[n] # "idle"
          BY <1>1, <2>1, <3>1 DEF Busy, CallbacksInv, Callbacks
        <4>2. Within(n) /\ Within(n)'
          BY <1>2, <4>1 DEF K!Busy, Within
        <4>3. AtStep[n] = kpc[n] /\ Left[n] = ktimer[n] /\ Ages[n] = since[n]
          BY <4>1, <4>2 DEF AtStep, Left, Ages
        <4>4. Left'[n] = ktimer'[n] /\ Ages'[n] = since'[n]
          BY <4>2 DEF Left, Ages
        <4>5. /\ ktimer'[n] = IF ktimer[n] > 0 THEN ktimer[n] - 1 ELSE 0
              /\ since'[n] = IF since[n] < Settle THEN since[n] + 1 ELSE Settle
          BY <1>1, SameNodes DEF C!Elapsed, K!Aged
        <4> QED
          BY <4>1, <4>3, <4>4, <4>5 DEF K!Busy, Cal!Busy
      <3>2. CASE ~ Calibrates(n)
        <4>1. Returned(n) /\ loc[n] # "calibrating"
          BY <1>5, <3>2 DEF Returned, Calibrates
        <4>2. ~ Within(n) /\ ~ Within(n)'
          BY <1>2, <4>1 DEF Within
        <4>3. AtStep[n] = "done" /\ Left[n] = 0 /\ Ages[n] = Settle
              /\ Left'[n] = 0 /\ Ages'[n] = Settle
          BY <4>1, <4>2 DEF AtStep, Left, Ages
        <4> QED
          BY <4>3, ProceduresAssumption DEF Cal!Busy
      <3> QED
        BY <3>1, <3>2
    <2>3. Left' = Cal!Elapsed(Left)
      <3>1. Left' = [n \in Node |-> Left'[n]]
        BY DEF Left
      <3> QED
        BY <2>2, <3>1, CalNames DEF Cal!Elapsed
    <2>4. Ages' = Cal!Aged(Ages)
      <3>1. Ages' = [n \in Node |-> Ages'[n]]
        BY DEF Ages
      <3> QED
        BY <2>2, <3>1, CalNames DEF Cal!Aged
    <2>5. Cal!Started = Cal!Node
      BY <2>2, CalNames DEF Cal!Started
    <2>6. Cal!Passes
      BY <1>1, <1>3, <2>2, <2>3, <2>4, <2>5, CalNames
         DEF Cal!Passes, Cal!exchanged, Cal!measured
    <2> QED
      BY <2>6, CalAssumptions, Cal!InvPasses
  <1> QED
    BY <1>4, <1>5

(* A board lights its lamp for the calibration only while it takes part. *)
LEMMA ControlledStep ==
    ASSUME LocalInv, CalibrationInv, CallbacksInv, ControlledInv, [Next]_vars
    PROVE  ControlledInv'
  <1>1. /\ kpc \in [Node -> K!Location] /\ led \in [Node -> K!Level] /\ MainTypeOK
    BY CalibrationTypesOK DEF CalibrationInv, CalibrationTypes, LocalInv
  <1>2. ASSUME UNCHANGED <<kpc, led>>,
               \A n \in Node : loc'[n] = "calibrating" <=> loc[n] = "calibrating"
        PROVE  ControlledInv'
    BY <1>2 DEF ControlledInv, Within, K!Controlled
  <1>3. CASE Tick \/ UNCHANGED vars \/ \E o \in Order : Type(o)
    BY <1>2, <1>3 DEF Tick, Type, vars, mainVars, calibVars
  <1>4. CASE Master
    <2>1. UNCHANGED calibVars
      BY <1>4 DEF Master, ReadCommand, Process, Apply, Forward
    <2>2. /\ loc[MASTER] # "calibrating" /\ \/ loc' = loc
                                            \/ loc' = [loc EXCEPT ![MASTER] = "process"]
                                            \/ loc' = [loc EXCEPT ![MASTER] = "forward"]
                                            \/ loc' = [loc EXCEPT ![MASTER] = "update"]
      BY <1>4 DEF Master, ReadCommand, Process, Apply, Forward, Goto
    <2>3. \A n \in Node : loc'[n] = "calibrating" <=> loc[n] = "calibrating"
      BY <1>1, <2>2, NodeFacts DEF MainTypeOK
    <2> QED
      BY <1>2, <2>1, <2>3 DEF calibVars
  <1>5. ASSUME NEW n \in Node, Own(n) PROVE ControlledInv'
    <2>1. \A m \in Node : m # n => loc'[m] = loc[m]
      BY <1>5, OwnFrame
    <2>2. CASE Measure(n)
      <3>1. loc' = loc /\ K!Step(n) /\ loc[n] = "calibrating"
        BY <2>2 DEF Measure, mainVars
      <3>2. ASSUME NEW m \in Node, m # n, ~ Within(m)' PROVE led'[m] = Samples + 1
        <4>1. kpc'[m] = kpc[m] /\ led'[m] = led[m]
          BY <3>1, <3>2, CalibrationLamps
        <4> QED
          BY <3>1, <3>2, <4>1 DEF ControlledInv, Within, K!Controlled
      <3>3. ASSUME ~ Within(n)' PROVE led'[n] = Samples + 1
        <4>1. kpc[n] \in BeforeDark /\ led'[n] = led[n]
          BY <3>1, <3>3, CalibrationLamps DEF Within, BeforeDark
        <4> QED
          BY <4>1 DEF ControlledInv, Within, BeforeDark, K!Controlled
      <3> QED
        BY <3>2, <3>3 DEF ControlledInv, K!Controlled
    <2>3. CASE Calibrate(n)
      <3>1. /\ loc[n] = "calibrate" /\ kpc' = [kpc EXCEPT ![n] = "install"] /\ led' = led
        BY <2>3 DEF Calibrate, K!Start, K!Goto, K!lamps
      <3> QED
        BY <1>1, <2>1, <3>1 DEF ControlledInv, Within, K!Controlled
    <2>4. CASE Calibrated(n)
      <3>1. /\ kpc' = [kpc EXCEPT ![n] = "idle"] /\ led' = [led EXCEPT ![n] = Samples + 1]
        BY <2>4 DEF Calibrated, K!Controlled
      <3> QED
        BY <1>1, <2>1, <3>1 DEF ControlledInv, Within, K!Controlled
    <2>5. CASE ~ (Measure(n) \/ Calibrate(n) \/ Calibrated(n))
      BY <1>2, <1>5, <2>1, <2>5, OtherSteps DEF Own, calibVars
    <2> QED
      BY <2>2, <2>3, <2>4, <2>5
  <1> QED
    BY <1>3, <1>4, <1>5 DEF Next, Board, Own

-----------------------------------------------------------------------------
(* The invariant, and what it says of the light. *)

TogetherInv == ModesInv /\ ControlledInv /\ RunsAsOne

LEMMA TogetherInit == Init => TogetherInv
  <1> SUFFICES ASSUME Init PROVE TogetherInv
    OBVIOUS
  <1>1. /\ loc = [n \in Node |-> "loop"] /\ mode = [n \in Node |-> "control"]
        /\ reset = [n \in Node |-> FALSE] /\ serial = <<>>
        /\ led = [n \in Node |-> Samples + 1] /\ kready = [n \in Node |-> FALSE]
        /\ ksender = [n \in Node |-> 0]
        /\ sample = [n \in Node |-> 0] \/ sample = [n \in Node |-> Samples]
    BY SameNodes DEF Init, K!Init, K!Controlled
  <1>2. \A n \in Node : ~ Calibrates(n) /\ ~ Within(n) /\ loc[n] = "loop"
    BY <1>1, NodeFacts DEF Calibrates, Untold, Within
  <1>3. ModesInv
    BY <1>1, <1>2 DEF ModesInv
  <1>4. ControlledInv
    BY <1>1 DEF ControlledInv, K!Controlled
  <1>5. AllIdle
    <2>1. \A n \in Node : ~ Returned(n)
      BY <1>2 DEF Returned
    <2> QED
      BY <1>1, <1>2, <2>1 DEF AllIdle, AtStep, Callee, InPhase, Lamps, Ages, Left
  <1>6. CalibrationTypes
    BY TypesInit, CalibrationTypesOK DEF TypesInv, CalibrationInv
  <1> QED
    BY <1>3, <1>4, <1>5, <1>6, RunBegins DEF TogetherInv, RunsAsOne

LEMMA TogetherStep ==
    ASSUME RepliesArrive, OrdersArrive, LocalInv, TypesInv, TypesInv', CrossTalkInv,
           CommandsInv, TogetherInv, [Next]_vars
    PROVE  TogetherInv'
  <1>1. /\ CalibrationInv /\ CalibrationInv' /\ CallbacksInv
        /\ ModesInv /\ ControlledInv /\ (~ rushed => Cal!IInv)
    BY DEF TypesInv, CrossTalkInv, TogetherInv, RunsAsOne
  <1>2. ControlledInv'
    BY <1>1, ControlledStep
  <1>3. ASSUME ~ rushed' PROVE ModesInv' /\ Cal!IInv'
    <2>1. CASE UNCHANGED vars
      <3>1. /\ UNCHANGED <<calibVars, handler, loc, mode, reset, command, target, serial>>
            /\ rushed' = rushed
        BY <2>1 DEF vars, mainVars, flags, line
      <3>2. \A n \in Node : Calibrates(n)' <=> Calibrates(n)
        BY <3>1 DEF Calibrates, Untold, Current
      <3>3. ModesInv'
        BY <1>1, <3>1, <3>2 DEF ModesInv
      <3> QED
        BY <1>1, <1>3, <3>1, <3>2, <3>3, SameReturned, KeepsRun
    <2>2. CASE Tick
      <3>1. UNCHANGED <<loc, mode, reset, command, target, serial, rushed>>
        BY <2>2 DEF Tick, flags, line
      <3>2. \A n \in Node : Calibrates(n)' <=> Calibrates(n)
        BY <3>1 DEF Calibrates, Untold, Current
      <3>3. ModesInv'
        BY <1>1, <3>1, <3>2 DEF ModesInv
      <3> QED
        BY <1>1, <1>3, <2>2, <3>1, <3>3, RunTick
    <2>3. ASSUME NEW o \in Order, Type(o) PROVE ModesInv' /\ Cal!IInv'
      <3>1. ~ rushed
        BY <1>3, <2>3 DEF Type
      <3> QED
        BY <1>1, <1>3, <2>3, <3>1, CalibratesTyped, RunTyped
    <2>4. CASE Master
      <3>1. rushed' = rushed
        BY <2>4 DEF Master, ReadCommand, Process, Apply, Forward, line
      <3> QED
        BY <1>1, <1>3, <2>4, <3>1, CalibratesMaster, RunMaster
    <2>5. ASSUME NEW n \in Node, Own(n) PROVE ModesInv' /\ Cal!IInv'
      <3>1. ~ rushed /\ Cal!IInv
        BY <1>1, <1>3, <2>5, OwnFrame
      <3>2. ModesInv'
        BY <1>1, <2>5, <3>1, CalibratesOwn
      <3>3. Cal!IInv'
        BY <1>1, <2>5, <3>1, RunMeasure, RunCalibrate, RunCalibrated, RunOwn DEF Own
      <3> QED
        BY <3>2, <3>3
    <2> QED
      BY <2>1, <2>2, <2>3, <2>4, <2>5 DEF Next, Board, Own
  <1>4. rushed' => ModesInv'
    BY DEF ModesInv
  <1> QED
    BY <1>2, <1>3, <1>4 DEF TogetherInv, RunsAsOne

LEMMA TogetherAlways ==
    ASSUME RepliesArrive, OrdersArrive
    PROVE  Spec => [](CalibrationTypes /\ CallbacksInv /\ TogetherInv)
  <1> DEFINE I == LocalInv /\ TypesInv /\ CrossTalkInv /\ CommandsInv /\ TogetherInv
  <1>1. Init => I
    BY LocalInit, TypesInit, CrossTalkInit, CommandsInit, TogetherInit
  <1>2. I /\ [Next]_vars => I'
    BY LocalStep, TypesStep, CrossTalkStep, CommandsStep, TogetherStep
  <1>3. I => CalibrationTypes /\ CallbacksInv /\ TogetherInv
    BY CalibrationTypesOK DEF CrossTalkInv, TypesInv, CalibrationInv
  <1> QED
    BY <1>1, <1>2, <1>3, PTL DEF Spec

(* While a lamp is lit for a sample, every board takes part. *)
LEMMA LampIsAlone ==
    ASSUME ControlledInv, Cal!IInv, CalibrationTypes, NEW n \in Node, led[n] \in 1 .. Samples,
           NEW m \in Node, m # n
    PROVE  Within(m) /\ led[m] = 0
  <1>1. Within(n)
    <2>1. Samples + 1 \notin 1 .. Samples
      BY ProceduresAssumption
    <2> QED
      BY <2>1 DEF ControlledInv, K!Controlled
  <1>2. AtStep[n] = kpc[n] /\ InPhase[n] = phase[n] /\ Lamps[n] = led[n]
    BY <1>1 DEF Within, AtStep, InPhase, Lamps
  <1>3. /\ AtStep[n] \notin Cal!Outside /\ InPhase[n] = "on" /\ ksender[n] = n
        /\ sample[n] \in Cal!SampleIndex /\ Cal!At(n, n, "on", sample[n])
    BY <1>2, CalNames, CalAssumptions, Cal!LitLamp
  <1>4. Lamps[m] = 0
    BY <1>3, CalNames, CalAssumptions, Cal!OthersDark
  <1>5. AtStep[m] \notin Cal!Outside /\ AtStep[m] # "done"
    BY <1>3, CalNames, CalAssumptions, Cal!AllTakePart
  <1>6. Within(m)
    <2>1. AtStep[m] = IF loc[m] = "calibrating" THEN kpc[m]
                      ELSE IF Returned(m) THEN "done" ELSE "idle"
      BY DEF AtStep
    <2> QED
      BY <1>5, <2>1, CalNames DEF Within
  <1> QED
    BY <1>4, <1>6 DEF Lamps

(* As long as each command is typed when the boards are quiet, and no       *)
(* command and no answer is lost, each calibration measures what it should, *)
(* though the boards begin it one by one, with whatever the one before has  *)
(* left in the variables of Calibration: the dark with every lamp off, each *)
(* sample with one settled lamp (updateState, doCalibration, calibrate,     *)
(* execute).                                                                *)
THEOREM CalibrationsAreIdeal ==
    ASSUME RepliesArrive, OrdersArrive
    PROVE  Spec => [](~ rushed => K!DarkIsDark /\ K!SamplesIdeal /\ K!OneLamp)
  <1>1. ASSUME Cal!IInv, CallbacksInv PROVE K!DarkIsDark
    <2> SUFFICES ASSUME NEW n \in Node, kstate[n] # "ext",
                        kpc[n] \notin {"idle", "install", "unready", "begin"}
                 PROVE  dark[n] = K!AllOff
      BY SameNodes DEF K!DarkIsDark
    <2>1. AtStep[n] = kpc[n]
      BY <1>1 DEF CallbacksInv, Callbacks, AtStep
    <2>2. Cal!DarkIsDark
      BY <1>1, CalAssumptions, Cal!DarkData
    <2> QED
      BY <2>1, <2>2, CalNames, SameNodes DEF Cal!DarkIsDark, Cal!AllOff, K!AllOff, Cal!Off, K!Off
  <1>2. ASSUME Cal!IInv, CallbacksInv PROVE K!SamplesIdeal
    <2> SUFFICES ASSUME NEW n \in Node, kpc[n] = "done", NEW s \in Node,
                        NEW k \in 0 .. Samples - 1
                 PROVE  Y[n][s][k] = [K!AllOff EXCEPT ![s] = K!Lit(k)]
      BY SameNodes DEF K!SamplesIdeal
    <2>1. AtStep[n] = "done"
      BY <1>2 DEF CallbacksInv, Callbacks, AtStep
    <2>2. Cal!SamplesIdeal
      BY <1>2, CalAssumptions, Cal!IdealData
    <2> QED
      BY <2>1, <2>2, CalNames, SameNodes
         DEF Cal!SamplesIdeal, Cal!AllOff, K!AllOff, Cal!Off, K!Off, Cal!Lit, K!Lit
  <1>3. ASSUME ControlledInv, Cal!IInv, CalibrationTypes PROVE K!OneLamp
    BY <1>3, LampIsAlone, SameNodes DEF K!OneLamp, K!Off
  <1> QED
    BY <1>1, <1>2, <1>3, TogetherAlways, PTL DEF TogetherInv, RunsAsOne

(* Nor does a board drive its lamp while another measures: as long as each  *)
(* command is typed when the boards are quiet, and no command and no answer *)
(* is lost, a board's controller is off whenever another's lamp is lit for  *)
(* a sample (updateState, ISR(TIMER1_COMPA_vect)).                          *)
THEOREM ControllersAreOff ==
    ASSUME RepliesArrive, OrdersArrive
    PROVE  Spec => [](~ rushed => NoControlWhileMeasuring)
  <1>1. ASSUME ModesInv, ControlledInv, Cal!IInv, CalibrationTypes, ~ rushed
        PROVE  NoControlWhileMeasuring
    BY <1>1, LampIsAlone DEF NoControlWhileMeasuring, Within, ModesInv
  <1> QED
    BY <1>1, TogetherAlways, PTL DEF TogetherInv, RunsAsOne
=============================================================================
