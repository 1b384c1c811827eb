# A TLA+ development of scdtr

scdtr controls the lamps of a set of desks. Each desk has a board (an Arduino)
with a lamp and a light sensor. The boards share an I2C bus, on which they
calibrate themselves together and agree on the duty cycles that light every desk
enough at the least cost. A Raspberry Pi listens to that bus, logs what the
boards report and serves it over TCP; it passes its clients' commands to board 0,
the master, over a serial line.

This directory holds the models of that code, the TLC configurations that check
them, and the theorems about them that TLAPS proves. All paths below are under
`src/`.

## 1. The system

| Component | State it keeps | Operations | Interacts with |
|---|---|---|---|
| **Communication** `multiple_board/main/communication.*` | pointers to the flags of the main program | `sendPacket`, `sendConsensus`, `sendInfo`, `onReceive` | its callback sets `reset`, `changed`, `distributed`, `lower_bound`, `ref`, `occupancy` of the main program |
| **Consensus** `consensus.*` | `sender`, `receiver`, `ready`, `d_copies`, and solve's averages and multipliers | `solve`, `getCopies`, `onReceive` | replaces the callback while it runs; CON and ACK packets |
| **Calibration** `calibration.*` | `sender`, `receiver`, `ready`, `state`, `sample`, `y_ext`, `Y` | `execute`, `onReceive` | replaces the callback while it runs; SYN and ACK packets; the light of all lamps |
| **Main program** `main.ino` | `state`, `reset`, `changed`, `distributed`, `ref`, `lower_bound`, `occupancy`, the line buffer | `loop`, `readLine`, `processCommand`, `updateState`, `calibrate`, `doConsensus`, the timer interrupt | calls all the above; the serial line |
| **PI controller** `pi.*` | integral, last output, features | `update` and setters | called by the timer interrupt |
| **Sniffer** `rpi/src/pig2i2c.cpp` | the bit-level state of the bus | `parse_I2C`, `writePacket` | writes whole packets to a FIFO |
| **System** `rpi/src/System.*` | entries per board, lower bounds, `start_` | `handleRead`, `insertEntry`, getters, `reset`, `startWriteSerial` | FIFO, serial line; shared by all sessions and an I2C thread |
| **Requests, sessions** `rpi/src/request.*`, `TCPSession.*` | stream flags, last timestamps, buffers, timer | `parseRequest`, `streamUpdate`, handlers | System, sockets |
| **Client** `rpi/src/client.cpp` | sockets, deadline, console | actors | the server |

### What is hard

*Interrupts.* A receive callback runs between any two instructions of the main
program of its board, and shares `ready`, `d_copies`, `sender` and `receiver` with
it. Which callback runs is itself state: `Wire.onReceive` replaces it at the start
and end of each procedure.

*Loss and retransmission.* A sender repeats its packet until `ready`, that is,
until acknowledged; a receiver acknowledges exactly once. Commands are not
acknowledged at all.

*Implicit coordination.* No packet carries a sequence number. That a packet
belongs to the stage in which it is received follows from when it may be sent.

*Threads.* The server handles packets in one thread and all of TCP in another. They share
the log under a mutex, and `start_`, the bounds and the pointer of `getLatestEntry`
without it.

*Handlers.* A session of the server and the console client are each a set of handlers that one
thread calls in any order. A handler may delete the session, or stop the client, while others are
already waiting for their turn.

*Arithmetic at its limits.* The control interrupt runs the controller while the main program writes,
byte by byte, what it reads; the lamp saturates while the error goes on adding up. Times are
unsigned, means may be of nothing, and candidates for a minimum may divide by zero.

*Time.* What rules out a duplicate is that an acknowledgement comes within the
`delay` of its sender; what makes a sample right is that 90 ms are enough for
the light to settle.

### What makes each component correct

- Consensus: at the end of an exchange a board's sum has each other board's
  solution of this iteration once; boards stay on the same average; `solve` ends.
- Calibration: the external light is measured in the dark, each sample under one
  lamp at one level; the boards stay in step; `execute` ends.
- Main program: a command is executed on every board, and leaves them consistent;
  no board drives its lamp while another measures.
- Server: each log is in the order of packets and of time, what it says of a desk
  is what that desk reported last, a reset is seen as one event, no session uses freed
  memory, a stream delivers each entry once and in order.
- Control: the lamp is never at the wrong end, an error that goes on does not wind the integral up,
  a lamp at rest stays at rest.
- Minimisation: what a node chooses can be lit, gives the light asked for and costs least.
- Requests: what is answered agrees with the log; what is refused has had no effect.
- Sessions: a session is deleted once and not used afterwards, and each request is answered once.
- Client: every endpoint is tried, the deadline is not lost, and a client that stops winds down.
- Sniffer: parser and main loop are where the bus is, and each frame yields its packet.

## 2. The modules

| Module | What it is |
|---|---|
| `I2CBus` | nodes, packet types, and what the bus may do with a packet |
| `AllToAll` | abstract specification of an exchange: every node obtains every other's solution of a round before the round ends |
| `Consensus` | `consensus.cpp`: one run of `solve` on every board, one action per step of `getCopies`, and the callback |
| `ConsensusInvariant` | the inductive invariant |
| `ConsensusProofs` | type correctness, the invariant and the safety properties, and that `Consensus` implements `AllToAll`, proved |
| `Calibration` | `calibration.cpp`: one run of `execute` on every board, and the callback |
| `CalibrationProofs` | the inductive invariant, type correctness and the safety properties, proved |
| `MultiBoard` | `main.ino` and the default callback; composes `Consensus` and `Calibration` by INSTANCE |
| `MultiBoardProofs` | proved of all of the firmware, as the procedures follow one another: its types, that the procedures do not answer each other, that consensus is run together, that commands are executed, and that calibrations begun at rest implement `Calibration` |
| `ServerLog` | `System.cpp`, `streamUpdate` and the requests that change state: the server's two threads on the log |
| `ServerLogProofs` | the inductive invariant of the two threads, and the safety properties, proved |
| `Requests` | `request.cpp` and the getters of `System.cpp`: every request on every small log |
| `Session` | `TCPSession.cpp`, `TCPServer.cpp`: the life of one session, one action per handler |
| `SessionProofs` | the session's inductive invariant, `OneOwner` and `AnswersInOrder`, proved |
| `Client` | `client.cpp`: the actors of the console client, one action per handler |
| `ClientProofs` | the client's inductive invariant, `TriesAll` and `StoppedStartsNothing`, proved |
| `PIController` | `pi.cpp`: the controller as a record and functions of it |
| `ControlLoop` | the control interrupt of both firmwares against their main programs |
| `ControlLoopProofs` | the inductive invariant of the loop and its safety properties, proved |
| `Minimise` | the minimisation of `Consensus::solve`: six candidates, their cost, the multipliers |
| `I2CTap` | abstract specification of the sniffer: a frame on the bus is a packet in the FIFO |
| `Sniffer` | `pig2i2c.cpp`: one action per report of the levels of the wires |
| `SnifferProofs` | the sniffer's inductive invariant, and that it implements `I2CTap`, proved |
| `MC*` | the instances for TLC |

Each module's operators that begin with the comment *Fault:* are faulty variants
of the operator that follows; they take no part in the specification, and show
that the properties notice such a fault.

### State and actions

A board's main program is a program counter (`pc`, in `MultiBoard` `loc`) whose
steps end where an interrupt can make a difference: between the test of `ready`
and what follows (`Poll`, `Heard`), between clearing the flag and acknowledging
(`Take`, `Reply`), between `fill`, `Wire.onReceive` and the loop of `getCopies` (`Fill`,
`Install`, `Enter`). A transmission and the callback that it runs on its destination
are one step (`Transmit`, `Reply`, `Forward`), because the Wire library transmits
synchronously and the firmware looks at no result. Whether the packet arrives is
a choice, for the types in `Lossy`.

A solution is abstract, `<<n, k>>` for what board `n` found in iteration `k`; `d_copies`
and `d_i_avg` count how often each one was added. This is exactly what the
exchange can get wrong. It leaves out the rounding of floating point addition, whose
order differs between boards when there are more than two. The minimisation that
yields the solution is a step (`Fill`) that may take any time here, and the subject of `Minimise`.

A measurement is the vector of the levels of all lamps, or `Blurred` when one of
them has changed less than `Settle` ticks ago. A calibration is one run, the first since power-up or a
later one, which begins with what the one before has left in `sender`, `receiver`, `state` and `sample`. As
`sample` is set only after the dark is measured, a request that a later run repeats at that moment is stored at
the index `NUM_SAMPLES` of a row, which is the beginning of the next row (`Place`).

`INF` packets (`sendInfo`) are left out: each of the three callbacks ignores them.
Two variables of `MultiBoard` are of no board and in no guard: `rushed` remembers that a command was typed while the boards
were busy, and `runs` how often a board has called `solve`.
The ids, the order of the loops and the guards are those of the code.

In `ServerLog` each of the two threads is a record of its place and its local variables
(`i2c`, `tcp`). A step ends where the other thread can interfere: between reading the clock
and reading `start_` (`Receive`, `Stamp`), between the three vectors that `handleRead`
writes without the lock (`Write` for the two of floats, `Load` and `Store` for the one of bits) and those that `reset` clears and resizes under it (`Clear`,
`Resize`), between the two locks for the comfort of a desk and the one for the insertion
(`ComfortError`, `ComfortVariance`, `Insert`), and between `getLatestEntry` and the use of its
pointer (`Fetch`, `Use`). What runs under the lock only waits for it where the code asks
for it (`Locked`). A packet is its number; the bounds of a desk are the number of the packet they
came from, the comfort of an entry the number of entries it was computed from. An
insertion into a full vector moves it (`capacity`), and what a moved pointer reads is any time.
Assignments of one float or one word are taken as whole; that the unlocked ones are data races
shows in their order only. `occupancy_` is a `std::vector<bool>` (`System.hpp:118`), of which all desks share a word: to write
the bit of one desk is to read that word (`Load`) and to write it back (`Store`), with the bits of all others as they
were when it was read. A reset in between is undone for those; `restored` remembers for which.

In `Sniffer` a step is one report of the two wires. The owner of the bus is external: it
sends frames of bytes and acknowledgements, and stops after a whole byte. The sampling of
`setup.sh` (2 microseconds) may show a change of the data together with the edge of the clock
before or after it, so that data and clock may move in one report. A byte is the sequence of its
bits. The first frame may be half over when the sniffer starts (`MidFrame`). The Wire
library sends neither repeated starts nor frames without an address, and the longest frame of
the firmware (24 bytes with its address) fits the buffer of 32. `Read` is the server's read: it takes
all that the FIFO holds, and `handleRead` uses the first packet only, as the note at
`System.cpp:78` admits.

`Requests` makes each request one step on a log that packets extend and resets empty: what the other
thread may do in between is in `ServerLog`. All that is left of it is that the first entry of a log may be
ahead of the clock once there has been a reset (`Insert`). Times keep their width: `MinuteAgo` is an unsigned difference made signed
(`ToSigned`). A mean keeps its sum and the number of its terms, so
that one over an empty log is seen as the division of zero by zero that it is. The words of a request
are taken from a small vocabulary that has every case of the code's tests: one character, none, several;
a number of one digit or two; a desk that exists, or not.

In `Session` the outstanding operations are part of the state: `read`, `timer`, and the sequence of the
`writes`. The system completes them with success or an error; the handler of a complete one waits for
its turn, in any order. Deleting the session closes its socket and its timer, which aborts what is still pending
and leaves what is complete. What a handler does on a session that has been deleted
is undefined: the model records which handler it was (`misuse`) and goes no further. An answer goes out in two
halves, each read from the buffer as it is at that moment.

`Client` is made in the same way. `Abort` is what `close` and moving a deadline do to pending
operations; the result of the wait for the deadline is not looked at by the code, which asks whether the
deadline has passed, and neither does the model.

In `ControlLoop` a step of the main program is a write of the reference in two (`BeginWrite`, `EndWrite`),
since a float is four bytes on an 8-bit processor, a switch of a feature, or the beginning and the end of a procedure.
The interrupt comes in between, measures any of a few values, and reads the old reference, the new one, or, while it is
being written, any of `Torn`. Numbers are integers, and the anti-windup gain of one half rounds down. The feedforward term is
`k_ff / m_ff` times the distance of the reference from the intercept: `ff` is that quotient, `K_FF / M_FF` at first and after a
calibration `K_FF` over the gain it has measured, any of `Factors` (`EndCalibration`); `steepest` is the largest one so far. Where the gain is zero (`flat`) the
term is infinite, the integral is infinite one update later and not a number two updates later, and stays so, since nothing calls `resetHistory`. The model does not tell
these apart: from the first such update on the controller is not a `number`, and what it writes is either end of the scale.
A behaviour is of one board on its own or of one among others, whose programs differ in what they switch
and in `writeToLed`.

In `Minimise` vectors are of integers with one denominator, all costs are divided by `RHO`, and what has the
denominator zero is not a number and compares as false. A step is one candidate of `updateBest`, and
`Exchange` brings any average. Arithmetic is exact but where the code compares a float with the very value that exact
arithmetic gives it. The divisor of `g_i` (`consensus.cpp:266`) is a difference that is zero for a node which only its own lamp
gives light, or not quite, depending on its gain: `cancels` is a choice of each run, and if it does not cancel the last two candidates are `d_0`
(`Degenerate`). The own component of the last candidate is `MAX_DC` up to rounding, and may be thrown away at line 92: `rejected` is a choice
of each iteration (`MayRoundUp`). A gain is taken to be zero or not negligible beside the node's own, so that the divisor is not lost otherwise.

### Time

Time is discrete, and passes (`Tick`) only when no board has an instruction to
execute: each is delaying, spinning, or minimising. A delay of 10 to 90 ms is
thousands of instructions and dozens of packets long, so that this is what the
boards do. It is an assumption nevertheless, and all that follows about duplicates rests
on it: were an acknowledgement slower than the 50 ms delay of its sender, a solution
would be sent twice and added twice (the fault `TransmitAtOnce` shows it).

In `Calibration` the boards do not start at the same moment: the last one starts
up to `MaxSkew` ticks after the first. `SkewAssumption` bounds it by the wait
between two SYNs. The code gives the master's start the time of the rest of its
loop, other boards the rest of theirs, a millisecond or two against `WAIT` = 10 ms.
Without that bound the property `OneLamp` fails: a SYN that is repeated while
the receiver has just answered the one before sets `ready` again, and every
later handshake is one late.

### Fairness

The boards: `WF` of each board's steps, since the processor runs; `WF` of `Tick`, since time passes;
`SF` of a transmission that arrives, since a packet that is retransmitted for ever gets through. The
user (`Type`) owes nothing.

`Session`: `WF` of what the system completes (`Reads`, `Sends`) and of the handlers of reads and writes
(`OnRead`, `OnSent`), which `io.run()` calls in turn. The peer and the timer owe nothing.

`Client`: `WF` of each handler, for the same reason, and of `DeadlinePasses`. The network, the server and
the user owe nothing: that is what the deadline is for.

The other modules state safety only, and need none.

## 3. What TLC checks

| Run | Bounds | Shows |
|---|---|---|
| `consensus_complete` | 3 boards, 3 iterations, CON lost | `CopiesExact`, `OthersHaveIt`, `Agreement`, the inductive invariant `IInv`, refinement `ExchangeSpec`, and `Completes` |
| `consensus_ack_lost` | 2 boards, 1 iteration, ACK lost | *violated*: a lost acknowledgement is for ever |
| `minimise` | 2 boards, 2 iterations, gains 0 to 2, 7 targets, 9 averages | `BestIsFeasible`, `FindsIfPossible`, and `BestIsMinimum` against a grid of 169 vectors |
| `minimise_corner` | the same | *violated*: the fourth candidate is not the one it is said to be |
| `calibration` | 3 boards, 2 samples, SYN lost, skew 1 | `DarkIsDark`, `SamplesIdeal`, `OneLamp`, `Calibrates` |
| `firmware` | 2 boards, 3 commands at any time | `NoCrossTalk`, `NoControlWhileMeasuring`, `SameConsensus`; and, when each command is typed while all is quiet, `CommandsTakeEffect` and `Recovers` |
| `control` | 3 measurements, 2 references, slopes that give the feedforward the factors -1 and 2, or none, after one of 1, 2 updates without anti-windup | `NeverInverted`, `WindupBounded`, `Unwinds`, `RestInDeadzone` |
| `server_log` | 2 desks, 2 sessions, 2 packets, 1 reset, 2 ms | `LogInOrder`, `ComfortOverLog`, `LatestReport`, `StreamsForward` |
| `requests` | 2 desks, 3 entries, 5 ms, a minute of 1 ms, a clock of 6 values, 16 words | `EnergyIsIntegral`, `LastMinuteIsRun`, `TotalsAgree`, `RefusedHasNoEffect` |
| `session` | 2 requests, 2 updates | `AnswersInOrder`, `OneOwner`, `Answered`, `Released` |
| `client` | 2 endpoints, 2 lines received, 2 typed | `TriesAll`, `GivesUp`, `WindsDown` |
| `sniffer` | bytes of 2 bits, frames of up to 4 bytes, 2 packets in the FIFO | `InStep`, refinement `TapSpec` |

Three boards are the least for which a stage has a bystander and a sender has two
receivers; two iterations (or samples) the least in which something can be left from
the one before, and the third shows nothing else. No run that passes loses
acknowledgements: boards then hang, and that nothing else goes wrong with them is proved, for any
set of lossy types (section 4). A `Delay` of two ticks leaves room
for a board to be in the middle of it. `N` is 2 in the code
(`constants.hpp:32`), which is what the runs of the whole firmware use. Three commands
allow a reset, a change of mode and a change of bound in any order.
Two packets make a vector move, leave an entry before and one after a reset, or one of a desk before and, of another, one across it, which
is what it takes to bring back an occupancy; two
sessions make one that resets and one that streams; the clock of the server runs from
`Epoch`, and what matters of it is only that it is not zero and may or may not pass between two steps.
Frames of up to four bytes reach both sides of the two-byte limit of `writePacket`, and
two bits are enough for a byte to have a first and a last one.
A measurement below, at and above each reference, at the dead zone's edge and beyond, and a saturation that is reached
after a few updates, make the integral wind up and unwind; `Recovery` is the number of updates that
it takes with these gains and slopes (with one less `Unwinds` is violated). A factor of two is more than that of the
start, one of minus one is of a gain that was measured wrong, and the intercept is below zero as in the code. Gains of zero, targets that are negative, within reach of one lamp, of two, or of none, reach
every candidate and every division by zero of `updateBest`, each with either outcome of the rounding. Three entries are the
least that have a second difference, and a minute of one millisecond puts entries before it, at its beginning and in it, on both sides
of the time at which a signed number is not enough for the beginning of the minute.
Two endpoints are the least of which one can be skipped.
Two requests and two updates make an answer and two updates wait on one socket, with a read behind them.

`CHECK_DEADLOCK FALSE` is in the runs of what may stop: the firmware, once the user has typed all the
commands or when a board waits for one that has missed a command; a session that is deleted, or used
after that; a client that has wound down; and a minimisation after its last iteration.

### What the code does otherwise than it says

1. *A lost acknowledgement stops the system* (run `consensus_ack_lost`). `consensus.cpp:155` sends it once. The
   receiver goes on to be the sender of the next stage; the sender is still in its own;
   each drops the other's CON, for ever. The same holds for `calibration.cpp:108`.
2. *The corner at zero is not tried* (run `minimise_corner`). The fourth candidate is meant to be the solution with the
   node's own lamp off and exactly the light asked for; `consensus.cpp:341` adds its own component again where it should
   cancel it. The script that the code follows (`matlab/consensus/consensus.m:161-174`) has the right one.
   Where that corner is the minimum, the node keeps a dearer solution; `BestIsMinimum` is
   the rest of the claim, and holds.

What follows was met on the way. No document or comment says otherwise, so that no run
states it; the properties are stated so as to leave it out, and say where.

- *Commands are dropped.* A board that is in a procedure has another callback, and a
  command is sent once (`main.ino:279-331`). The master executes it. Boards are then in
  different modes; and when the dropped one is a reset or a bound, the master waits for
  ever for a board that does not take part. `CommandsTakeEffect` and `Recovers` hold as long as every command was typed
  while all boards were quiet.
- *A reset leaves the occupancy* (`main.ino:176-181`), which is reported with the next status packets.
- *Nothing calibrates at start* (`main.ino:67`), although the utility is "meant to run at system startup"
  (`calibration.cpp:6`). Until the first reset gains are zero, and the reference of a consensus is then zero (`FindsIfPossible`).
- *A calibration keeps the history of the controller*, and with it what the integral had before the lamp went off.
- *A gain of zero stops the controller for good.* `main.ino:206` hands the gain of the board's own lamp to the feedforward, which
  divides by it (`pi.cpp:143`). If the sensor has not seen the lamp, output and integral are infinite and then not a number, and a later
  calibration does not help. The properties of the controller's values are stated for as long as they are numbers. Nor is there a bound on
  the integral for all gains: the smaller one is, the larger the term.
- *A solution that is too dark, or none, by rounding.* For a node which no other lamp gives light the divisor at `consensus.cpp:266` may come out
  as tiny instead of zero (a gain of 1.2 does that); the last two candidates are then the unconstrained one, unchecked
  (`Degenerate` in `BestIsFeasible`). And the candidate at 100 % is computed, and thrown away if it comes out above (`rejected` in `FindsIfPossible` and
  `BestIsMinimum`), with the gains 1.2 and 0.7 for instance.
- *Switching anti-windup off leaves the saturated output as it was* (`single_board/main/pi.cpp:121`): the first correction
  after it is on again is against an output of long ago. The properties of the integral are stated for `loose = 0`.
- *An entry may precede the reset that cleared its log.* `System.cpp:117` stamps a packet
  before it takes the lock; with `start_` = 0 (`System.cpp:59`) the stamp is the whole time since
  1970. It can only be the first entry (`LogInOrder`), but a session that streams it
  delivers nothing more until the clock gets there, and the energy of a desk is wrong by as much (`EnergyIsIntegral`).
- *`getLatestEntry` gives away a pointer* (`System.cpp:246`) that the next insertion may invalidate.
- *A reset forgets the timestamps of one session only* (`request.cpp:89-91`). The others are ahead
  of the new log and stream nothing until it has grown past them.
- *Parts of a report are written without the mutex* (`System.cpp:134-136`), so that a reset between them wipes some of them
  (which is why `LatestReport` allows a part to be zero; none but an occupancy is ever of a packet older than the log).
- *A reset may not clear an occupancy.* `System.cpp:136` writes a bit of a word that the desks share, without the mutex: with a reset in
  between, the occupancies of the other desks are what they were before it (`restored` in `LatestReport`).
- *The last minute is the whole log* after 2^31 ms, 24.8 days (`request.cpp:64`): `minute_ago` is then negative and taken for the first minute
  (`LastMinuteIsRun` says in which case).
- *Only the first of several requests in one read is answered* (`TCPSession.cpp:42`), hence `hurried` in `Answered`.
- *A stream may outlive its session.* Once an update has been streamed, a handler of a write or of the timer may
  be called on a session that another has deleted (`TCPSession.cpp:76`). Without a stream that is left to the
  timer alone, when it had expired already (`OneOwner`).
- *A line that is typed before there is a connection* fails to be sent, and its handler stops the client with
  endpoints left (`client.cpp`, `handle_send`), hence `typed = 0` in `TriesAll`. `stop()` does not cancel the wait for the console, so that a stopped
  client ends with the next line (`WindsDown`). Sends that overlap share one buffer.
- *`io_serial_.run()` returns at once* (`System.cpp:160`), before there is anything to run.
- *A line of spaces only* makes the command of the single board a null pointer (`single_board/main/main.ino:203`).

## 4. What is proved

For any number of boards `N > 1`, of iterations, any positive `Delay` and any set of packet
types that the bus may lose (`NAssumption`, `IterationsAssumption`, `DelayAssumption`,
`LossyAssumption`):

| Theorem | Statement |
|---|---|
| `ConsensusProofs!TypeCorrect` | `Spec => []TypeOK` |
| `ConsensusProofs!Invariance` | `Spec => []IInv` |
| `ConsensusProofs!CopiesAreExact` | `Spec => []CopiesExact` |
| `ConsensusProofs!OthersHaveTheirs` | `Spec => []OthersHaveIt` |
| `ConsensusProofs!AveragesAgree` | `Spec => []Agreement` |
| `ConsensusProofs!Refinement` | `Spec => ExchangeSpec` |

None of the safety properties is inductive. `IInv` is the conjunction of

- `TypeInv`: types, and `Structure`, what each point of the program says of
  `sender`, `receiver` and the callback. Inductive by itself.
- `HandshakeInv`: `ready` is set only where it will still be consumed
  (`ReadyDiscipline`), and while a receiver has accepted a solution and not left the stage
  (`Engaged`), its sender is in the delay after that very transmission, with all of it left
  (`SenderDelays`). So a solution is not repeated while it is being acknowledged.
- `BarrierInv`: if `n` has seen `m`'s acknowledgement in iteration `k` (`Settled`), `m` has `n`'s
  solution of `k` (`HasIn`). So no board is in a stage that another one can still be
  missing, and a solution that is accepted belongs to the receiver's iteration.
- `SumInv`: `d_copies` has one of each solution that the control says has been received, and
  `d_i_avg` one of each of the last iteration.

The step from one to the next is in that order: a transmission is accepted only by a board
in the same stage and iteration that does not have the solution (`AcceptSolution`, from
the barriers), so it is added once (`SumTransmit`) and engages the receiver while the sender
delays (`HandshakeTransmit`). For the refinement, `held` is read from `d_copies`; the
invariant relates it to the control (`HeldIsHolding`), an accepted transmission is the
abstract `Collect`, the end of an iteration `Complete`, and everything else stutters.

For bytes of any number of bits, frames of any length `MaxBytes`, a `size_t` of more than twice that
(`BitsAssumption`, `WordAssumption`), any length of the FIFO, and whether or not the
sniffer may start within a frame (`BoundsAssumption`):

| Theorem | Statement |
|---|---|
| `SnifferProofs!StaysInStep` | `Spec => []IInv` |
| `SnifferProofs!InStepAlways` | `Spec => []InStep` |
| `SnifferProofs!ImplementsTap` | `Spec => TapSpec` |

`InStep` says that outside a partial first frame `in_data`, `bit`, `byte`, `state` and `packet` are those of
the bus. It needs `Sampling`: the levels last seen are those of the wires, and an idle bus is high, so that
no start or stop is missed or made up; and that a main loop in standby has an empty packet, and
that there is room for the packet of the frame under way. `IInv` adds these to the types. At a stop
the packet is then the frame, and its size less one does not wrap around, which is the abstract `End`; a
stop of a partial frame is `EndPartial`; the ninth rising edge of each byte is `Send`, and all other
reports stutter.

For any gains in `Nat`, any slopes that calibrations may find, of any sign and zero, any intercept at the start that is not positive, any limits
with `SatMin` = 0 (`LampAssumption`, which is what the lamp takes), any dead zone and any
range of measurements and references, torn ones included (`GainsAssumption`, `FeedForwardAssumption`, `LimitsAssumption`, `LuxAssumption`); for the
last two, an integral gain that is not zero and a lamp that has more than one level (`IntegralAssumption`):

| Theorem | Statement |
|---|---|
| `ControlLoopProofs!Inductive` | `Spec => []IInv` |
| `ControlLoopProofs!LampNotInverted` | `Spec => []NeverInverted` |
| `ControlLoopProofs!AntiWindupPullsBack` | `Spec => []PullsBack` |
| `ControlLoopProofs!IntegralBounded` | `Spec => []WindupBounded` |
| `ControlLoopProofs!NoFlicker` | `Spec => RestInDeadzone` |
| `ControlLoopProofs!LampUnwinds` | `Spec => []UnwindsInTime` |
| `ControlLoopProofs!UnwindsWithin` | `Spec => [](2 * K2 * Recovery > 6 * PMax + 2 * IMax + 2 => Unwinds)` |

`NeverInverted` is not inductive: `Wrapped` sends what is out of range to the opposite end, and only an
output that was saturated before never gets there. `IInv` says so: a board among others always has anti-windup, and on
both boards `out` is the saturated `u`. That `usat` is too, while anti-windup was never off, gives `PullsBack`, and with it the bound on the
integral: an update takes back half of the excess and adds at most `IMax` and the change of the
proportional term (`ExcessBounded` and the lemmas before it are that arithmetic). It is also what `Unwinds` rests on: while the
lamp stays at its upper limit and the error asks for less, each update takes the integral down by `K2` times two steps of
the measurement at least, so that `n` updates later it is that much below its bound, and it cannot be below what
keeps the lamp at the limit. `UnwindsInTime` says so for every number of updates.

All these bounds are in terms of `PMax`, what the proportional and the feedforward term may amount to, which is a function of `steepest`, and so of the state:
it grows when a calibration finds a flatter slope (`PMaxGrows`), and there is no bound for all slopes, nor any once one was zero.
That is why `UnwindsWithin` has its hypothesis inside: as long as `Recovery` pays for the slopes found so far. The bound is
coarse, 37 updates at the slope of the start and 52 at the flatter one of the run, where TLC finds that 3 are enough.

For any number of desks and sessions, of packets and resets, and any `Epoch` and `Modulus`
(`NAssumption`, `TimeAssumption`, `BoundsAssumption`):

| Theorem | Statement |
|---|---|
| `ServerLogProofs!Inductive` | `Spec => []IInv` |
| `ServerLogProofs!LogsInOrder` | `Spec => []LogInOrder` |
| `ServerLogProofs!ComfortOfLog` | `Spec => []ComfortOverLog` |
| `ServerLogProofs!ReportsLatest` | `Spec => []LatestReport` |
| `ServerLogProofs!StreamsInOrder` | `Spec => []StreamsForward` |

The properties are about the log; what makes them last is in the hands of the two threads. `PacketsInv`: the packet that
the I2C thread holds is newer than all in the logs and than all that were streamed. `TimeInv`: what it
has read of the clock, or stamped, is not behind the log of its desk, unless a reset has emptied that log since.
`ComfortInv`: what it has computed is of the log as it is, under the same condition. `ReportInv`: of each of the three vectors,
whether the reset has cleared it, has still to clear it or has given it its size again (`Cleared`, `Stale`), and whether
the I2C thread has written it (`Past`), decide what it may hold; an occupancy that is of none of these packets has been brought back (`restored`). `StreamInv`: a session has
been sent entries up to the last one at most, and will not be sent that one again (`UpTo`).

For any number of requests and updates:

| Theorem | Statement |
|---|---|
| `SessionProofs!Inductive` | `Spec => []IInv` |
| `SessionProofs!WithoutStreamOneOwner` | `Spec => []OneOwner` |
| `SessionProofs!AnswersGoInOrder` | `Spec => []AnswersInOrder` |

`OneOwner` needs that, as long as nothing was streamed, there is one outstanding operation at most, a read or an
answer, and none once the session is deleted (`TurnsInv`): the two take turns. `AnswersInOrder` holds with a stream too. By `AnswersInv` one
answer at most is among the outstanding writes, nothing is read while it is, and the halves on the wire are two of each answer
before it and as many of its own as it has sent; a step that sends no answer only rearranges the writes (`AnswersKept`).

For any number of endpoints and of lines:

| Theorem | Statement |
|---|---|
| `ClientProofs!Inductive` | `Spec => []IInv` |
| `ClientProofs!ClientTypes` | `Spec => []TypeOK` |
| `ClientProofs!EveryEndpointTried` | `Spec => []TriesAll` |
| `ClientProofs!StoppedForGood` | `Spec => StoppedStartsNothing` |

`TriesInv` adds to `TriesAll` that nothing else is under way before the first connection: nothing is being sent, and
no actor of a connection works, so that none of their errors can stop the client. `ConnectInv` says that the endpoint being
tried exists, and that a connection that was made is open or was closed by the deadline, in which case the handler goes on
to the next one. Most steps only let operations end (`Settles`); one lemma (`SettlesKeeps`) is for all of them.

For any number of boards `N > 1`, of samples, any delays that let the light settle, boards that start up to `MaxSkew` ticks apart
(`SamplesAssumption`, `DelaysAssumption`, `SkewAssumption`), and any set of packet types that the bus may lose, which after the
first theorem must not have acknowledgements (`RepliesArrive`):

| Theorem | Statement |
|---|---|
| `CalibrationProofs!TypeCorrect` | `Spec => []TypeOK` |
| `CalibrationProofs!InductiveInvariant` | `Spec => []IInv` |
| `CalibrationProofs!ExternalLightIsDark` | `Spec => []DarkIsDark` |
| `CalibrationProofs!SamplesAreIdeal` | `Spec => []SamplesIdeal` |
| `CalibrationProofs!OneLampAtATime` | `Spec => []OneLamp` |

The hypothesis is needed: an answer is sent once, and a board that has answered takes the repeated request for that of the next phase.
With two boards and `ACK` in `Lossy` TLC finds `OneLamp` violated; the boards hang in the end, but not before
a lamp is lit too early. `IInv` is the conjunction of

- `TypeInv`: types, and of each point of the program whose turn it is, where the callback points, that a delay runs only in `settle`
  and `poll` (`Structure`), and what the lamp is at (`Lamp`). It needs no hypothesis.
- `HandshakeInv`: as in `Consensus`, but `ready` may also be set during the first delay, which a receiver may still be
  in when the request for the dark comes.
- `BarrierInv`: with handshakes named by sender, phase and sample, a sender that has gone on from `m` has been
  heard by `m` (`Served`, `Has`), and a receiver that has gone on has been answered to (`Replied`). `Past` orders the handshakes.
- `SkewInv`: until the last board has begun, the others have nearly all of their first delay before them, and when
  the master ends its own every lamp has been off for `Settle`. This is the only invariant about time across boards, and where `MaxSkew` is used.
- `DataInv`: what a board has measured so far is what it should be, and its `state` agrees with the handshake it is in,
  so that its next measurement will be stored where it belongs.

While one board is in its turn with its lamp on, `BarrierInv` puts every other past the end of its own turn or
before its beginning, with its lamp off and settled (`OthersDark`). So what is then accepted is a measurement of that lamp alone (`DataAccept`).

For any number of boards `N > 1` and of commands, and any constants of the procedures that their own assumptions allow
(`NAssumption`, `CommandsAssumption`, `ProceduresAssumption`), with the packet types that may be lost in the last column:

| Theorem | Statement | Lost |
|---|---|---|
| `MultiBoardProofs!BoardsListen` | `Spec => []LocalInv` | any |
| `MultiBoardProofs!TypeCorrect` | `Spec => []TypeOK` | any |
| `MultiBoardProofs!ProceduresApart` | `Spec => []NoCrossTalk` | any |
| `MultiBoardProofs!ConsensusTogether` | `Spec => []SameConsensus` | any |
| `MultiBoardProofs!CommandsAreExecuted` | `Spec => []CommandsTakeEffect` | not the user's orders (`OrdersArrive`) |
| `MultiBoardProofs!CalibrationsAreIdeal` | `Spec => [](~ rushed => K!DarkIsDark /\ K!SamplesIdeal /\ K!OneLamp)` | neither orders nor answers (`RepliesArrive`) |
| `MultiBoardProofs!ControllersAreOff` | `Spec => [](~ rushed => NoControlWhileMeasuring)` | neither orders nor answers |

The first four hold however commands are typed, the others as long as each is typed when all is quiet (`~ rushed`).
`ConsensusProofs` and `CalibrationProofs` are about one run that all boards begin together, or nearly so. Here a board begins a
procedure with the variables that its last run has left, some steps before or after the others, finds a callback that is not that of the
procedure, or is asked again for what it has answered. Their invariants therefore do not carry over as they stand.

*Types.* A board's own location bounds its counters (`ExchangeBounds`, `CalibrationBounds`), and what a packet of another one stores
is of the right type wherever it is put (`ExchangeReceives`, `CalibrationReceives`).

*No crosstalk.* `CallbacksInv` ties the callback to the procedure that a board is in. By `HandshakesInv` a board that has taken a solution finds its
sender delaying in the loop of its retransmissions, and by `RequestsInv` a board of a calibration that owes an answer finds it in that
loop. That is less than in one calibration: a board that begins late may be asked twice, and an answer may find its sender about to ask once more
(`AnsweredEarly`). In its loop a sender has the callback of its procedure, which is what the property says.

*Consensus.* Where a board is in its consensus is a position, a run (`runs`) and an iteration. `BarriersInv` is the barrier of
`Consensus` for positions: if `n` knows that `m` has its solution of a position, `m` has it or has left that position. So boards are
at most a position apart, one that takes a solution is at the position of its sender (`PositionsInv`), and what it has added
and averaged is determined by where it is (`SumsInv`). Boards that are quiet have then left the same run, with all its solutions once.

*Commands.* `LocalInv`: a board that is in neither procedure has the callback of commands, and only the master is ever between reading
a command and passing it on. `CommandsInv`: as long as commands are typed at rest, there is one at a time; a board that has not
been told of it (`Untold`) is at rest, thus listens, and what the command makes of its settings is what
is wanted (`Promised`); a board that has been told has those settings, or has still the steps of a reset before it that set them (`Obeys`).
It says nothing of what goes on inside the procedures, which may never end.

*Calibrations.* This is a refinement: with commands typed at rest, each calibration of `MultiBoard` is a run of `Calibration` without skew
(`Cal`, an INSTANCE of `CalibrationProofs` under a mapping), so that `CalibrationProofs!IInv` holds of it and all that follows from
it. A board is at the start of that run from the moment that all are quiet until it gets there, and one that has returned to its loop is
still seen at the end of it (`Returned`) until all have returned; its lamp is then that of its controller, and the mapping shows it as the
calibration left it. `ModesInv` says who calibrates: until all have returned, no board begins anything else. Each step of a board within
its calibration is the same step there, since it reads of the others what the mapping keeps (`SameReading`), and time
passes only when none or all of the boards calibrate, which is why there is no skew (`RunTick`). When a lamp is lit for a
sample, by the barriers, all boards have begun and none has finished (`CalibrationProofs!AllTakePart`), and all their controllers are off.

Only model-checked:

- liveness (`Completes`, `Calibrates`, `Recovers`, `Answered`, `Released`, `GivesUp`, `WindsDown`), which is out of the prover's reach;
- `NoControlWhileMeasuring` for commands that are typed in a hurry. A second reset may then find boards at different ends of the first
  calibration; a board that begins late takes a repeated request for the next one, and boards may then wait for each other for ever. The
  invariant would need a history of calibrations as it has one of consensus runs;
- everything about `Requests` and `Minimise`, which are sums, over which the prover has no induction.

## 5. What is not modelled, and the plan

Not modelled:

- `readLine` byte by byte and its buffer: a command is a whole line. What a truncated line means depends on
  the text of commands, which the models do not have.
- `sendInfo` and the status output: every callback ignores them.
- The least squares of the calibration and the conversion of the sensor's voltage: floating point without a
  choice or an order that could be wrong; a gain or a measurement is any value where it is used.
- `saveEntries`, which copies a log to files, and the serial port: what it sends is the end of a request.
- `test_client.cpp`, a script with fixed delays; the demos, the MATLAB scripts and the report.

Done so far, in this order: the exchange of solutions and its proofs, the calibration, the
firmware as a whole, the server's log, the sniffer and its proofs; then the minimisation, the requests,
sessions, the client and the control loop, and the proofs about the log, sessions, the client and the loop; then the
proofs about the calibration, about the types of the whole firmware and about the commands of the user; then those about the two
procedures in the whole firmware. What is left:

1. A proof of `NoControlWhileMeasuring` for commands typed in a hurry, with positions of calibrations as `RunsInv` has them of
   the consensus.
2. An abstract specification of the server as its clients see it, a log that is appended to and emptied, implemented by `ServerLog`.
