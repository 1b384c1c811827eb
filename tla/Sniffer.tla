------------------------------ MODULE Sniffer -------------------------------
(***************************************************************************)
(* The I2C sniffer, rpi/src/pig2i2c.cpp.  It reads reports of the levels   *)
(* of the two wires of the bus, the clock SCL and the data SDA; parse_I2C  *)
(* finds starts, bits and stops in them, and the main loop gathers the     *)
(* bytes between a start and a stop and writes them to a FIFO.             *)
(*                                                                         *)
(* The bus is external: whoever owns it sends frames, and each step of the *)
(* wires is a report.  The data wire changes while the clock is low, and   *)
(* sampling may show that change together with the edge of the clock that  *)
(* comes just before or after it.                                          *)
(*                                                                         *)
(* A byte is the sequence of its bits, the most significant first: what    *)
(* shifting each bit into a register that was zero computes.               *)
(***************************************************************************)
EXTENDS Integers, Sequences

CONSTANTS
    Bits,       \* bits of a byte, 8
    Word,       \* 1 + the largest size_t
    MaxBytes,   \* bound: bytes of a frame, its address included
    MaxQueue,   \* bound: packets in the FIFO when a frame starts
    MidFrame    \* whether the sniffer may start in the middle of a frame

ASSUME BitsAssumption   == Bits \in Nat /\ Bits > 0
ASSUME WordAssumption   == Word \in Nat /\ MaxBytes \in Nat /\ Word > 2 * MaxBytes
ASSUME BoundsAssumption == MaxQueue \in Nat /\ MidFrame \in BOOLEAN

VARIABLES
    wires,     \* the levels of SCL and SDA
    bus,       \* what the owner of the bus does: idle, frame, stopping
    count,     \* the bits of the current byte that it has sent
    value,     \* those bits
    frame,     \* the bytes of the frame that it has sent
    partial,   \* the frame was under way when the sniffer started
    seen,      \* the last levels reported to the sniffer
    in_data,   \* parse_I2C: between a start and a stop
    bit,       \* parse_I2C: bits of the current byte
    byte,      \* parse_I2C: those bits
    state,     \* main: STANDBY or READ
    packet,    \* main: packet[0 .. idx - 1]
    fifo       \* packets written and not read yet

owner  == <<bus, count, value, frame, partial>>
parser == <<in_data, bit, byte>>
vars   == <<wires, owner, seen, parser, state, packet, fifo>>

Level == {0, 1}

Init ==
    /\ seen = [scl |-> 1, sda |-> 1]
    /\ in_data = FALSE /\ bit = 0 /\ byte = <<>>
    /\ state = "STANDBY" /\ packet = <<>> /\ fifo = <<>>
    /\ frame = <<>>
    /\ partial \in IF MidFrame THEN BOOLEAN ELSE {FALSE}
    /\ IF partial
         THEN /\ wires \in [scl : Level, sda : Level]
              /\ bus = "frame" /\ count \in 0 .. Bits
              /\ value = [i \in 1 .. count |-> 0]
         ELSE /\ wires = [scl |-> 1, sda |-> 1]
              /\ bus = "idle" /\ count = 0 /\ value = <<>>

-----------------------------------------------------------------------------
(* parse_I2C, and the main loop. *)

(* Fault: a stop is recognised whatever the clock. *)
AnyStop(w) == seen.sda = 0 /\ w.sda = 1

Rising(w) == seen.scl = 0 /\ w.scl = 1
IsStart(w) == seen.scl = 1 /\ w.scl = 1 /\ seen.sda = 1 /\ w.sda = 0
IsStop(w) == seen.scl = 1 /\ w.scl = 1 /\ seen.sda = 0 /\ w.sda = 1

(* The bit after the last of a byte is its acknowledgement. *)
IsByte(w) == Rising(w) /\ in_data /\ bit = Bits

Parse(w) ==
    CASE IsStart(w) -> in_data' = TRUE /\ bit' = 0 /\ byte' = <<>>
      [] IsStop(w)  -> in_data' = FALSE /\ bit' = 0 /\ byte' = <<>>
      [] IsByte(w)  -> bit' = 0 /\ byte' = <<>> /\ UNCHANGED in_data
      [] Rising(w) /\ in_data /\ bit < Bits ->
           bit' = bit + 1 /\ byte' = Append(byte, w.sda) /\ UNCHANGED in_data
      [] OTHER -> UNCHANGED parser

(* Fault: the address counts as one of the two bytes. *)
WriteShortPacket ==
    fifo' = IF Len(packet) % Word >= 2
              THEN Append(fifo, SubSeq(packet, 2, Len(packet))) ELSE fifo

(* The packet without its first byte, if its unsigned size is 2 or more;   *)
(* a write of more than half of what a size_t can say fails.               *)
WritePacket ==
    LET size == (Len(packet) - 1) % Word IN
    fifo' = IF size >= 2 /\ 2 * size < Word
              THEN Append(fifo, SubSeq(packet, 2, Len(packet))) ELSE fifo

Loop(w) ==
    CASE state = "STANDBY" /\ IsStart(w) ->
           state' = "READ" /\ packet' = <<>> /\ UNCHANGED fifo
      [] state = "READ" /\ IsStop(w) ->
           state' = "STANDBY" /\ packet' = <<>> /\ WritePacket
      [] state = "READ" /\ IsByte(w) ->
           packet' = Append(packet, byte) /\ UNCHANGED <<state, fifo>>
      [] OTHER -> UNCHANGED <<state, packet, fifo>>

(* A report of the levels w, which is ignored unless they have changed. *)
Report(w) ==
    /\ wires' = w
    /\ seen' = w
    /\ IF w = seen THEN UNCHANGED <<parser, state, packet, fifo>>
                   ELSE Parse(w) /\ Loop(w)

-----------------------------------------------------------------------------
(* The bus. *)

Low(d)  == [scl |-> 0, sda |-> d]
High(d) == [scl |-> 1, sda |-> d]

Start ==
    /\ bus = "idle" /\ Len(fifo) < MaxQueue
    /\ bus' = "frame"
    /\ Report(High(0))
    /\ UNCHANGED <<count, value, frame, partial>>

(* The clock falls, and the data may change in the same report. *)
Fall(d) ==
    /\ bus = "frame" /\ wires.scl = 1
    /\ Report(Low(d))
    /\ UNCHANGED owner

Change ==
    /\ bus = "frame" /\ wires.scl = 0
    /\ Report(Low(1 - wires.sda))
    /\ UNCHANGED owner

(* The clock rises on the next bit of the frame ... *)
Rise(d) ==
    /\ bus = "frame" /\ wires.scl = 0 /\ Len(frame) < MaxBytes
    /\ IF count < Bits
         THEN count' = count + 1 /\ value' = Append(value, d) /\ UNCHANGED frame
         ELSE count' = 0 /\ value' = <<>> /\ frame' = Append(frame, value)
    /\ Report(High(d))
    /\ UNCHANGED <<bus, partial>>

(* ... or, after a whole byte, with the data low for a stop. *)
RiseToStop ==
    /\ bus = "frame" /\ wires.scl = 0
    /\ count = 0 /\ (frame # <<>> \/ partial)
    /\ bus' = "stopping"
    /\ Report(High(0))
    /\ UNCHANGED <<count, value, frame, partial>>

Stop ==
    /\ bus = "stopping"
    /\ bus' = "idle" /\ frame' = <<>> /\ partial' = FALSE
    /\ Report(High(1))
    /\ UNCHANGED <<count, value>>

(* The server reads all that the FIFO holds, as one run of bytes; it makes *)
(* use of the first packet only.                                           *)
Read ==
    /\ fifo # <<>>
    /\ fifo' = <<>>
    /\ UNCHANGED <<wires, owner, seen, parser, state, packet>>

Next == \/ Start \/ Change \/ RiseToStop \/ Stop \/ Read
        \/ \E d \in Level : Fall(d) \/ Rise(d)

Spec == Init /\ [][Next]_vars

-----------------------------------------------------------------------------
(* Properties. *)

Byte == [1 .. Bits -> Level]

TypeOK ==
    /\ wires \in [scl : Level, sda : Level]
    /\ bus \in {"idle", "frame", "stopping"}
    /\ count \in 0 .. Bits
    /\ value \in Seq(Level) /\ Len(value) = count
    /\ frame \in Seq(Byte) /\ Len(frame) <= MaxBytes
    /\ partial \in BOOLEAN
    /\ seen \in [scl : Level, sda : Level]
    /\ in_data \in BOOLEAN
    /\ bit \in 0 .. Bits
    /\ byte \in Seq(Level) /\ Len(byte) = bit
    /\ state \in {"STANDBY", "READ"}
    /\ packet \in Seq(Byte)
    /\ fifo \in Seq(Seq(Byte)) /\ Len(fifo) <= MaxQueue + 1

(* Outside a partial frame the parser and the main loop are where the      *)
(* owner of the bus is: same bits, same bytes (parse_I2C, main).           *)
InStep ==
    ~partial =>
        /\ in_data <=> bus # "idle"
        /\ state = IF bus = "idle" THEN "STANDBY" ELSE "READ"
        /\ packet = frame
        /\ bus = "frame" => bit = count /\ byte = value

(* The sniffer has seen the levels of the wires, unless it has started in  *)
(* the middle of a frame and nothing has moved that it would report.       *)
Sampling ==
    /\ seen = wires \/ (partial /\ bus = "frame" /\ seen = High(1))
    /\ bus = "idle" => /\ wires = High(1) /\ ~partial
                       /\ frame = <<>> /\ count = 0 /\ value = <<>>
    /\ bus = "stopping" => /\ wires = High(0) /\ (partial \/ frame # <<>>)
                           /\ count = 0 /\ value = <<>>

(* What it takes for the types and InStep to be inductive. *)
IInv ==
    /\ TypeOK
    /\ InStep
    /\ Sampling
    /\ state = "STANDBY" => packet = <<>>
    /\ bus # "idle" => Len(fifo) <= MaxQueue

Tap == INSTANCE I2CTap

(* Each frame yields its packet, at its stop, and nothing else is written  *)
(* to the FIFO (writePacket).                                              *)
TapSpec == Tap!Spec
=============================================================================
