--------------------------- MODULE SnifferProofs ----------------------------
(***************************************************************************)
(* For bytes of any number of bits, frames of any length and whatever the  *)
(* state of the bus when the sniffer starts: the sniffer keeps in step     *)
(* with the bus, and implements the tap of I2CTap.                         *)
(***************************************************************************)
EXTENDS Sniffer, SequenceTheorems, TLAPS

USE BitsAssumption, WordAssumption, BoundsAssumption

Wires == [scl : Level, sda : Level]

(* The levels that reports carry. *)
LEMMA WireLevels ==
    /\ \A d \in Level : Low(d) \in Wires /\ High(d) \in Wires
    /\ \A d \in Level : Low(d).scl = 0 /\ High(d).scl = 1
    /\ \A d \in Level : Low(d).sda = d /\ High(d).sda = d
  BY DEF Low, High, Level, Wires

(* A sequence of Bits bits is a byte. *)
LEMMA BitsMakeByte ==
    ASSUME NEW s \in Seq(Level), Len(s) = Bits
    PROVE  s \in Byte
  BY DEF Byte

(* What a change of level does to the registers of parse_I2C. *)
LEMMA ParserSteps ==
    ASSUME TypeOK, NEW w \in Wires, Report(w), w # seen
    PROVE  /\ IsStart(w) => (in_data' = TRUE) /\ bit' = 0 /\ byte' = <<>>
           /\ IsStop(w) => (in_data' = FALSE) /\ bit' = 0 /\ byte' = <<>>
           /\ IsByte(w) => (in_data' = in_data) /\ bit' = 0 /\ byte' = <<>>
           /\ Rising(w) /\ in_data /\ bit < Bits
                => (in_data' = in_data) /\ bit' = bit + 1 /\ byte' = Append(byte, w.sda)
           /\ ~ IsStart(w) /\ ~ IsStop(w) /\ ~ (Rising(w) /\ in_data)
                => (in_data' = in_data) /\ bit' = bit /\ byte' = byte
  <1> DEFINE start == IsStart(w)
             stop  == IsStop(w)
             full  == IsByte(w)
             shift == Rising(w) /\ in_data /\ bit < Bits
  <1>1. Parse(w)
    BY DEF Report
  <1>2. /\ ~ (start /\ stop) /\ ~ (start /\ full) /\ ~ (start /\ shift)
        /\ ~ (stop /\ full) /\ ~ (stop /\ shift) /\ ~ (full /\ shift)
    BY DEF IsStart, IsStop, IsByte, Rising, TypeOK
  <1>3. full \/ shift => Rising(w) /\ in_data
    BY DEF IsByte
  <1>4. CASE start
    BY <1>1, <1>2, <1>3, <1>4, Zenon DEF Parse
  <1>5. CASE stop
    BY <1>1, <1>2, <1>3, <1>5, Zenon DEF Parse
  <1>6. CASE full
    BY <1>1, <1>2, <1>3, <1>6, Zenon DEF Parse
  <1>7. CASE shift
    BY <1>1, <1>2, <1>3, <1>7, Zenon DEF Parse
  <1>8. CASE ~ start /\ ~ stop /\ ~ full /\ ~ shift
    BY <1>1, <1>2, <1>3, <1>8, Zenon DEF Parse, parser
  <1> QED
    BY <1>4, <1>5, <1>6, <1>7, <1>8

(* Appending to a sequence leaves it as a prefix. *)
LEMMA AppendPrefix ==
    ASSUME NEW S, NEW s \in Seq(S), NEW e \in S
    PROVE  /\ Append(s, e) \in Seq(S) /\ Len(Append(s, e)) = Len(s) + 1
           /\ SubSeq(Append(s, e), 1, Len(s)) = s
  <1>1. /\ Append(s, e) \in Seq(S) /\ Len(Append(s, e)) = Len(s) + 1
        /\ \A i \in 1 .. Len(s) : Append(s, e)[i] = s[i]
    BY AppendProperties
  <1>2. Len(s) \in Nat /\ \A i \in 1 .. Len(s) : Append(s, e)[i] \in S
    BY <1>1, LenProperties, ElementOfSeq
  <1> DEFINE t == SubSeq(Append(s, e), 1, Len(s))
  <1>3. /\ t \in Seq(S) /\ Len(t) = Len(s)
        /\ \A i \in 1 .. Len(s) : t[i] = Append(s, e)[i]
    BY <1>2, SubSeqProperties
  <1>4. t = s
    BY <1>1, <1>3, SeqEqual
  <1> QED
    BY <1>1, <1>4

(* Whatever is reported, those registers keep their types. *)
LEMMA ParserTypes ==
    ASSUME TypeOK, NEW w \in Wires, Report(w)
    PROVE  /\ in_data' \in BOOLEAN
           /\ bit' \in 0 .. Bits
           /\ byte' \in Seq(Level) /\ Len(byte') = bit'
  <1>1. CASE w = seen
    BY <1>1 DEF TypeOK, Report, parser
  <1>2. CASE w # seen
    <2>1. CASE IsStart(w) \/ IsStop(w) \/ IsByte(w)
      <3>1. bit' = 0 /\ byte' = <<>>
        BY <1>2, <2>1, ParserSteps, Zenon
      <3>2. in_data' = in_data \/ in_data' = TRUE \/ in_data' = FALSE
        BY <1>2, <2>1, ParserSteps, Zenon
      <3>3. in_data' \in BOOLEAN
        BY <3>2, Zenon DEF TypeOK
      <3> QED
        BY <3>1, <3>3, EmptySeq
    <2>2. CASE Rising(w) /\ in_data /\ bit < Bits
      <3>1. bit' = bit + 1 /\ byte' = Append(byte, w.sda)
        BY <1>2, <2>2, ParserSteps, Zenon
      <3>2. in_data' = in_data
        BY <1>2, <2>2, ParserSteps, Zenon
      <3>3. w.sda \in Level
        BY DEF Wires
      <3>4. byte \in Seq(Level) /\ Len(byte) = bit /\ in_data \in BOOLEAN /\ bit \in 0 .. Bits
        BY DEF TypeOK
      <3>5. Append(byte, w.sda) \in Seq(Level) /\ Len(Append(byte, w.sda)) = Len(byte) + 1
        BY <3>3, <3>4, AppendProperties
      <3>6. bit + 1 \in 0 .. Bits
        BY <2>2, <3>4, BitsAssumption
      <3> QED
        BY <3>1, <3>2, <3>4, <3>5, <3>6
    <2>3. CASE ~ IsStart(w) /\ ~ IsStop(w) /\ ~ (Rising(w) /\ in_data)
      BY <1>2, <2>3, ParserSteps DEF TypeOK
    <2> QED
      BY <2>1, <2>2, <2>3 DEF IsByte, TypeOK
  <1> QED
    BY <1>1, <1>2

(* What is left of a packet without its first byte is a packet. *)
LEMMA PacketTail ==
    ASSUME TypeOK, packet # <<>>
    PROVE  /\ SubSeq(packet, 2, Len(packet)) = Tail(packet)
           /\ Tail(packet) \in Seq(Byte)
  BY TailIsSubSeq, HeadTailProperties DEF TypeOK

(* What a change of level does to the variables of the main loop. *)
LEMMA LoopSteps ==
    ASSUME TypeOK, NEW w \in Wires, Report(w), w # seen
    PROVE  /\ state = "STANDBY" /\ IsStart(w)
                => state' = "READ" /\ packet' = <<>> /\ fifo' = fifo
           /\ state = "READ" /\ IsStop(w)
                => state' = "STANDBY" /\ packet' = <<>> /\ WritePacket
           /\ state = "READ" /\ IsByte(w)
                => state' = state /\ packet' = Append(packet, byte) /\ fifo' = fifo
           /\ ~ (state = "STANDBY" /\ IsStart(w)) /\ ~ (state = "READ" /\ IsStop(w))
              /\ ~ (state = "READ" /\ IsByte(w))
                => state' = state /\ packet' = packet /\ fifo' = fifo
  <1>1. Loop(w)
    BY DEF Report
  <1>2. ~ (IsStop(w) /\ IsByte(w))
    BY DEF IsStop, IsByte, Rising
  <1>3. CASE state = "STANDBY"
    BY <1>1, <1>3 DEF Loop
  <1>4. CASE state = "READ"
    BY <1>1, <1>2, <1>4 DEF Loop
  <1> QED
    BY <1>3, <1>4 DEF TypeOK

(* The main loop keeps its types; it writes to the FIFO at stops only, and *)
(* one packet at most.                                                     *)
LEMMA LoopTypes ==
    ASSUME TypeOK, NEW w \in Wires, Report(w)
    PROVE  /\ state' \in {"STANDBY", "READ"}
           /\ packet' \in Seq(Byte)
           /\ (state = "STANDBY" => packet = <<>>)
                => (state' = "STANDBY" => packet' = <<>>)
           /\ ~ IsStop(w) => fifo' = fifo
           /\ fifo' = fifo \/ \E p \in Seq(Byte) : fifo' = Append(fifo, p)
  <1>1. CASE w = seen
    BY <1>1 DEF TypeOK, Report
  <1>2. CASE w # seen
    <2>1. CASE state = "STANDBY" /\ IsStart(w)
      BY <1>2, <2>1, LoopSteps, EmptySeq DEF TypeOK
    <2>2. CASE state = "READ" /\ IsStop(w)
      <3>1. state' = "STANDBY" /\ packet' = <<>> /\ WritePacket
        BY <1>2, <2>2, LoopSteps
      <3>2. SubSeq(packet, 2, Len(packet)) \in Seq(Byte)
        BY SubSeqProperties, ElementOfSeq DEF TypeOK
      <3> QED
        BY <2>2, <3>1, <3>2, EmptySeq DEF WritePacket
    <2>3. CASE state = "READ" /\ ~ IsStop(w) /\ IsByte(w)
      <3>1. packet' = Append(packet, byte) /\ state' = state /\ fifo' = fifo
        BY <1>2, <2>3, LoopSteps
      <3>2. byte \in Byte
        BY <2>3, BitsMakeByte DEF IsByte, TypeOK
      <3>3. packet' \in Seq(Byte)
        BY <3>1, <3>2, AppendProperties DEF TypeOK
      <3> QED
        BY <2>3, <3>1, <3>3 
    <2>4. CASE ~ (state = "STANDBY" /\ IsStart(w)) /\ ~ (state = "READ" /\ IsStop(w))
               /\ ~ (state = "READ" /\ IsByte(w))
      BY <1>2, <2>4, LoopSteps DEF TypeOK
    <2> QED
      BY <2>1, <2>2, <2>3, <2>4
  <1> QED
    BY <1>1, <1>2

(* Initially the bus is idle, or a frame is under way that the sniffer has *)
(* not seen.                                                               *)
LEMMA Initialisation == Init => IInv
  <1> SUFFICES ASSUME Init PROVE IInv
    OBVIOUS
  <1>1. partial \in BOOLEAN
    BY DEF Init
  <1>2. /\ wires \in Wires /\ bus \in {"idle", "frame"} /\ count \in 0 .. Bits
        /\ value \in Seq(Level) /\ Len(value) = count
        /\ bus = "idle" <=> ~ partial
        /\ ~ partial => wires = High(1) /\ count = 0 /\ value = <<>>
    <2>1. CASE partial
      <3>1. /\ wires \in Wires /\ bus = "frame" /\ count \in 0 .. Bits
            /\ value = [i \in 1 .. count |-> 0]
        BY <2>1 DEF Init, Wires
      <3>2. value \in Seq(Level) /\ Len(value) = count
        BY <3>1 DEF Level
      <3> QED
        BY <2>1, <3>1, <3>2
    <2>2. CASE ~ partial
      BY <2>2, EmptySeq, WireLevels DEF Init, High, Level
    <2> QED
      BY <2>1, <2>2
  <1>3. /\ seen = High(1) /\ seen \in Wires
        /\ frame = <<>> /\ packet = <<>> /\ fifo = <<>> /\ byte = <<>>
        /\ in_data = FALSE /\ bit = 0 /\ state = "STANDBY"
    BY WireLevels DEF Init, High, Level
  <1>4. TypeOK
    <2>1. in_data \in BOOLEAN
      BY <1>3, Zenon
    <2>2. /\ <<>> \in Seq(Level) /\ <<>> \in Seq(Byte) /\ <<>> \in Seq(Seq(Byte))
          /\ Len(<<>>) = 0
      BY EmptySeq
    <2> QED
      BY <1>1, <1>2, <1>3, <2>1, <2>2 DEF TypeOK, Wires
  <1>5. InStep
    BY <1>2, <1>3, Zenon DEF InStep
  <1>6. Sampling
    BY <1>1, <1>2, <1>3 DEF Sampling
  <1> QED
    BY <1>2, <1>3, <1>4, <1>5, <1>6 DEF IInv

(* A report outside the idle state of the bus, in which the clock is low   *)
(* before or after, is no stop.                                            *)
LEMMA NoStop ==
    ASSUME IInv, NEW w \in Wires, bus = "frame", wires.scl = 0 \/ w.scl = 0
    PROVE  ~ IsStop(w)
  BY WireLevels DEF IInv, Sampling, IsStop, Level

(* While the owner is within a frame, what it does to the clock is what    *)
(* parse_I2C and the main loop do: they stay in step.                      *)
LEMMA FallsAndChanges ==
    ASSUME IInv, NEW w \in Wires, Report(w), bus = "frame", w.scl = 0, UNCHANGED owner
    PROVE  IInv'
  <1>1. TypeOK /\ ~ IsStop(w) /\ fifo' = fifo
    BY NoStop, LoopTypes DEF IInv
  <1>2. TypeOK'
    BY <1>1, ParserTypes, LoopTypes DEF TypeOK, Report, owner, Wires
  <1>3. seen' = wires'
    BY DEF Report
  <1>4. ~ partial => InStep'
    <2> SUFFICES ASSUME ~ partial PROVE InStep'
      OBVIOUS
    <2>1. ~ IsStart(w) /\ ~ IsStop(w) /\ ~ IsByte(w) /\ ~ Rising(w)
      BY DEF IsStart, IsStop, IsByte, Rising
    <2>2. UNCHANGED <<in_data, bit, byte, state, packet>>
      <3>1. CASE w = seen
        BY <3>1 DEF Report, parser
      <3>2. CASE w # seen
        BY <1>1, <2>1, <3>2, ParserSteps, LoopSteps, Zenon
      <3> QED
        BY <3>1, <3>2
    <2> QED
      BY <2>2 DEF IInv, InStep, owner
  <1>5. InStep'
    BY <1>4, Zenon DEF InStep, owner
  <1>6. Sampling'
    BY <1>3 DEF Sampling, owner
  <1> QED
    BY <1>1, <1>2, <1>5, <1>6, LoopTypes DEF IInv, owner

(* A start finds the sniffer waiting for it. *)
LEMMA Starts ==
    ASSUME IInv, Start
    PROVE  IInv' /\ UNCHANGED <<frame, partial, fifo>>
  <1>1. /\ Report(High(0)) /\ bus = "idle" /\ bus' = "frame" /\ Len(fifo) < MaxQueue
        /\ UNCHANGED <<count, value, frame, partial>>
    BY DEF Start
  <1>2. /\ TypeOK /\ ~ partial /\ seen = High(1) /\ frame = <<>> /\ count = 0
        /\ value = <<>> /\ state = "STANDBY"
    BY <1>1 DEF IInv, InStep, Sampling
  <1>3. IsStart(High(0)) /\ High(0) \in Wires /\ High(0) # seen
    BY <1>2, WireLevels DEF IsStart, Level
  <1>4. /\ (in_data' = TRUE) /\ bit' = 0 /\ byte' = <<>>
        /\ state' = "READ" /\ packet' = <<>> /\ fifo' = fifo
    BY <1>1, <1>2, <1>3, ParserSteps, LoopSteps
  <1>5. TypeOK'
    BY <1>1, <1>2, <1>3, <1>4, ParserTypes, LoopTypes DEF TypeOK, Report, Wires
  <1>6. InStep'
    BY <1>1, <1>2, <1>4, Zenon DEF InStep
  <1>7. Sampling'
    BY <1>1 DEF Sampling, Report
  <1> QED
    BY <1>1, <1>2, <1>4, <1>5, <1>6, <1>7 DEF IInv, TypeOK

(* The clock rises on a bit: it is the next one for both sides, and the    *)
(* last of a byte completes it for both.                                   *)
LEMMA Rises ==
    ASSUME IInv, NEW d \in Level, Rise(d)
    PROVE  /\ IInv' /\ UNCHANGED <<partial, fifo>>
           /\ frame' = frame \/ \E b \in Byte : frame' = Append(frame, b)
  <1>1. /\ Report(High(d)) /\ bus = "frame" /\ wires.scl = 0 /\ Len(frame) < MaxBytes
        /\ UNCHANGED <<bus, partial>>
    BY DEF Rise
  <1>2. TypeOK /\ High(d) \in Wires /\ High(d).scl = 1 /\ High(d).sda = d
    BY WireLevels DEF IInv
  <1>3. fifo' = fifo
    BY <1>1, <1>2, NoStop, LoopTypes
  <1>4. /\ count < Bits => /\ count' = count + 1 /\ value' = Append(value, d)
                           /\ frame' = frame
        /\ count = Bits => /\ count' = 0 /\ value' = <<>>
                           /\ frame' = Append(frame, value) /\ value \in Byte
    BY <1>2, BitsMakeByte DEF Rise, TypeOK
  <1>5. count < Bits \/ count = Bits
    BY <1>2 DEF TypeOK
  <1>6. /\ count' \in 0 .. Bits /\ value' \in Seq(Level) /\ Len(value') = count'
        /\ frame' \in Seq(Byte) /\ Len(frame') <= MaxBytes
    <2>1. /\ count \in 0 .. Bits /\ value \in Seq(Level) /\ Len(value) = count
          /\ frame \in Seq(Byte) /\ Len(frame) \in Nat
      BY <1>2, LenProperties DEF TypeOK
    <2>2. CASE count < Bits
      <3>1. Append(value, d) \in Seq(Level) /\ Len(Append(value, d)) = count + 1
        BY <2>1, AppendProperties
      <3> QED
        BY <1>1, <1>4, <2>1, <2>2, <3>1
    <2>3. CASE count = Bits
      <3>1. Append(frame, value) \in Seq(Byte) /\ Len(Append(frame, value)) = Len(frame) + 1
        BY <1>4, <2>1, <2>3, AppendProperties
      <3>2. value' \in Seq(Level) /\ Len(value') = count' /\ count' \in 0 .. Bits
        BY <1>4, <2>3, EmptySeq
      <3> QED
        BY <1>1, <1>4, <2>1, <2>3, <3>1, <3>2
    <2> QED
      BY <1>5, <2>2, <2>3
  <1>7. TypeOK'
    BY <1>1, <1>2, <1>3, <1>6, ParserTypes, LoopTypes DEF TypeOK, Report, Wires
  <1>8. InStep'
    <2> SUFFICES ASSUME ~ partial PROVE InStep'
      BY <1>1, Zenon DEF InStep
    <2>1. /\ in_data /\ state = "READ" /\ packet = frame /\ bit = count /\ byte = value
          /\ seen = wires
      BY <1>1 DEF IInv, InStep, Sampling
    <2>2. /\ High(d) # seen /\ Rising(High(d)) /\ ~ IsStart(High(d)) /\ ~ IsStop(High(d))
          /\ IsByte(High(d)) <=> count = Bits
      <3>1. High(d) # seen /\ Rising(High(d)) /\ ~ IsStart(High(d)) /\ ~ IsStop(High(d))
        BY <1>1, <1>2, <2>1 DEF Rising, IsStart, IsStop
      <3> QED
        BY <2>1, <3>1, Zenon DEF IsByte
    <2>3. in_data' = in_data
      BY <1>1, <1>2, <1>5, <2>1, <2>2, ParserSteps, Zenon
    <2>4. bit' = count' /\ byte' = value'
      BY <1>1, <1>2, <1>4, <1>5, <2>1, <2>2, ParserSteps
    <2>5. state' = "READ" /\ packet' = frame'
      BY <1>1, <1>2, <1>4, <1>5, <2>1, <2>2, LoopSteps
    <2> QED
      BY <1>1, <2>1, <2>3, <2>4, <2>5, Zenon DEF InStep
  <1>9. Sampling'
    BY <1>1 DEF Sampling, Report
  <1> QED
    BY <1>1, <1>2, <1>3, <1>4, <1>5, <1>7, <1>8, <1>9, LoopTypes DEF IInv

(* Before a stop the clock rises once: parse_I2C takes it for the first    *)
(* bit of another byte.                                                    *)
LEMMA RisesToStop ==
    ASSUME IInv, RiseToStop
    PROVE  IInv' /\ UNCHANGED <<frame, partial, fifo>>
  <1>1. /\ Report(High(0)) /\ bus = "frame" /\ wires.scl = 0 /\ bus' = "stopping"
        /\ count = 0 /\ (frame # <<>> \/ partial)
        /\ UNCHANGED <<count, value, frame, partial>>
    BY DEF RiseToStop
  <1>2. /\ TypeOK /\ High(0) \in Wires /\ High(0).scl = 1 /\ High(0).sda = 0
        /\ value = <<>>
    BY <1>1, WireLevels, EmptySeq DEF IInv, TypeOK, Level
  <1>3. fifo' = fifo
    BY <1>1, <1>2, NoStop, LoopTypes
  <1>4. TypeOK'
    BY <1>1, <1>2, <1>3, ParserTypes, LoopTypes DEF TypeOK, Report, Wires
  <1>5. InStep'
    <2> SUFFICES ASSUME ~ partial PROVE InStep'
      BY <1>1, Zenon DEF InStep
    <2>1. in_data /\ state = "READ" /\ packet = frame /\ bit = 0 /\ seen = wires
      BY <1>1 DEF IInv, InStep, Sampling
    <2>2. /\ High(0) # seen /\ Rising(High(0)) /\ ~ IsStart(High(0)) /\ ~ IsStop(High(0))
          /\ bit < Bits /\ bit # Bits
      BY <1>1, <1>2, <2>1 DEF Rising, IsStart, IsStop
    <2>3. ~ IsByte(High(0))
      BY <2>2, Zenon DEF IsByte
    <2>4. in_data' = in_data
      BY <1>1, <1>2, <2>1, <2>2, ParserSteps, Zenon
    <2>5. state' = "READ" /\ packet' = packet
      BY <1>1, <1>2, <2>1, <2>2, <2>3, LoopSteps
    <2> QED
      BY <1>1, <2>1, <2>4, <2>5, Zenon DEF InStep
  <1>6. Sampling'
    BY <1>1, <1>2 DEF Sampling, Report
  <1> QED
    BY <1>1, <1>2, <1>3, <1>4, <1>5, <1>6, LoopTypes DEF IInv

(* A stop resets the sniffer, and writes the frame that it has gathered.   *)
LEMMA Stops ==
    ASSUME IInv, Stop
    PROVE  /\ IInv' /\ ~ partial' /\ frame' = <<>>
           /\ fifo' = fifo \/ \E p \in Seq(Byte) : fifo' = Append(fifo, p)
           /\ ~ partial => /\ frame # <<>>
                           /\ fifo' = IF Len(frame) > 2 THEN Append(fifo, Tail(frame))
                                                        ELSE fifo
  <1>1. /\ Report(High(1)) /\ bus = "stopping" /\ bus' = "idle" /\ frame' = <<>>
        /\ (partial' = FALSE) /\ UNCHANGED <<count, value>>
    BY DEF Stop
  <1>2. /\ TypeOK /\ High(1) \in Wires /\ High(1).scl = 1 /\ High(1).sda = 1
        /\ seen = High(0) /\ High(0).scl = 1 /\ High(0).sda = 0 
        /\ count = 0 /\ value = <<>> /\ (partial \/ frame # <<>>)
        /\ Len(fifo) <= MaxQueue
    BY <1>1, WireLevels DEF IInv, Sampling, Level
  <1>3. IsStop(High(1)) /\ ~ IsStart(High(1)) /\ ~ IsByte(High(1)) /\ High(1) # seen
    BY <1>2 DEF IsStop, IsStart, IsByte, Rising
  <1>4. (in_data' = FALSE) /\ bit' = 0 /\ byte' = <<>>
    BY <1>1, <1>2, <1>3, ParserSteps
  <1>5. state' = "STANDBY" /\ packet' = <<>>
    <2>1. CASE state = "READ"
      BY <1>1, <1>2, <1>3, <2>1, LoopSteps
    <2>2. CASE state = "STANDBY"
      BY <1>1, <1>2, <1>3, <2>2, LoopSteps DEF IInv
    <2> QED
      BY <1>2, <2>1, <2>2 DEF TypeOK
  <1>6. fifo' = fifo \/ \E p \in Seq(Byte) : fifo' = Append(fifo, p)
    BY <1>1, <1>2, LoopTypes
  <1>7. fifo' \in Seq(Seq(Byte)) /\ Len(fifo') <= MaxQueue + 1
    <2>1. fifo \in Seq(Seq(Byte)) /\ Len(fifo) \in Nat
      BY <1>2, LenProperties DEF TypeOK
    <2>2. CASE \E p \in Seq(Byte) : fifo' = Append(fifo, p)
      BY <1>2, <2>1, <2>2, AppendPrefix
    <2> QED
      BY <1>2, <1>6, <2>1, <2>2
  <1>8. TypeOK'
    <2>1. <<>> \in Seq(Byte) /\ Len(<<>>) = 0
      BY EmptySeq
    <2>2. partial' \in BOOLEAN
      BY <1>1, Zenon
    <2> QED
      BY <1>1, <1>2, <1>5, <1>7, <2>1, <2>2, ParserTypes DEF TypeOK, Report, Wires
  <1>9. InStep'
    BY <1>1, <1>4, <1>5, Zenon DEF InStep
  <1>10. Sampling'
    BY <1>1, <1>2 DEF Sampling, Report
  <1>11. ASSUME ~ partial
         PROVE  fifo' = IF Len(frame) > 2 THEN Append(fifo, Tail(frame)) ELSE fifo
    <2>1. state = "READ" /\ packet = frame /\ frame # <<>>
      BY <1>1, <1>2, <1>11 DEF IInv, InStep
    <2>2. WritePacket
      BY <1>1, <1>2, <1>3, <2>1, LoopSteps
    <2>3. Len(frame) - 1 \in 0 .. Word - 1 /\ 2 * (Len(frame) - 1) < Word
      BY <1>2, <2>1, LenProperties, EmptySeq, WordAssumption DEF TypeOK
    <2>4. (Len(packet) - 1) % Word = Len(frame) - 1
      BY <2>1, <2>3, WordAssumption
    <2>5. SubSeq(packet, 2, Len(packet)) = Tail(frame)
      BY <1>2, <2>1, PacketTail
    <2>6. fifo' = IF Len(frame) - 1 >= 2 THEN Append(fifo, Tail(frame)) ELSE fifo
      BY <2>2, <2>3, <2>4, <2>5, Zenon DEF WritePacket
    <2>7. Len(frame) - 1 >= 2 <=> Len(frame) > 2
      BY <2>3
    <2> QED
      BY <2>6, <2>7, Zenon
  <1> QED
    BY <1>1, <1>2, <1>5, <1>6, <1>8, <1>9, <1>10, <1>11 DEF IInv

(* The server takes the packets away. *)
LEMMA Reads ==
    ASSUME IInv, Read
    PROVE  IInv' /\ UNCHANGED <<frame, partial>> /\ fifo # <<>> /\ fifo' = <<>>
  <1>1. /\ fifo # <<>> /\ fifo' = <<>>
        /\ UNCHANGED <<wires, owner, seen, parser, state, packet>>
    BY DEF Read
  <1>2. fifo' \in Seq(Seq(Byte)) /\ Len(fifo') = 0
    BY <1>1, EmptySeq
  <1>3. TypeOK'
    BY <1>1, <1>2 DEF IInv, TypeOK, owner, parser
  <1>4. InStep'
    BY <1>1, Zenon DEF IInv, InStep, owner, parser
  <1>5. Sampling'
    BY <1>1 DEF IInv, Sampling, owner
  <1> QED
    BY <1>1, <1>2, <1>3, <1>4, <1>5 DEF IInv, owner

-----------------------------------------------------------------------------

(* A step of the clock or of the data that writes nothing. *)
LEMMA Levels ==
    ASSUME IInv, Change \/ \E d \in Level : Fall(d)
    PROVE  IInv' /\ UNCHANGED <<frame, partial, fifo>>
  <1>1. PICK d \in Level : /\ Report(Low(d)) /\ bus = "frame" /\ UNCHANGED owner
    <2>1. 1 - wires.sda \in Level
      BY DEF IInv, TypeOK, Level
    <2> QED
      BY <2>1 DEF Change, Fall
  <1>2. Low(d) \in Wires /\ Low(d).scl = 0
    BY WireLevels
  <1>3. fifo' = fifo
    BY <1>1, <1>2, NoStop, LoopTypes DEF IInv
  <1> QED
    BY <1>1, <1>2, <1>3, FallsAndChanges DEF owner

(* Every step keeps the invariant. *)
LEMMA Preservation == IInv /\ [Next]_vars => IInv'
  <1> SUFFICES ASSUME IInv, [Next]_vars PROVE IInv'
    OBVIOUS
  <1>1. CASE Start
    BY <1>1, Starts
  <1>2. CASE Change \/ \E d \in Level : Fall(d)
    BY <1>2, Levels
  <1>3. CASE \E d \in Level : Rise(d)
    BY <1>3, Rises
  <1>4. CASE RiseToStop
    BY <1>4, RisesToStop
  <1>5. CASE Stop
    BY <1>5, Stops
  <1>6. CASE Read
    BY <1>6, Reads
  <1>7. CASE UNCHANGED vars
    <2>1. TypeOK'
      BY <1>7 DEF IInv, TypeOK, vars, owner, parser
    <2>2. InStep'
      BY <1>7, Zenon DEF IInv, InStep, vars, owner, parser
    <2>3. Sampling'
      BY <1>7 DEF IInv, Sampling, vars, owner
    <2> QED
      BY <1>7, <2>1, <2>2, <2>3 DEF IInv, vars, owner
  <1> QED
    BY <1>1, <1>2, <1>3, <1>4, <1>5, <1>6, <1>7 DEF Next

(* The sniffer's types, and its being in step with the owner of the bus,   *)
(* hold for bytes and frames of any length and any packets in the FIFO.    *)
THEOREM StaysInStep == Spec => []IInv
  <1>1. Init => IInv
    BY Initialisation
  <1>2. IInv /\ [Next]_vars => IInv'
    BY Preservation
  <1> QED
    BY <1>1, <1>2, PTL DEF Spec

(* The parser and the main loop follow the bits and the bytes on the bus:  *)
(* what they hold is what its owner has sent (parse_I2C, main).            *)
THEOREM InStepAlways == Spec => []InStep
  <1>1. IInv => InStep
    BY DEF IInv
  <1> QED
    BY <1>1, StaysInStep, PTL

(* The sniffer implements the tap: at each stop it writes the bytes of the *)
(* frame without the address, if there are two or more, and nothing at any *)
(* other time (writePacket).                                               *)
THEOREM ImplementsTap == Spec => TapSpec
  <1>1. Init => Tap!Init
    <2> SUFFICES ASSUME Init PROVE Tap!Init
      OBVIOUS
    <2>1. partial \in BOOLEAN
      BY DEF Init
    <2> QED
      BY <2>1 DEF Init, Tap!Init
  <1>2. IInv /\ [Next]_vars => [Tap!Next]_Tap!vars
    <2> SUFFICES ASSUME IInv, [Next]_vars PROVE Tap!Next \/ UNCHANGED <<frame, partial, fifo>>
      BY DEF Tap!vars
    <2>1. CASE Start
      BY <2>1, Starts
    <2>2. CASE Change \/ \E d \in Level : Fall(d)
      BY <2>2, Levels
    <2>3. CASE \E d \in Level : Rise(d)
      BY <2>3, Rises DEF Tap!Next, Tap!Send
    <2>4. CASE RiseToStop
      BY <2>4, RisesToStop
    <2>5. CASE Stop
      <3>1. CASE ~ partial
        <4>1. Tap!End
          <5>1. ~ partial' /\ partial' \in BOOLEAN /\ partial \in BOOLEAN
            BY <2>5, Stops DEF IInv, TypeOK
          <5>2. partial' = partial
            BY <3>1, <5>1, Zenon
          <5> QED
            BY <2>5, <3>1, <5>2, Stops DEF Tap!End
        <4> QED
          BY <4>1 DEF Tap!Next
      <3>2. CASE partial
        <4>1. ~ partial' /\ partial' \in BOOLEAN /\ frame' = <<>>
          BY <2>5, Stops DEF IInv, TypeOK
        <4>2. partial' = FALSE
          BY <4>1, Zenon
        <4>3. \/ fifo' = fifo
              \/ Len(fifo') = Len(fifo) + 1 /\ SubSeq(fifo', 1, Len(fifo)) = fifo
          <5>1. CASE fifo' = fifo
            BY <5>1
          <5>2. CASE \E p \in Seq(Byte) : fifo' = Append(fifo, p)
            BY <5>2, AppendPrefix DEF IInv, TypeOK
          <5> QED
            BY <2>5, <5>1, <5>2, Stops
        <4> QED
          BY <3>2, <4>1, <4>2, <4>3 DEF Tap!Next, Tap!EndPartial
      <3> QED
        BY <3>1, <3>2
    <2>6. CASE Read
      BY <2>6, Reads DEF Tap!Next, Tap!Read
    <2>7. CASE UNCHANGED vars
      BY <2>7 DEF vars, owner
    <2> QED
      BY <2>1, <2>2, <2>3, <2>4, <2>5, <2>6, <2>7 DEF Next
  <1> QED
    BY <1>1, <1>2, StaysInStep, PTL DEF Spec, Tap!Spec, TapSpec
=============================================================================
