------------------------------- MODULE I2CBus -------------------------------
(***************************************************************************)
(* The I2C bus that connects the boards, as the firmware sees it through   *)
(* the Wire library.  A transmission is synchronous: Wire.endTransmission  *)
(* returns once the bytes are on the bus, and the destination's receive    *)
(* callback runs at the end of that transmission.  A packet is therefore   *)
(* either handed to the callback the destination has installed at that     *)
(* moment, or it is lost (lost arbitration, a NACK): the firmware ignores  *)
(* the value endTransmission returns, so it never learns which.            *)
(***************************************************************************)
EXTENDS Integers

CONSTANTS
    N,      \* number of boards
    Lossy   \* the packet types that the bus may lose

Node == 0 .. N - 1

MASTER == 0

(* The packet types of communication.hpp. *)
PacketType == {"SYN", "ACK", "CON", "ICO", "INF", "DON", "DOF", "RES"}

ASSUME NAssumption     == N \in Nat /\ N > 1
ASSUME LossyAssumption == Lossy \subseteq PacketType

(* The outcomes the bus allows for a packet of a type: TRUE, it arrives. *)
Arrival(type) == IF type \in Lossy THEN {TRUE, FALSE} ELSE {TRUE}

(* The receive callbacks that the firmware installs with Wire.onReceive. *)
Callback == {"communication", "calibration", "consensus"}
=============================================================================
