------------------------------- MODULE I2CTap -------------------------------
(***************************************************************************)
(* What the I2C sniffer of rpi/src/pig2i2c.cpp promises to the server: for *)
(* each frame that passes on the bus, its FIFO gets one packet, the bytes  *)
(* of the frame without the address that comes first, provided there are   *)
(* at least two of them.  If the sniffer starts in the middle of a frame,  *)
(* that frame yields some packet or none.                                  *)
(***************************************************************************)
EXTENDS Naturals, Sequences

CONSTANT Byte   \* the values of a byte

VARIABLES
    frame,     \* the bytes of the frame on the bus, so far
    partial,   \* that frame was under way when the sniffer started
    fifo       \* the packets that the server has not read yet

vars == <<frame, partial, fifo>>

Init == frame = <<>> /\ partial \in BOOLEAN /\ fifo = <<>>

(* One more byte of the frame, acknowledged or not. *)
Send(b) ==
    /\ frame' = Append(frame, b)
    /\ UNCHANGED <<partial, fifo>>

End ==
    /\ ~partial /\ frame # <<>>
    /\ frame' = <<>>
    /\ fifo' = IF Len(frame) > 2 THEN Append(fifo, Tail(frame)) ELSE fifo
    /\ UNCHANGED partial

EndPartial ==
    /\ partial
    /\ partial' = FALSE
    /\ frame' = <<>>
    /\ \/ fifo' = fifo
       \/ /\ Len(fifo') = Len(fifo) + 1
          /\ SubSeq(fifo', 1, Len(fifo)) = fifo

(* A read takes all that the FIFO holds, as one run of bytes. *)
Read ==
    /\ fifo # <<>>
    /\ fifo' = <<>>
    /\ UNCHANGED <<frame, partial>>

Next == (\E b \in Byte : Send(b)) \/ End \/ EndPartial \/ Read

Spec == Init /\ [][Next]_vars
=============================================================================
