----------------------------- MODULE ServerLog ------------------------------
(***************************************************************************)
(* The state that the server of rpi/src keeps about the desks (System.cpp),*)
(* shared by two threads: one handles the packets that the sniffer writes  *)
(* to its FIFO, the other runs the handlers of all TCP sessions, of which  *)
(* the reset request and the stream timer touch that state (request.cpp).  *)
(*                                                                         *)
(* A step is what a thread does between two points where the other can see *)
(* or change what it uses.  A packet is abstract: it is the number of      *)
(* packets received so far.  Measurements, and the text of a response, are *)
(* left out; the comfort error and variance of an entry are represented by *)
(* the number of entries that they were computed from.                     *)
(***************************************************************************)
EXTENDS Integers, Sequences

CONSTANTS
    N,            \* number of desks, NODES
    Session,      \* TCP sessions
    Epoch,        \* milliseconds of the system clock when the server starts
    Modulus,      \* 1 + the largest unsigned long
    MaxTime,      \* bound: milliseconds that pass after the start
    MaxPackets,   \* bound: packets received
    MaxResets     \* bound: reset requests

ASSUME NAssumption      == N \in Nat /\ N > 0
ASSUME TimeAssumption   == /\ Epoch \in Nat /\ Epoch > 0 /\ MaxTime \in Nat
                           /\ Modulus \in Nat /\ Modulus > Epoch + MaxTime
ASSUME BoundsAssumption == MaxPackets \in Nat /\ MaxResets \in Nat

VARIABLES
    clock,      \* the system clock
    start,      \* start_
    entries,    \* entries_[d], the log of desk d, oldest first
    capacity,   \* the entries that the memory of entries_[d] has room for
    report,     \* report[f][d], the last lower bound, external light, occupancy
    i2c,        \* the I2C thread: its place, and its local variables
    tcp,        \* the TCP thread: likewise
    timestamps, \* timestamps[s][d], last_update_ of session s
    flags,      \* flags[s], the desks that session s streams
    received,   \* packets received from the FIFO
    resets,     \* reset requests handled
    given,      \* history: given[s][d], the packets whose entries s was sent
    restored    \* history: desks whose bit of occupancy_ a packet of another
                \* desk has brought back after a reset

shared == <<start, entries, capacity, report>>
own    == <<timestamps, flags, given, restored>>
limits == <<clock, received, resets>>
vars   == <<shared, own, limits, i2c, tcp>>

Desk == 0 .. N - 1

(* The vectors that handleRead writes and reset clears, in that order:     *)
(* lux_lower_bound_, lux_external_ and occupancy_.  The last one is a       *)
(* std::vector<bool>, whose bits share a word.                             *)
Field     == 1 .. 3
Occupancy == 3

(* What the desks of a cleared vector read as once it has its size again;  *)
(* until then it has no elements.                                          *)
Zeros   == [d \in Desk |-> 0]
Missing == [d \in Desk |-> -1]

(* Unsigned subtraction. *)
Minus(a, b) == (a - b) % Modulus

Time  == 0 .. Modulus - 1
Entry == [packet : Nat, time : Time, error : Nat, variance : Nat]

(* system->millis() *)
Millis == Minus(clock, start)

NoEntry == [packet |-> 0, time |-> 0, error |-> 0, variance |-> 0]

Init ==
    /\ clock = Epoch
    /\ start = Epoch
    /\ entries = [d \in Desk |-> <<>>]
    /\ capacity = [d \in Desk |-> 0]
    /\ report = [f \in Field |-> Zeros]
    /\ i2c = [pc |-> "read", desk |-> 0, now |-> 0, field |-> 1, entry |-> NoEntry,
              word |-> Zeros]
    /\ tcp \in [pc : {"idle"}, session : Session, desk : {0}, field : {1},
                entry : {NoEntry}, live : {TRUE}]
    /\ timestamps = [s \in Session |-> Zeros]
    /\ flags = [s \in Session |-> {}]
    /\ received = 0
    /\ resets = 0
    /\ given = [s \in Session |-> [d \in Desk |-> <<>>]]
    /\ restored = {}

-----------------------------------------------------------------------------
(* The I2C thread: handleRead. *)

(* A packet of desk d comes; its bytes are copied to local variables, and  *)
(* millis() reads the clock, ...                                           *)
Receive(d) ==
    /\ i2c.pc = "read" /\ received < MaxPackets
    /\ received' = received + 1
    /\ i2c' = [i2c EXCEPT !.pc = "stamp", !.desk = d, !.now = clock,
                          !.entry.packet = received']
    /\ UNCHANGED <<shared, own, clock, resets, tcp>>

(* ... and subtracts start_, which it reads without a lock. *)
Stamp ==
    /\ i2c.pc = "stamp"
    /\ i2c' = [i2c EXCEPT !.pc = "write", !.field = 1,
                          !.entry.time = Minus(i2c.now, start)]
    /\ UNCHANGED <<shared, own, limits, tcp>>

(* The three vectors are written without the lock: first the two of floats *)
(* ... Out of range, the exception skips what follows.                     *)
Write ==
    /\ i2c.pc = "write"
    /\ LET f == i2c.field IN
         IF report[f] = Missing
           THEN /\ i2c' = [i2c EXCEPT !.pc = "error"]
                /\ UNCHANGED report
           ELSE /\ f # Occupancy
                /\ report' = [report EXCEPT ![f][i2c.desk] = i2c.entry.packet]
                /\ i2c' = [i2c EXCEPT !.field = f + 1]
    /\ UNCHANGED <<start, entries, capacity, own, limits, tcp>>

(* ... then that of bits: the word of all desks is read, ...               *)
Load ==
    /\ i2c.pc = "write" /\ i2c.field = Occupancy
    /\ report[Occupancy] # Missing
    /\ i2c' = [i2c EXCEPT !.pc = "store", !.word = report[Occupancy]]
    /\ UNCHANGED <<shared, own, limits, tcp>>

(* ... and written back with the bit of this desk.  Beyond the end of a    *)
(* vector that has been cleared since, resize will wipe it.                *)
Store ==
    /\ i2c.pc = "store"
    /\ IF report[Occupancy] = Missing
         THEN UNCHANGED <<report, restored>>
         ELSE /\ report' = [report EXCEPT ![Occupancy] =
                              [i2c.word EXCEPT ![i2c.desk] = i2c.entry.packet]]
              /\ restored' = (restored \cup
                   {d \in Desk : i2c.word[d] # report[Occupancy][d]}) \ {i2c.desk}
    /\ i2c' = [i2c EXCEPT !.pc = "error", !.word = Zeros]
    /\ UNCHANGED <<start, entries, capacity, timestamps, flags, given, limits, tcp>>

(* reset holds mutex_ from its first clear to its last resize. *)
Locked == tcp.pc \in {"clear", "resize"}

(* getComfortError and getComfortVariance take the lock one after the      *)
(* other, for as long as they read the log.                                *)
ComfortError ==
    /\ i2c.pc = "error" /\ ~Locked
    /\ i2c' = [i2c EXCEPT !.pc = "variance", !.entry.error = Len(entries[i2c.desk])]
    /\ UNCHANGED <<shared, own, limits, tcp>>

(* Fault: the variance is taken over the new entry as well. *)
ComfortVarianceInclusive ==
    /\ i2c.pc = "variance" /\ ~Locked
    /\ i2c' = [i2c EXCEPT !.pc = "insert", !.entry.variance = Len(entries[i2c.desk]) + 1]
    /\ UNCHANGED <<shared, own, limits, tcp>>

ComfortVariance ==
    /\ i2c.pc = "variance" /\ ~Locked
    /\ i2c' = [i2c EXCEPT !.pc = "insert", !.entry.variance = Len(entries[i2c.desk])]
    /\ UNCHANGED <<shared, own, limits, tcp>>

(* insertEntry; a vector that is full moves to a memory twice as large. *)
Insert ==
    /\ i2c.pc = "insert" /\ ~Locked
    /\ LET d    == i2c.desk
           full == Len(entries[d]) = capacity[d]
       IN  /\ entries' = [entries EXCEPT ![d] = Append(@, i2c.entry)]
           /\ capacity' = IF ~full THEN capacity
                          ELSE [capacity EXCEPT ![d] = IF @ = 0 THEN 1 ELSE 2 * @]
           /\ tcp' = IF tcp.pc = "use" /\ tcp.desk = d /\ full
                       THEN [tcp EXCEPT !.live = FALSE] ELSE tcp
    /\ i2c' = [i2c EXCEPT !.pc = "read", !.now = 0, !.field = 1, !.entry = NoEntry]
    /\ UNCHANGED <<start, report, own, limits>>

-----------------------------------------------------------------------------
(* The TCP thread, a reset request: parseRequest and reset. *)

Request(s) ==
    /\ tcp.pc = "idle" /\ resets < MaxResets
    /\ resets' = resets + 1
    /\ start' = 0
    /\ tcp' = [tcp EXCEPT !.pc = "restart", !.session = s]
    /\ UNCHANGED <<entries, capacity, report, own, clock, received, i2c>>

Restart ==
    /\ tcp.pc = "restart"
    /\ start' = Millis
    /\ tcp' = [tcp EXCEPT !.pc = "log"]
    /\ UNCHANGED <<entries, capacity, report, own, limits, i2c>>

(* Fault: a reset does not clear the logs. *)
ClearNothing ==
    /\ tcp.pc = "log"
    /\ tcp' = [tcp EXCEPT !.pc = "clear", !.field = 1]
    /\ UNCHANGED <<shared, own, limits, i2c>>

(* The lock is taken and the logs are cleared: they keep their memory. *)
ClearLog ==
    /\ tcp.pc = "log"
    /\ entries' = [d \in Desk |-> <<>>]
    /\ tcp' = [tcp EXCEPT !.pc = "clear", !.field = 1]
    /\ UNCHANGED <<start, capacity, report, own, limits, i2c>>

(* Fault: a reset does not clear the occupancies. *)
ClearTwo ==
    /\ tcp.pc = "clear"
    /\ report' = [report EXCEPT ![tcp.field] = Missing]
    /\ tcp' = IF tcp.field < 2 THEN [tcp EXCEPT !.field = @ + 1]
                               ELSE [tcp EXCEPT !.pc = "resize", !.field = 1]
    /\ restored' = {}
    /\ UNCHANGED <<start, entries, capacity, timestamps, flags, given, limits, i2c>>

(* One vector after the other is cleared, then given its size again.  The  *)
(* bits of all desks are overwritten at once.                              *)
Clear ==
    /\ tcp.pc = "clear"
    /\ report' = [report EXCEPT ![tcp.field] = Missing]
    /\ tcp' = IF tcp.field < 3 THEN [tcp EXCEPT !.field = @ + 1]
                               ELSE [tcp EXCEPT !.pc = "resize", !.field = 1]
    /\ restored' = {}
    /\ UNCHANGED <<start, entries, capacity, timestamps, flags, given, limits, i2c>>

Resize ==
    /\ tcp.pc = "resize"
    /\ report' = [report EXCEPT ![tcp.field] = IF @ = Missing THEN Zeros ELSE @]
    /\ tcp' = IF tcp.field < 3 THEN [tcp EXCEPT !.field = @ + 1]
                               ELSE [tcp EXCEPT !.pc = "forget", !.field = 1]
    /\ UNCHANGED <<start, entries, capacity, own, limits, i2c>>

(* The session that asked forgets what it has streamed, and stops to. *)
Forget ==
    /\ tcp.pc = "forget"
    /\ timestamps' = [timestamps EXCEPT ![tcp.session] = Zeros]
    /\ flags' = [flags EXCEPT ![tcp.session] = {}]
    /\ tcp' = [tcp EXCEPT !.pc = "idle"]
    /\ UNCHANGED <<shared, given, restored, limits, i2c>>

-----------------------------------------------------------------------------
(* The TCP thread, streams: parseRequest, handleTimer and streamUpdate. *)

(* A stream of a desk is started or stopped. *)
Stream(s, d) ==
    /\ tcp.pc = "idle"
    /\ flags' = [flags EXCEPT ![s] = IF d \in @ THEN @ \ {d} ELSE @ \cup {d}]
    /\ UNCHANGED <<shared, timestamps, given, restored, limits, i2c, tcp>>

Timer(s) ==
    /\ tcp.pc = "idle"
    /\ tcp' = [tcp EXCEPT !.pc = "fetch", !.session = s, !.desk = 0]
    /\ UNCHANGED <<shared, own, limits, i2c>>

(* The next desk of the loop, or the end of it. *)
NextDesk(t) ==
    IF t.desk + 1 < N
      THEN [t EXCEPT !.pc = "fetch", !.desk = @ + 1, !.entry = NoEntry, !.live = TRUE]
      ELSE [t EXCEPT !.pc = "idle", !.desk = 0, !.entry = NoEntry, !.live = TRUE]

(* getLatestEntry takes the lock, and lets it go before it returns a       *)
(* pointer to the last entry.                                              *)
Fetch ==
    /\ tcp.pc = "fetch"
    /\ LET log == entries[tcp.desk] IN
         tcp' = IF log = <<>> THEN NextDesk(tcp)
                ELSE [tcp EXCEPT !.pc = "use", !.entry = log[Len(log)]]
    /\ UNCHANGED <<shared, own, limits, i2c>>

(* The entry is newer than the last one this session was sent. *)
Newer(e) == e.time > timestamps[tcp.session][tcp.desk]

(* The entry is read through the pointer.  The memory of an entry that has *)
(* moved may hold anything: it is taken to hold any time.                  *)
Use ==
    /\ tcp.pc = "use"
    /\ \E e \in IF tcp.live THEN {tcp.entry}
                ELSE {[tcp.entry EXCEPT !.time = t] : t \in 0 .. Epoch + MaxTime} :
         IF Newer(e)
           THEN /\ timestamps' = [timestamps EXCEPT ![tcp.session][tcp.desk] = e.time]
                /\ given' = IF tcp.desk \in flags[tcp.session] /\ tcp.live
                              THEN [given EXCEPT ![tcp.session][tcp.desk] = Append(@, e.packet)]
                              ELSE given
           ELSE UNCHANGED <<timestamps, given>>
    /\ tcp' = NextDesk(tcp)
    /\ UNCHANGED <<shared, flags, restored, limits, i2c>>

-----------------------------------------------------------------------------

Tick ==
    /\ clock < Epoch + MaxTime
    /\ clock' = clock + 1
    /\ UNCHANGED <<shared, own, received, resets, i2c, tcp>>

I2C == (\E d \in Desk : Receive(d)) \/ Stamp \/ Write \/ Load \/ Store
       \/ ComfortError \/ ComfortVariance \/ Insert

TCP == \/ \E s \in Session : Request(s) \/ Timer(s) \/ \E d \in Desk : Stream(s, d)
       \/ Restart \/ ClearLog \/ Clear \/ Resize \/ Forget \/ Fetch \/ Use

Next == I2C \/ TCP \/ Tick

Spec == Init /\ [][Next]_vars

-----------------------------------------------------------------------------
(* Properties. *)

I2CThread ==
    [pc : {"read", "stamp", "write", "store", "error", "variance", "insert"},
     desk : Desk, now : Nat, field : Field, entry : Entry, word : [Desk -> Nat]]

TCPThread ==
    [pc : {"idle", "restart", "log", "clear", "resize", "forget", "fetch", "use"},
     session : Session, desk : Desk, field : Field, entry : Entry, live : BOOLEAN]

(* Types: the clock and the packets stay within their bounds, the vectors  *)
(* have an element for each desk or none, and every log fits its memory.   *)
TypeOK ==
    /\ clock \in Epoch .. Epoch + MaxTime
    /\ start \in Time
    /\ entries \in [Desk -> Seq(Entry)]
    /\ capacity \in [Desk -> Nat]
    /\ \A d \in Desk : Len(entries[d]) <= capacity[d]
    /\ report \in [Field -> [Desk -> Nat] \cup {Missing}]
    /\ i2c \in I2CThread
    /\ tcp \in TCPThread
    /\ timestamps \in [Session -> [Desk -> Time]]
    /\ flags \in [Session -> SUBSET Desk]
    /\ received \in 0 .. MaxPackets
    /\ resets \in 0 .. MaxResets
    /\ given \in [Session -> [Desk -> Seq(1 .. MaxPackets)]]
    /\ restored \in SUBSET Desk

(* A reset has written start_ and has not cleared the logs yet. *)
Resetting == tcp.pc \in {"restart", "log"}

(* Outside a reset, each log is in the order of the packets, and of time   *)
(* up to now, except for its first entry: that one may have been stamped   *)
(* before the log was cleared (System::handleRead, System::reset).         *)
LogInOrder ==
    \A d \in Desk : \A i, j \in DOMAIN entries[d] :
        LET log == entries[d] IN
        /\ i < j => log[i].packet < log[j].packet
        /\ 1 < i /\ i <= j /\ ~Resetting
             => log[i].time <= log[j].time /\ log[j].time <= Millis

(* The comfort error and variance stored in an entry cover the entries     *)
(* before it, and no other, except in the first entry, for which they may  *)
(* come from a log that has been cleared since (System::handleRead).       *)
ComfortOverLog ==
    \A d \in Desk : \A i \in DOMAIN entries[d] :
        i > 1 => /\ entries[d][i].error = i - 1
                 /\ entries[d][i].variance = i - 1

(* When neither thread is at work on them, the lower bound, the external   *)
(* light and the occupancy of a desk are each that of the last packet of   *)
(* that desk in the log, or zero after a reset: never those of an earlier  *)
(* packet, except for an occupancy that a reset has cleared while another  *)
(* desk's was being written (System::handleRead, System::reset).           *)
LatestReport ==
    i2c.pc = "read" /\ tcp.pc \notin {"clear", "resize"} =>
        \A f \in Field, d \in Desk :
            /\ report[f] # Missing
            /\ report[f][d] # 0 =>
                 \/ entries[d] # <<>> /\ report[f][d] = entries[d][Len(entries[d])].packet
                 \/ f = Occupancy /\ d \in restored

(* No session is sent an entry twice, nor one older than another that it   *)
(* was sent, whatever resets any session has asked for (streamUpdate).     *)
StreamsForward ==
    \A s \in Session, d \in Desk : \A i, j \in DOMAIN given[s][d] :
        i < j => given[s][d][i] < given[s][d][j]
=============================================================================
