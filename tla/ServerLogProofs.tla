-------------------------- MODULE ServerLogProofs ---------------------------
(***************************************************************************)
(* The safety properties of the server's log, for every number of desks    *)
(* and of sessions, of packets and of resets.                              *)
(***************************************************************************)
EXTENDS ServerLog, TLAPS

(* The I2C thread holds a packet, which no log has and no session was sent. *)
Holding == i2c.pc # "read"

(* ... and has stamped it. *)
Stamped == i2c.pc \in {"write", "store", "error", "variance", "insert"}

(* Logs are in the order of the packets, which have been received, and the *)
(* one that the thread holds comes after them.                             *)
PacketsInv ==
    /\ \A d \in Desk : \A i, j \in DOMAIN entries[d] :
           i < j => entries[d][i].packet < entries[d][j].packet
    /\ \A d \in Desk : \A i \in DOMAIN entries[d] :
           /\ entries[d][i].packet \in 1 .. received
           /\ Holding => entries[d][i].packet < i2c.entry.packet
    /\ Holding => i2c.entry.packet = received /\ received > 0

(* The clock never goes behind start_, and has not been behind what the    *)
(* thread read, except during a reset.  From its second entry on a log     *)
(* keeps the order of time, up to the stamp of the packet that is held, or *)
(* the time that it will be stamped with: these matter only while the log  *)
(* of that desk is not empty, for a reset empties it.                      *)
TimeInv ==
    /\ start <= clock /\ i2c.now <= clock
    /\ ~Resetting =>
         /\ \A d \in Desk : \A i, j \in DOMAIN entries[d] :
                1 < i /\ i <= j => /\ entries[d][i].time <= entries[d][j].time
                                   /\ entries[d][j].time <= clock - start
         /\ Holding /\ entries[i2c.desk] # <<>> =>
                /\ i2c.pc = "stamp" => start <= i2c.now
                /\ Stamped => i2c.entry.time <= clock - start
                /\ \A i \in DOMAIN entries[i2c.desk] : 1 < i =>
                       entries[i2c.desk][i].time
                         <= IF i2c.pc = "stamp" THEN i2c.now - start ELSE i2c.entry.time

(* The comfort error and variance that the thread has computed are of the  *)
(* log as it is, unless it has been cleared since.                         *)
ComfortInv ==
    /\ ComfortOverLog
    /\ entries[i2c.desk] # <<>> =>
         /\ i2c.pc \in {"variance", "insert"} => i2c.entry.error = Len(entries[i2c.desk])
         /\ i2c.pc = "insert" => i2c.entry.variance = Len(entries[i2c.desk])

(* The vector f is among those that reset has cleared and not given its    *)
(* size again; among those that it will still clear; and among those that  *)
(* the thread has written, or will not write.                              *)
Cleared(f) == \/ tcp.pc = "clear" /\ f < tcp.field
              \/ tcp.pc = "resize" /\ f >= tcp.field

Stale(f) == tcp.pc = "clear" /\ f >= tcp.field

Past(f) == \/ i2c.pc \in {"error", "variance", "insert"}
           \/ i2c.pc = "write" /\ f < i2c.field
           \/ i2c.pc = "store" /\ f < Occupancy

Last(d) == entries[d][Len(entries[d])]

(* What a vector holds for a desk is zero, or of the packet that is held,  *)
(* or of the last entry, but not the latter once the thread is past it; or *)
(* else it is a bit that has come back with the word of another desk.      *)
ReportInv ==
    \A f \in Field :
        /\ report[f] = Missing <=> Cleared(f)
        /\ ~Cleared(f) /\ ~Stale(f) =>
             \A d \in Desk :
                \/ report[f][d] = 0
                \/ d = i2c.desk /\ Stamped /\ report[f][d] = i2c.entry.packet
                \/ /\ entries[d] # <<>> /\ report[f][d] = Last(d).packet
                   /\ ~ (d = i2c.desk /\ Past(f))
                \/ f = Occupancy /\ d \in restored

(* Session s has been sent packets of desk d up to that of the entry e at  *)
(* most, and then will not be sent e again.                                *)
UpTo(s, d, e) ==
    \A g \in DOMAIN given[s][d] :
        /\ given[s][d][g] <= e.packet
        /\ given[s][d][g] = e.packet => e.time <= timestamps[s][d]

(* A session has been sent nothing that is not in the log, or was; nothing *)
(* at all of what has come into it during a reset; and the entry that the  *)
(* TCP thread is about to send is the last or older.                       *)
StreamInv ==
    /\ StreamsForward
    /\ \A s \in Session, d \in Desk : \A g \in DOMAIN given[s][d] :
           /\ given[s][d][g] \in 1 .. received
           /\ Holding => given[s][d][g] < i2c.entry.packet
           /\ tcp.pc \in {"clear", "resize", "forget"} =>
                  \A i \in DOMAIN entries[d] : given[s][d][g] < entries[d][i].packet
    /\ \A s \in Session, d \in Desk : entries[d] # <<>> => UpTo(s, d, Last(d))
    /\ tcp.pc = "use" =>
         /\ entries[tcp.desk] # <<>>
         /\ tcp.entry.packet \in 1 .. received
         /\ UpTo(tcp.session, tcp.desk, tcp.entry)
         /\ tcp.entry.packet <= Last(tcp.desk).packet
         /\ tcp.entry.packet = Last(tcp.desk).packet => tcp.entry.time = Last(tcp.desk).time

IInv == TypeOK /\ PacketsInv /\ TimeInv /\ ComfortInv /\ ReportInv /\ StreamInv

USE NAssumption, TimeAssumption, BoundsAssumption

-----------------------------------------------------------------------------
(* Unsigned subtraction. *)

LEMMA MinusType ==
  ASSUME NEW a \in Int, NEW b \in Int
  PROVE  Minus(a, b) \in Time
  BY SMT DEF Minus, Time

LEMMA MinusSmall ==
  ASSUME NEW a \in 0 .. Epoch + MaxTime, NEW b \in 0 .. a
  PROVE  Minus(a, b) = a - b
  BY SMT DEF Minus

-----------------------------------------------------------------------------
(* Types. *)

LEMMA MissingIsNone == Missing \notin [Desk -> Nat] /\ Zeros \in [Desk -> Nat] /\ Missing # Zeros
  <1>1. 0 \in Desk /\ Missing[0] = -1 /\ Zeros[0] = 0
    BY SMT DEF Desk, Missing, Zeros
  <1>2. -1 \notin Nat
    OBVIOUS
  <1> QED
    BY <1>1, <1>2 DEF Zeros

LEMMA NoEntryType == NoEntry \in Entry
  BY SMT DEF NoEntry, Entry, Time

LEMMA NextDeskType ==
  ASSUME NEW t \in TCPThread
  PROVE  NextDesk(t) \in TCPThread /\ NextDesk(t).pc \in {"fetch", "idle"}
  <1>1. t.desk \in Desk /\ 0 \in Desk /\ (t.desk + 1 < N => t.desk + 1 \in Desk)
    BY SMT DEF TCPThread, Desk
  <1>2. \/ /\ t.desk + 1 < N
           /\ NextDesk(t) = [t EXCEPT !.pc = "fetch", !.desk = t.desk + 1,
                                      !.entry = NoEntry, !.live = TRUE]
        \/ NextDesk(t) = [t EXCEPT !.pc = "idle", !.desk = 0, !.entry = NoEntry, !.live = TRUE]
    BY Zenon DEF NextDesk
  <1> QED
    BY <1>1, <1>2, NoEntryType, Zenon DEF TCPThread

(* The log that an entry is put into. *)
LEMMA InsertFacts ==
  ASSUME TypeOK, Insert
  PROVE  LET d == i2c.desk IN
         /\ d \in Desk /\ i2c.entry \in Entry
         /\ Len(entries'[d]) = Len(entries[d]) + 1
         /\ entries'[d][Len(entries[d]) + 1] = i2c.entry
         /\ \A i \in DOMAIN entries[d] : i \in DOMAIN entries'[d] /\ entries'[d][i] = entries[d][i]
         /\ \A i \in DOMAIN entries'[d] : i \in DOMAIN entries[d] \/ i = Len(entries[d]) + 1
         /\ entries'[d] # <<>> /\ entries'[d] \in Seq(Entry)
         /\ \A o \in Desk : o # d => entries'[o] = entries[o]
         /\ i2c'.pc = "read" /\ i2c' \in I2CThread /\ i2c'.desk = d /\ i2c'.now = 0
  <1> DEFINE d == i2c.desk
  <1>1. d \in Desk /\ i2c.entry \in Entry /\ entries[d] \in Seq(Entry)
    BY DEF TypeOK, I2CThread
  <1>2. entries' = [entries EXCEPT ![d] = Append(entries[d], i2c.entry)]
    BY DEF Insert
  <1>3. entries'[d] = Append(entries[d], i2c.entry) /\ \A o \in Desk : o # d => entries'[o] = entries[o]
    BY <1>1, <1>2 DEF TypeOK
  <1>4. /\ i2c'.pc = "read" /\ i2c' \in I2CThread /\ i2c'.desk = d /\ i2c'.now = 0
    <2>1. i2c \in I2CThread /\ i2c' = [i2c EXCEPT !.pc = "read", !.now = 0, !.field = 1,
                                                  !.entry = NoEntry]
      BY DEF Insert, TypeOK
    <2>2. 1 \in Field /\ 0 \in Nat
      BY DEF Field
    <2> QED
      BY <2>1, <2>2, NoEntryType, Zenon DEF I2CThread
  <1> HIDE DEF d
  <1>5. /\ Len(entries'[d]) = Len(entries[d]) + 1
        /\ entries'[d][Len(entries[d]) + 1] = i2c.entry
        /\ \A i \in DOMAIN entries[d] : i \in DOMAIN entries'[d] /\ entries'[d][i] = entries[d][i]
        /\ \A i \in DOMAIN entries'[d] : i \in DOMAIN entries[d] \/ i = Len(entries[d]) + 1
        /\ entries'[d] # <<>> /\ entries'[d] \in Seq(Entry)
    BY <1>1, <1>3
  <1> QED
    BY <1>1, <1>3, <1>4, <1>5 DEF d

LEMMA InitTypes == Init => TypeOK
  <1> SUFFICES ASSUME Init PROVE TypeOK
    OBVIOUS
  <1>1. 0 \in Desk /\ 1 \in Field /\ 0 \in Time /\ Epoch \in Time /\ Epoch \in Epoch .. Epoch + MaxTime
    BY SMT DEF Desk, Field, Time
  <1>2. i2c \in I2CThread /\ tcp \in TCPThread
    BY <1>1, NoEntryType, MissingIsNone DEF Init, I2CThread, TCPThread
  <1>3. \A d \in Desk : entries[d] = <<>> /\ capacity[d] = 0 /\ Len(entries[d]) <= capacity[d]
    BY DEF Init
  <1>4. entries \in [Desk -> Seq(Entry)] /\ capacity \in [Desk -> Nat]
    BY DEF Init
  <1>5. report \in [Field -> [Desk -> Nat] \cup {Missing}] /\ flags \in [Session -> SUBSET Desk]
    BY MissingIsNone DEF Init
  <1>6. timestamps \in [Session -> [Desk -> Time]] /\ given \in [Session -> [Desk -> Seq(1 .. MaxPackets)]]
    BY <1>1 DEF Init, Zeros
  <1>7. received \in 0 .. MaxPackets /\ resets \in 0 .. MaxResets
    BY SMT DEF Init
  <1> QED
    BY <1>1, <1>2, <1>3, <1>4, <1>5, <1>6, <1>7 DEF Init, TypeOK

LEMMA I2CTypes ==
  ASSUME TypeOK, I2C
  PROVE  TypeOK'
  <1> USE DEF TypeOK, shared, own, limits
  <1>1. ASSUME NEW d \in Desk, Receive(d) PROVE TypeOK'
    <2>1. received' \in 0 .. MaxPackets /\ received' \in Nat /\ clock \in Nat
      BY <1>1, SMT DEF Receive
    <2>2. i2c' \in I2CThread
      <3>1. [i2c.entry EXCEPT !.packet = received'] \in Entry
        BY <2>1 DEF I2CThread, Entry
      <3>2. i2c' = [i2c EXCEPT !.pc = "stamp", !.desk = d, !.now = clock,
                               !.entry = [i2c.entry EXCEPT !.packet = received']]
        BY <1>1, Zenon DEF Receive
      <3> QED
        BY <2>1, <3>1, <3>2 DEF I2CThread
    <2> QED
      BY <1>1, <2>1, <2>2 DEF Receive
  <1>2. CASE Stamp
    <2>1. Minus(i2c.now, start) \in Time
      <3>1. i2c.now \in Int /\ start \in Int
        BY SMT DEF I2CThread, Time
      <3> QED
        BY <3>1, MinusType
    <2>2. i2c' \in I2CThread
      <3> DEFINE e == [i2c.entry EXCEPT !.time = Minus(i2c.now, start)]
      <3>1. e \in Entry
        BY <2>1 DEF I2CThread, Entry
      <3>2. i2c' = [i2c EXCEPT !.pc = "write", !.field = 1, !.entry = e]
        BY <1>2, Zenon DEF Stamp
      <3>3. 1 \in Field
        BY DEF Field
      <3> HIDE DEF e
      <3> QED
        BY <3>1, <3>2, <3>3, Zenon DEF I2CThread
    <2> QED
      BY <1>2, <2>2 DEF Stamp
  <1>3. CASE Write
    <2> DEFINE f == i2c.field
    <2>1. f \in Field /\ i2c.desk \in Desk /\ i2c.entry.packet \in Nat
      BY DEF I2CThread, Entry
    <2>2. i2c' \in I2CThread
      <3>1. f # Occupancy => f + 1 \in Field
        BY <2>1, SMT DEF Field, Occupancy
      <3>2. \/ i2c' = [i2c EXCEPT !.pc = "error"]
            \/ f # Occupancy /\ i2c' = [i2c EXCEPT !.field = f + 1]
        BY <1>3, Zenon DEF Write
      <3> QED
        BY <3>1, <3>2, Zenon DEF I2CThread
    <2>3. report' \in [Field -> [Desk -> Nat] \cup {Missing}]
      <3>1. CASE report[f] = Missing
        BY <1>3, <3>1 DEF Write
      <3>2. CASE report[f] # Missing
        <4>1. report[f] \in [Desk -> Nat]
          BY <2>1, <3>2
        <4>2. report' = [report EXCEPT ![f] = [report[f] EXCEPT ![i2c.desk] = i2c.entry.packet]]
          BY <1>3, <3>2 DEF Write
        <4> QED
          BY <2>1, <4>1, <4>2
      <3> QED
        BY <3>1, <3>2
    <2> QED
      BY <1>3, <2>2, <2>3 DEF Write
  <1>4. CASE Load
    <2>1. report[Occupancy] \in [Desk -> Nat]
      BY <1>4 DEF Load, Occupancy, Field
    <2>2. i2c' \in I2CThread
      BY <1>4, <2>1, Zenon DEF Load, I2CThread
    <2> QED
      BY <1>4, <2>2 DEF Load
  <1>5. CASE Store
    <2>1. i2c' \in I2CThread
      BY <1>5, MissingIsNone, Zenon DEF Store, I2CThread
    <2>2. report' \in [Field -> [Desk -> Nat] \cup {Missing}] /\ restored' \in SUBSET Desk
      <3>1. i2c.word \in [Desk -> Nat] /\ i2c.entry.packet \in Nat
        BY DEF I2CThread, Entry
      <3>2. [i2c.word EXCEPT ![i2c.desk] = i2c.entry.packet] \in [Desk -> Nat]
        BY <3>1
      <3> QED
        BY <1>5, <3>2 DEF Store
    <2> QED
      BY <1>5, <2>1, <2>2 DEF Store
  <1>6. CASE ComfortError
    <2>1. i2c' \in I2CThread
      <3> DEFINE e == [i2c.entry EXCEPT !.error = Len(entries[i2c.desk])]
      <3>1. e \in Entry
        <4>1. i2c.entry \in Entry /\ Len(entries[i2c.desk]) \in Nat
          BY DEF I2CThread
        <4> QED
          BY <4>1 DEF Entry
      <3>2. i2c' = [i2c EXCEPT !.pc = "variance", !.entry = e]
        BY <1>6, Zenon DEF ComfortError
      <3> HIDE DEF e
      <3> QED
        BY <3>1, <3>2, Zenon DEF I2CThread
    <2> QED
      BY <1>6, <2>1 DEF ComfortError
  <1>7. CASE ComfortVariance
    <2>1. i2c' \in I2CThread
      <3> DEFINE e == [i2c.entry EXCEPT !.variance = Len(entries[i2c.desk])]
      <3>1. e \in Entry
        <4>1. i2c.entry \in Entry /\ Len(entries[i2c.desk]) \in Nat
          BY DEF I2CThread
        <4> QED
          BY <4>1 DEF Entry
      <3>2. i2c' = [i2c EXCEPT !.pc = "insert", !.entry = e]
        BY <1>7, Zenon DEF ComfortVariance
      <3> HIDE DEF e
      <3> QED
        BY <3>1, <3>2, Zenon DEF I2CThread
    <2> QED
      BY <1>7, <2>1 DEF ComfortVariance
  <1>8. CASE Insert
    <2> DEFINE d == i2c.desk
    <2>1. entries' \in [Desk -> Seq(Entry)]
      BY <1>8 DEF Insert, I2CThread
    <2>2. capacity' \in [Desk -> Nat] /\ \A o \in Desk : Len(entries'[o]) <= capacity'[o]
      <3>1. d \in Desk /\ capacity[d] \in Nat /\ Len(entries[d]) \in Nat /\ Len(entries[d]) <= capacity[d]
        BY DEF I2CThread
      <3>2. capacity' = IF Len(entries[d]) # capacity[d] THEN capacity
                        ELSE [capacity EXCEPT ![d] = IF @ = 0 THEN 1 ELSE 2 * @]
        BY <1>8 DEF Insert
      <3>3. capacity' \in [Desk -> Nat]
        BY <3>1, <3>2
      <3>4. Len(entries'[d]) <= capacity'[d]
        <4>1. Len(entries'[d]) = Len(entries[d]) + 1
          BY <1>8, InsertFacts
        <4>2. CASE Len(entries[d]) # capacity[d]
          BY <3>1, <3>2, <4>1, <4>2, SMT
        <4>3. CASE Len(entries[d]) = capacity[d]
          <5>1. capacity'[d] = IF capacity[d] = 0 THEN 1 ELSE 2 * capacity[d]
            BY <3>1, <3>2, <4>3
          <5> QED
            BY <3>1, <4>1, <4>3, <5>1, SMT
        <4> QED
          BY <4>2, <4>3
      <3>5. \A o \in Desk : o # d => entries'[o] = entries[o] /\ capacity'[o] = capacity[o]
        BY <1>8, <3>2, InsertFacts
      <3> QED
        BY <3>3, <3>4, <3>5
    <2>3. i2c' \in I2CThread
      BY <1>8, InsertFacts
    <2>4. tcp' \in TCPThread
      BY <1>8 DEF Insert, TCPThread
    <2> QED
      BY <1>8, <2>1, <2>2, <2>3, <2>4 DEF Insert
  <1> QED
    BY <1>1, <1>2, <1>3, <1>4, <1>5, <1>6, <1>7, <1>8 DEF I2C

(* What is read through the pointer, and what is done with it. *)
LEMMA UseFacts ==
  ASSUME TypeOK, StreamInv, Use
  PROVE  LET s == tcp.session
             d == tcp.desk
             k == tcp.entry.packet IN
         /\ s \in Session /\ d \in Desk /\ tcp.entry \in Entry /\ k \in 1 .. MaxPackets
         /\ tcp' = NextDesk(tcp)
         /\ \/ UNCHANGED <<timestamps, given>>
            \/ \E t \in Time : /\ timestamps[s][d] < t
                               /\ timestamps' = [timestamps EXCEPT ![s][d] = t]
                               /\ \/ given' = given
                                  \/ /\ t = tcp.entry.time
                                     /\ given' = [given EXCEPT ![s][d] = Append(@, k)]
  <1> DEFINE s == tcp.session
             d == tcp.desk
             k == tcp.entry.packet
  <1>1. s \in Session /\ d \in Desk /\ tcp.entry \in Entry
    BY DEF TypeOK, TCPThread
  <1>2. k \in 1 .. MaxPackets
    <2>1. k \in 1 .. received /\ received \in 0 .. MaxPackets
      BY DEF StreamInv, Use, TypeOK
    <2> QED
      BY <2>1, SMT
  <1>3. PICK e \in IF tcp.live THEN {tcp.entry}
                   ELSE {[tcp.entry EXCEPT !.time = t] : t \in 0 .. Epoch + MaxTime} :
          IF Newer(e)
            THEN /\ timestamps' = [timestamps EXCEPT ![s][d] = e.time]
                 /\ given' = IF d \in flags[s] /\ tcp.live
                               THEN [given EXCEPT ![s][d] = Append(@, e.packet)]
                               ELSE given
            ELSE UNCHANGED <<timestamps, given>>
    BY Zenon DEF Use
  <1>4. e.time \in Time /\ e.packet = k /\ (tcp.live => e = tcp.entry)
    <2>1. CASE tcp.live
      BY <1>1, <2>1 DEF Entry
    <2>2. CASE ~tcp.live
      <3>1. PICK t \in 0 .. Epoch + MaxTime : e = [tcp.entry EXCEPT !.time = t]
        BY <2>2
      <3>2. t \in Time
        BY SMT DEF Time
      <3> QED
        BY <1>1, <2>2, <3>1, <3>2 DEF Entry
    <2> QED
      BY <2>1, <2>2
  <1>5. tcp' = NextDesk(tcp)
    BY DEF Use
  <1>6. CASE Newer(e)
    <2>1. timestamps[s][d] < e.time
      BY <1>1, <1>4, <1>6, SMT DEF Newer, TypeOK, Time
    <2>2. timestamps' = [timestamps EXCEPT ![s][d] = e.time]
      BY <1>3, <1>6
    <2>3. \/ given' = given
          \/ e.time = tcp.entry.time /\ given' = [given EXCEPT ![s][d] = Append(@, k)]
      BY <1>3, <1>4, <1>6, Zenon
    <2> QED
      BY <1>1, <1>2, <1>4, <1>5, <2>1, <2>2, <2>3, Zenon
  <1>7. CASE ~Newer(e)
    BY <1>1, <1>2, <1>3, <1>5, <1>7, Zenon
  <1> QED
    BY <1>6, <1>7

LEMMA TCPTypes ==
  ASSUME TypeOK, StreamInv, TCP
  PROVE  TypeOK'
  <1> USE DEF TypeOK, shared, own, limits
  <1>0. 1 \in Field /\ 0 \in Desk
    BY SMT DEF Field, Desk
  <1>1. ASSUME NEW s \in Session, Request(s) PROVE TypeOK'
    <2>1. resets' \in 0 .. MaxResets /\ start' \in Time
      BY <1>1, SMT DEF Request, Time
    <2>2. tcp' \in TCPThread
      BY <1>1, Zenon DEF Request, TCPThread
    <2> QED
      BY <1>1, <2>1, <2>2 DEF Request
  <1>2. CASE Restart
    <2>1. start' \in Time
      <3>1. clock \in Int /\ start \in Int
        BY SMT DEF Time
      <3> QED
        BY <1>2, <3>1, MinusType DEF Restart, Millis
    <2>2. tcp' \in TCPThread
      BY <1>2, Zenon DEF Restart, TCPThread
    <2> QED
      BY <1>2, <2>1, <2>2 DEF Restart
  <1>3. CASE ClearLog
    <2>1. tcp' \in TCPThread
      BY <1>0, <1>3, Zenon DEF ClearLog, TCPThread
    <2>2. \A d \in Desk : Len(entries'[d]) <= capacity'[d]
      BY <1>3 DEF ClearLog
    <2> QED
      BY <1>3, <2>1, <2>2 DEF ClearLog
  <1>4. CASE Clear \/ Resize
    <2> DEFINE f == tcp.field
    <2>1. f \in Field /\ (f < 3 => f + 1 \in Field)
      BY SMT DEF TCPThread, Field
    <2>2. \/ f < 3 /\ tcp' = [tcp EXCEPT !.field = f + 1]
          \/ tcp' = [tcp EXCEPT !.pc = "resize", !.field = 1]
          \/ tcp' = [tcp EXCEPT !.pc = "forget", !.field = 1]
      BY <1>4, Zenon DEF Clear, Resize
    <2>3. tcp' \in TCPThread
      BY <1>0, <2>1, <2>2, Zenon DEF TCPThread
    <2>4. report' \in [Field -> [Desk -> Nat] \cup {Missing}]
      BY <1>4, <2>1, MissingIsNone DEF Clear, Resize
    <2> QED
      BY <1>4, <2>3, <2>4 DEF Clear, Resize
  <1>5. CASE Forget
    <2>1. tcp' \in TCPThread
      BY <1>5, Zenon DEF Forget, TCPThread
    <2>2. Zeros \in [Desk -> Time]
      BY SMT DEF Zeros, Time
    <2>3. timestamps' \in [Session -> [Desk -> Time]] /\ flags' \in [Session -> SUBSET Desk]
      BY <1>5, <2>2 DEF Forget
    <2> QED
      BY <1>5, <2>1, <2>3 DEF Forget
  <1>6. ASSUME NEW s \in Session, NEW d \in Desk, Stream(s, d) PROVE TypeOK'
    <2>1. flags' \in [Session -> SUBSET Desk]
      BY <1>6 DEF Stream
    <2> QED
      BY <1>6, <2>1 DEF Stream
  <1>7. ASSUME NEW s \in Session, Timer(s) PROVE TypeOK'
    <2>1. tcp' \in TCPThread
      BY <1>0, <1>7, Zenon DEF Timer, TCPThread
    <2> QED
      BY <1>7, <2>1 DEF Timer
  <1>8. CASE Fetch
    <2>1. tcp.desk \in Desk /\ entries[tcp.desk] \in Seq(Entry)
      BY DEF TCPThread
    <2>2. entries[tcp.desk] # <<>> => Last(tcp.desk) \in Entry
      BY <2>1 DEF Last
    <2>3. \/ tcp' = NextDesk(tcp)
          \/ /\ entries[tcp.desk] # <<>>
             /\ tcp' = [tcp EXCEPT !.pc = "use", !.entry = Last(tcp.desk)]
      BY <1>8, Zenon DEF Fetch, Last
    <2>4. tcp' \in TCPThread
      BY <2>2, <2>3, NextDeskType, Zenon DEF TCPThread
    <2> QED
      BY <1>8, <2>4 DEF Fetch
  <1>9. CASE Use
    <2> DEFINE s == tcp.session
               d == tcp.desk
               k == tcp.entry.packet
    <2>1. /\ s \in Session /\ d \in Desk /\ k \in 1 .. MaxPackets
          /\ tcp' = NextDesk(tcp)
          /\ \/ UNCHANGED <<timestamps, given>>
             \/ \E t \in Time : /\ timestamps[s][d] < t
                                /\ timestamps' = [timestamps EXCEPT ![s][d] = t]
                                /\ \/ given' = given
                                   \/ /\ t = tcp.entry.time
                                      /\ given' = [given EXCEPT ![s][d] = Append(@, k)]
      BY <1>9, UseFacts
    <2>2. tcp' \in TCPThread
      BY <2>1, NextDeskType
    <2> HIDE DEF s, d, k
    <2>3. timestamps' \in [Session -> [Desk -> Time]]
      <3>1. CASE timestamps' = timestamps
        BY <3>1
      <3>2. ASSUME NEW t \in Time, timestamps' = [timestamps EXCEPT ![s][d] = t]
            PROVE  timestamps' \in [Session -> [Desk -> Time]]
        BY <2>1, <3>2
      <3> QED
        BY <2>1, <3>1, <3>2
    <2>4. given' \in [Session -> [Desk -> Seq(1 .. MaxPackets)]]
      <3>1. CASE given' = given
        BY <3>1
      <3>2. CASE given' = [given EXCEPT ![s][d] = Append(@, k)]
        <4>1. given[s][d] \in Seq(1 .. MaxPackets)
          BY <2>1
        <4>2. Append(given[s][d], k) \in Seq(1 .. MaxPackets)
          BY <2>1, <4>1
        <4> QED
          BY <2>1, <3>2, <4>2
      <3> QED
        BY <2>1, <3>1, <3>2
    <2> QED
      BY <1>9, <2>2, <2>3, <2>4 DEF Use
  <1> QED
    BY <1>1, <1>2, <1>3, <1>4, <1>5, <1>6, <1>7, <1>8, <1>9 DEF TCP

LEMMA NextTypes ==
  ASSUME TypeOK, StreamInv, [Next]_vars
  PROVE  TypeOK'
  <1>1. CASE Tick
    <2>1. clock' \in Epoch .. Epoch + MaxTime
      BY <1>1, SMT DEF Tick, TypeOK
    <2> QED
      BY <1>1, <2>1 DEF Tick, TypeOK, shared, own
  <1>2. CASE UNCHANGED vars
    BY <1>2 DEF vars, shared, own, limits, TypeOK
  <1> QED
    BY <1>1, <1>2, I2CTypes, TCPTypes DEF Next

-----------------------------------------------------------------------------
(* What each step of the I2C thread does to its local variables. *)

LEMMA ReceiveFacts ==
  ASSUME TypeOK, NEW d \in Desk, Receive(d)
  PROVE  /\ i2c.pc = "read" /\ i2c'.pc = "stamp"
         /\ i2c'.desk = d /\ i2c'.now = clock /\ i2c'.entry.packet = received'
         /\ received' = received + 1
         /\ UNCHANGED <<shared, own, clock, resets, tcp>>
  <1>1. i2c' = [i2c EXCEPT !.pc = "stamp", !.desk = d, !.now = clock,
                           !.entry = [i2c.entry EXCEPT !.packet = received']]
    BY Zenon DEF Receive
  <1>2. i2c.entry \in Entry
    BY DEF TypeOK, I2CThread
  <1> QED
    BY <1>1, <1>2 DEF Receive, TypeOK, I2CThread, Entry

(* A step that the thread takes while it holds a packet, and does not      *)
(* write to the log yet.                                                   *)
LEMMA HoldFacts ==
  ASSUME TypeOK, Stamp \/ Write \/ Load \/ Store \/ ComfortError \/ ComfortVariance
  PROVE  /\ i2c.pc # "read" /\ i2c'.pc # "read"
         /\ i2c'.desk = i2c.desk /\ i2c'.now = i2c.now
         /\ i2c'.entry.packet = i2c.entry.packet
         /\ Stamp => /\ i2c.pc = "stamp" /\ i2c'.pc = "write" /\ i2c'.field = 1
                     /\ i2c'.entry.time = Minus(i2c.now, start)
         /\ Write => /\ i2c.pc = "write" /\ i2c'.entry = i2c.entry
                     /\ \/ i2c'.pc = "error" /\ i2c'.field = i2c.field
                        \/ i2c'.pc = "write" /\ i2c'.field = i2c.field + 1
         /\ Load => /\ i2c.pc = "write" /\ i2c.field = Occupancy
                    /\ i2c'.pc = "store" /\ i2c'.entry = i2c.entry
         /\ Store => i2c.pc = "store" /\ i2c'.pc = "error" /\ i2c'.entry = i2c.entry
         /\ ComfortError => /\ i2c.pc = "error" /\ i2c'.pc = "variance" /\ ~Locked
                            /\ i2c'.entry.time = i2c.entry.time
                            /\ i2c'.entry.error = Len(entries[i2c.desk])
         /\ ComfortVariance => /\ i2c.pc = "variance" /\ i2c'.pc = "insert" /\ ~Locked
                               /\ i2c'.entry.time = i2c.entry.time
                               /\ i2c'.entry.error = i2c.entry.error
                               /\ i2c'.entry.variance = Len(entries[i2c.desk])
         /\ UNCHANGED <<start, entries, capacity, timestamps, flags, given, limits, tcp>>
         /\ ~Store => UNCHANGED restored
         /\ ~Write /\ ~Store => UNCHANGED report
  <1>1. i2c \in I2CThread /\ i2c.entry \in Entry
    BY DEF TypeOK, I2CThread
  <1>2. CASE Stamp
    <2> DEFINE e == [i2c.entry EXCEPT !.time = Minus(i2c.now, start)]
    <2>1. i2c' = [i2c EXCEPT !.pc = "write", !.field = 1, !.entry = e]
      BY <1>2, Zenon DEF Stamp
    <2>2. e.packet = i2c.entry.packet /\ e.time = Minus(i2c.now, start)
      BY <1>1 DEF Entry
    <2> HIDE DEF e
    <2>3. i2c.pc = "stamp" /\ UNCHANGED <<shared, own, limits, tcp>>
      BY <1>2 DEF Stamp
    <2>4. ~Write /\ ~Load /\ ~Store /\ ~ComfortError /\ ~ComfortVariance
      BY <2>3 DEF Write, Load, Store, ComfortError, ComfortVariance
    <2> QED
      BY <1>1, <2>1, <2>2, <2>3, <2>4 DEF I2CThread, shared, own
  <1>3. CASE Write
    <2>1. \/ i2c' = [i2c EXCEPT !.pc = "error"]
          \/ i2c' = [i2c EXCEPT !.field = i2c.field + 1]
      BY <1>3, Zenon DEF Write
    <2>2. i2c.pc = "write" /\ UNCHANGED <<start, entries, capacity, own, limits, tcp>>
      BY <1>3 DEF Write
    <2>3. ~Stamp /\ ~Load /\ ~Store /\ ~ComfortError /\ ~ComfortVariance
      <3>1. ~Load
        BY <1>3, <2>2 DEF Write, Load
      <3> QED
        BY <2>2, <3>1 DEF Stamp, Store, ComfortError, ComfortVariance
    <2> QED
      BY <1>1, <1>3, <2>1, <2>2, <2>3 DEF I2CThread, own
  <1>4. CASE Load
    <2>1. i2c' = [i2c EXCEPT !.pc = "store", !.word = report[Occupancy]]
      BY <1>4, Zenon DEF Load
    <2>2. /\ i2c.pc = "write" /\ i2c.field = Occupancy
          /\ UNCHANGED <<shared, own, limits, tcp>>
      BY <1>4 DEF Load
    <2>3. ~Stamp /\ ~Write /\ ~Store /\ ~ComfortError /\ ~ComfortVariance
      <3>1. ~Write
        BY <1>4, <2>2 DEF Write, Load
      <3> QED
        BY <2>2, <3>1 DEF Stamp, Store, ComfortError, ComfortVariance
    <2> QED
      BY <1>1, <2>1, <2>2, <2>3 DEF I2CThread, shared, own
  <1>5. CASE Store
    <2>1. i2c' = [i2c EXCEPT !.pc = "error", !.word = Zeros]
      BY <1>5, Zenon DEF Store
    <2>2. /\ i2c.pc = "store"
          /\ UNCHANGED <<start, entries, capacity, timestamps, flags, given, limits, tcp>>
      BY <1>5 DEF Store
    <2>3. ~Stamp /\ ~Write /\ ~Load /\ ~ComfortError /\ ~ComfortVariance
      BY <2>2 DEF Stamp, Write, Load, ComfortError, ComfortVariance
    <2> QED
      BY <1>1, <1>5, <2>1, <2>2, <2>3 DEF I2CThread
  <1>6. CASE ComfortError
    <2> DEFINE e == [i2c.entry EXCEPT !.error = Len(entries[i2c.desk])]
    <2>1. i2c' = [i2c EXCEPT !.pc = "variance", !.entry = e]
      BY <1>6, Zenon DEF ComfortError
    <2>2. /\ e.packet = i2c.entry.packet /\ e.time = i2c.entry.time
          /\ e.error = Len(entries[i2c.desk])
      BY <1>1 DEF Entry
    <2> HIDE DEF e
    <2>3. i2c.pc = "error" /\ ~Locked /\ UNCHANGED <<shared, own, limits, tcp>>
      BY <1>6 DEF ComfortError
    <2>4. ~Write /\ ~Load /\ ~Store /\ ~Stamp /\ ~ComfortVariance
      BY <2>3 DEF Write, Load, Store, Stamp, ComfortVariance
    <2> QED
      BY <1>1, <2>1, <2>2, <2>3, <2>4 DEF I2CThread, shared, own
  <1>7. CASE ComfortVariance
    <2> DEFINE e == [i2c.entry EXCEPT !.variance = Len(entries[i2c.desk])]
    <2>1. i2c' = [i2c EXCEPT !.pc = "insert", !.entry = e]
      BY <1>7, Zenon DEF ComfortVariance
    <2>2. /\ e.packet = i2c.entry.packet /\ e.time = i2c.entry.time
          /\ e.error = i2c.entry.error /\ e.variance = Len(entries[i2c.desk])
      BY <1>1 DEF Entry
    <2> HIDE DEF e
    <2>3. i2c.pc = "variance" /\ ~Locked /\ UNCHANGED <<shared, own, limits, tcp>>
      BY <1>7 DEF ComfortVariance
    <2>4. ~Write /\ ~Load /\ ~Store /\ ~Stamp /\ ~ComfortError
      BY <2>3 DEF Write, Load, Store, Stamp, ComfortError
    <2> QED
      BY <1>1, <2>1, <2>2, <2>3, <2>4 DEF I2CThread, shared, own
  <1> QED
    BY <1>2, <1>3, <1>4, <1>5, <1>6, <1>7

-----------------------------------------------------------------------------
(* The order of the packets. *)

LEMMA PacketsKept ==
  ASSUME PacketsInv, UNCHANGED <<entries, received, i2c>>
  PROVE  PacketsInv'
  BY DEF PacketsInv, Holding

LEMMA PacketsStep ==
  ASSUME TypeOK, PacketsInv, Next
  PROVE  PacketsInv'
  <1>1. ASSUME NEW d \in Desk, Receive(d) PROVE PacketsInv'
    <2>1. /\ UNCHANGED entries /\ received' = received + 1 /\ i2c'.entry.packet = received'
          /\ i2c'.pc # "read" /\ received \in Nat
      BY <1>1, ReceiveFacts DEF shared, TypeOK
    <2>2. \A o \in Desk : \A i \in DOMAIN entries[o] : entries[o][i].packet \in 1 .. received
      BY DEF PacketsInv
    <2>3. \A o \in Desk : \A i \in DOMAIN entries[o] :
              entries[o][i].packet \in 1 .. received' /\ entries[o][i].packet < received'
      BY <2>1, <2>2, SMT
    <2> QED
      BY <2>1, <2>3 DEF PacketsInv, Holding
  <1>2. CASE Stamp \/ Write \/ Load \/ Store \/ ComfortError \/ ComfortVariance
    <2>1. /\ i2c.pc # "read" /\ i2c'.pc # "read" /\ i2c'.entry.packet = i2c.entry.packet
          /\ UNCHANGED <<entries, received>>
      BY <1>2, HoldFacts DEF limits
    <2> QED
      BY <2>1 DEF PacketsInv, Holding
  <1>3. CASE Insert
    <2> DEFINE d == i2c.desk
               n == Len(entries[d]) + 1
    <2>1. /\ d \in Desk
          /\ entries'[d][n] = i2c.entry
          /\ \A i \in DOMAIN entries[d] : i \in DOMAIN entries'[d] /\ entries'[d][i] = entries[d][i]
          /\ \A i \in DOMAIN entries'[d] : i \in DOMAIN entries[d] \/ i = n
          /\ \A o \in Desk : o # d => entries'[o] = entries[o]
          /\ i2c'.pc = "read" /\ received' = received
      BY <1>3, InsertFacts DEF Insert, limits
    <2>2. Holding
      BY <1>3 DEF Insert, Holding
    <2>3. /\ i2c.entry.packet \in 1 .. received
          /\ \A i \in DOMAIN entries[d] : /\ entries[d][i].packet \in 1 .. received
                                          /\ entries[d][i].packet < i2c.entry.packet
      BY <2>1, <2>2 DEF PacketsInv, TypeOK
    <2>4. \A i \in DOMAIN entries[d] : i < n /\ i \in Nat
      BY <2>1 DEF TypeOK
    <2>5. n \in Nat
      BY <2>1 DEF TypeOK
    <2> HIDE DEF d, n
    <2>6. \A i, j \in DOMAIN entries'[d] :
              i < j => entries'[d][i].packet < entries'[d][j].packet
      <3> SUFFICES ASSUME NEW i \in DOMAIN entries'[d], NEW j \in DOMAIN entries'[d], i < j
                   PROVE  entries'[d][i].packet < entries'[d][j].packet
        OBVIOUS
      <3>1. i \in DOMAIN entries[d]
        BY <2>1, <2>4, <2>5
      <3>2. CASE j = n
        BY <2>1, <2>3, <3>1, <3>2
      <3>3. CASE j \in DOMAIN entries[d]
        BY <2>1, <3>1, <3>3 DEF PacketsInv
      <3> QED
        BY <2>1, <3>2, <3>3
    <2>7. \A i \in DOMAIN entries'[d] : entries'[d][i].packet \in 1 .. received
      BY <2>1, <2>3
    <2> QED
      BY <2>1, <2>6, <2>7 DEF PacketsInv, Holding
  <1>4. CASE ClearLog
    <2>1. \A d \in Desk : entries'[d] = <<>> /\ DOMAIN entries'[d] = {}
      BY <1>4 DEF ClearLog
    <2>2. UNCHANGED <<i2c, received>>
      BY <1>4 DEF ClearLog, limits
    <2> QED
      BY <2>1, <2>2 DEF PacketsInv, Holding
  <1>5. CASE Tick
    BY <1>5, PacketsKept DEF Tick, shared
  <1>6. CASE TCP /\ ~ClearLog
    <2>1. UNCHANGED <<entries, received, i2c>>
      BY <1>6 DEF TCP, Request, Timer, Stream, Restart, Clear, Resize, Forget, Fetch, Use,
                  shared, limits
    <2> QED
      BY <2>1, PacketsKept
  <1> QED
    BY <1>1, <1>2, <1>3, <1>4, <1>5, <1>6 DEF Next, I2C

-----------------------------------------------------------------------------
(* The order of time. *)

LEMMA Numbers ==
  ASSUME TypeOK
  PROVE  /\ clock \in Int /\ start \in Int /\ i2c.now \in Int /\ i2c.entry.time \in Int
         /\ 0 <= start /\ 0 <= i2c.now /\ i2c.desk \in Desk
         /\ \A d \in Desk : /\ entries[d] \in Seq(Entry) /\ Len(entries[d]) \in Nat
                            /\ DOMAIN entries[d] = 1 .. Len(entries[d])
         /\ \A d \in Desk : \A i \in DOMAIN entries[d] : i \in Int /\ entries[d][i].time \in Int
  <1>1. clock \in Int /\ start \in Int /\ 0 <= start
    BY SMT DEF TypeOK, Time
  <1>2. i2c.now \in Nat /\ i2c.entry.time \in Time /\ i2c.desk \in Desk
    BY DEF TypeOK, I2CThread, Entry
  <1>3. \A d \in Desk : /\ entries[d] \in Seq(Entry) /\ Len(entries[d]) \in Nat
                        /\ DOMAIN entries[d] = 1 .. Len(entries[d])
    BY DEF TypeOK
  <1>4. \A d \in Desk : \A i \in DOMAIN entries[d] : entries[d][i] \in Entry
    BY <1>3
  <1>5. \A e \in Entry : e.time \in Int
    BY SMT DEF Entry, Time
  <1> QED
    BY <1>1, <1>2, <1>3, <1>4, <1>5, SMT DEF Time

LEMMA TCPReset ==
  ASSUME TypeOK, Forget \/ Fetch \/ Use \/ Clear \/ Resize \/ (\E s \in Session :
             Timer(s) \/ \E d \in Desk : Stream(s, d))
  PROVE  ~Resetting /\ ~Resetting' /\ UNCHANGED <<start, entries, clock, received, resets, i2c>>
  <1>1. tcp \in TCPThread
    BY DEF TypeOK
  <1>2. ASSUME NEW s \in Session, Timer(s) \/ \E d \in Desk : Stream(s, d)
        PROVE  ~Resetting /\ ~Resetting' /\ UNCHANGED <<start, entries, clock, received, resets, i2c>>
    BY <1>1, <1>2 DEF Timer, Stream, Resetting, TCPThread, shared, limits
  <1>3. CASE Forget \/ Clear \/ Resize
    BY <1>1, <1>3 DEF Forget, Clear, Resize, Resetting, TCPThread, shared, limits
  <1>4. CASE Fetch \/ Use
    <2>1. tcp' = NextDesk(tcp) \/ tcp' = [tcp EXCEPT !.pc = "use", !.entry = Last(tcp.desk)]
      BY <1>4, Zenon DEF Fetch, Use, Last
    <2>2. tcp'.pc \in {"fetch", "idle", "use"}
      BY <1>1, <2>1, NextDeskType DEF TCPThread
    <2>3. ~Resetting
      BY <1>4 DEF Fetch, Use, Resetting
    <2>4. UNCHANGED <<start, entries, clock, received, resets, i2c>>
      BY <1>4 DEF Fetch, Use, shared, limits
    <2> QED
      BY <2>2, <2>3, <2>4 DEF Resetting
  <1> QED
    BY <1>2, <1>3, <1>4

(* What TimeInv says outside a reset. *)
TimesInOrder ==
    \A d \in Desk : \A i, j \in DOMAIN entries[d] :
        1 < i /\ i <= j => /\ entries[d][i].time <= entries[d][j].time
                           /\ entries[d][j].time <= clock - start

HeldInOrder ==
    Holding /\ entries[i2c.desk] # <<>> =>
        /\ i2c.pc = "stamp" => start <= i2c.now
        /\ Stamped => i2c.entry.time <= clock - start
        /\ \A i \in DOMAIN entries[i2c.desk] : 1 < i =>
               entries[i2c.desk][i].time
                 <= IF i2c.pc = "stamp" THEN i2c.now - start ELSE i2c.entry.time

LEMMA TimeInvSplit ==
  TimeInv <=> start <= clock /\ i2c.now <= clock /\ (~Resetting => TimesInOrder /\ HeldInOrder)
  BY DEF TimeInv, TimesInOrder, HeldInOrder

LEMMA TimeI2C ==
  ASSUME TypeOK, TypeOK', TimeInv, I2C
  PROVE  TimeInv'
  <1>0. start <= clock /\ i2c.now <= clock /\ (~Resetting => TimesInOrder /\ HeldInOrder)
    BY TimeInvSplit
  <1>1. ASSUME NEW d \in Desk, Receive(d) PROVE TimeInv'
    <2>1. /\ UNCHANGED <<start, entries, clock, tcp>>
          /\ i2c'.pc = "stamp" /\ i2c'.desk = d /\ i2c'.now = clock
      BY <1>1, ReceiveFacts DEF shared
    <2>2. ~Resetting => HeldInOrder'
      <3> SUFFICES ASSUME ~Resetting PROVE HeldInOrder'
        OBVIOUS
      <3>1. \A i \in DOMAIN entries[d] : 1 < i => entries[d][i].time <= clock - start
        BY <1>0, Numbers DEF TimesInOrder
      <3> QED
        BY <1>0, <2>1, <3>1 DEF HeldInOrder, Stamped
    <2> QED
      BY <1>0, <2>1, <2>2, Numbers DEF TimeInv, TimesInOrder, HeldInOrder, Resetting
  <1>2. CASE Stamp \/ Write \/ Load \/ Store \/ ComfortError \/ ComfortVariance
    <2>1. /\ i2c'.desk = i2c.desk /\ i2c'.now = i2c.now
          /\ Holding /\ Holding' /\ UNCHANGED <<start, entries, clock, tcp>>
      BY <1>2, HoldFacts DEF limits, Holding
    <2>2. ~Resetting => TimesInOrder'
      BY <1>0, <2>1 DEF TimesInOrder
    <2>3. ~Resetting => HeldInOrder'
      <3> SUFFICES ASSUME ~Resetting, entries[i2c.desk] # <<>> PROVE HeldInOrder'
        BY <2>1 DEF HeldInOrder
      <3>1. CASE Stamp
        <4>1. i2c.pc = "stamp" /\ i2c'.pc = "write" /\ i2c'.entry.time = Minus(i2c.now, start)
          BY <3>1, HoldFacts
        <4>2. /\ start <= i2c.now
              /\ \A i \in DOMAIN entries[i2c.desk] :
                     1 < i => entries[i2c.desk][i].time <= i2c.now - start
          BY <1>0, <2>1, <4>1 DEF HeldInOrder
        <4>3. i2c'.entry.time = i2c.now - start
          <5>1. i2c.now \in 0 .. Epoch + MaxTime /\ start \in 0 .. i2c.now
            BY <1>0, <4>2, Numbers, SMT DEF TypeOK
          <5> QED
            BY <4>1, <5>1, MinusSmall
        <4>4. i2c'.entry.time <= clock - start
          BY <1>0, <4>3, Numbers, SMT
        <4> QED
          BY <2>1, <4>1, <4>2, <4>3, <4>4 DEF HeldInOrder
      <3>2. CASE Write \/ Load \/ Store \/ ComfortError \/ ComfortVariance
        <4>1. /\ i2c.pc \in {"write", "store", "error", "variance"}
              /\ i2c'.pc \in {"write", "store", "error", "variance", "insert"}
              /\ i2c'.entry.time = i2c.entry.time
          BY <3>2, HoldFacts
        <4> QED
          BY <1>0, <2>1, <4>1 DEF HeldInOrder, Stamped
      <3> QED
        BY <1>2, <3>1, <3>2
    <2> QED
      BY <1>0, <2>1, <2>2, <2>3 DEF TimeInv, TimesInOrder, HeldInOrder, Resetting
  <1>3. CASE Insert
    <2> DEFINE d == i2c.desk
               n == Len(entries[d]) + 1
    <2>1. /\ d \in Desk /\ entries'[d][n] = i2c.entry
          /\ \A i \in DOMAIN entries[d] : i \in DOMAIN entries'[d] /\ entries'[d][i] = entries[d][i]
          /\ \A i \in DOMAIN entries'[d] : i \in DOMAIN entries[d] \/ i = n
          /\ \A o \in Desk : o # d => entries'[o] = entries[o]
          /\ i2c'.pc = "read" /\ i2c'.now = 0
      BY <1>3, InsertFacts
    <2>2. UNCHANGED <<start, clock>> /\ tcp'.pc = tcp.pc
      BY <1>3 DEF Insert, limits, TypeOK, TCPThread
    <2>3. Holding /\ Stamped /\ i2c.pc # "stamp"
      BY <1>3 DEF Insert, Holding, Stamped
    <2>4. 0 <= clock
      BY SMT DEF TypeOK
    <2>5. ~Resetting => TimesInOrder'
      <3> SUFFICES ASSUME ~Resetting, NEW o \in Desk,
                          NEW i \in DOMAIN entries'[o], NEW j \in DOMAIN entries'[o],
                          1 < i, i <= j
                   PROVE  /\ entries'[o][i].time <= entries'[o][j].time
                          /\ entries'[o][j].time <= clock - start
        BY <2>2 DEF TimesInOrder
      <3>1. CASE o # d
        BY <1>0, <2>1, <3>1 DEF TimesInOrder
      <3>2. CASE o = d /\ j # n
        <4>1. j \in DOMAIN entries[d] /\ i \in DOMAIN entries[d]
          BY <2>1, <3>2, Numbers, SMT
        <4> QED
          BY <1>0, <2>1, <3>2, <4>1 DEF TimesInOrder
      <3>3. CASE o = d /\ j = n
        <4>1. entries[d] # <<>>
          BY <2>1, <3>3, Numbers
        <4>2. /\ i2c.entry.time <= clock - start
              /\ \A m \in DOMAIN entries[d] : 1 < m => entries[d][m].time <= i2c.entry.time
          BY <1>0, <2>3, <4>1 DEF HeldInOrder
        <4>3. entries'[o][i].time <= i2c.entry.time
          <5>1. CASE i = n
            BY <2>1, <3>3, <5>1, Numbers
          <5>2. CASE i \in DOMAIN entries[d]
            BY <2>1, <3>3, <4>2, <5>2
          <5> QED
            BY <2>1, <3>3, <5>1, <5>2
        <4> QED
          BY <2>1, <3>3, <4>2, <4>3
      <3> QED
        BY <3>1, <3>2, <3>3
    <2>6. HeldInOrder'
      BY <2>1 DEF HeldInOrder, Holding
    <2>7. ~Resetting' => TimesInOrder' /\ HeldInOrder'
      BY <2>2, <2>5, <2>6 DEF Resetting
    <2>8. start' <= clock' /\ i2c'.now <= clock'
      BY <1>0, <2>1, <2>2, <2>4
    <2> QED
      BY <2>7, <2>8 DEF TimeInv, TimesInOrder, HeldInOrder
  <1> QED
    BY <1>1, <1>2, <1>3 DEF I2C

LEMMA TimeStep ==
  ASSUME TypeOK, TypeOK', TimeInv, Next
  PROVE  TimeInv'
  <1>0. start <= clock /\ i2c.now <= clock /\ (~Resetting => TimesInOrder /\ HeldInOrder)
    BY TimeInvSplit
  <1>1. ASSUME NEW s \in Session, Request(s) PROVE TimeInv'
    <2>1. start' = 0 /\ tcp'.pc = "restart" /\ UNCHANGED <<clock, i2c>>
      BY <1>1 DEF Request, TypeOK, TCPThread
    <2>2. 0 <= clock
      BY SMT DEF TypeOK
    <2> QED
      BY <1>0, <2>1, <2>2 DEF TimeInv, Resetting
  <1>2. CASE Restart
    <2>1. start' = Minus(clock, start) /\ tcp'.pc = "log" /\ UNCHANGED <<clock, i2c>>
      BY <1>2 DEF Restart, Millis, TypeOK, TCPThread, limits
    <2>2. start' <= clock
      <3>1. clock \in 0 .. Epoch + MaxTime /\ start \in 0 .. clock
        BY <1>0, Numbers, SMT DEF TypeOK
      <3> QED
        BY <2>1, <3>1, MinusSmall, SMT
    <2> QED
      BY <1>0, <2>1, <2>2 DEF TimeInv, Resetting
  <1>3. CASE ClearLog
    <2>1. /\ \A d \in Desk : entries'[d] = <<>> /\ DOMAIN entries'[d] = {}
          /\ UNCHANGED <<start, clock, i2c>>
      BY <1>3 DEF ClearLog, limits
    <2>2. i2c.desk \in Desk
      BY Numbers
    <2> QED
      BY <1>0, <2>1, <2>2 DEF TimeInv
  <1>4. CASE Forget \/ Fetch \/ Use \/ Clear \/ Resize \/ (\E s \in Session :
             Timer(s) \/ \E d \in Desk : Stream(s, d))
    <2>1. ~Resetting /\ ~Resetting' /\ UNCHANGED <<start, entries, clock, received, resets, i2c>>
      BY <1>4, TCPReset
    <2> QED
      BY <1>0, <2>1 DEF TimeInv, TimesInOrder, HeldInOrder, Holding, Stamped
  <1>5. CASE Tick
    <2>1. clock' = clock + 1 /\ UNCHANGED <<start, entries, i2c, tcp>>
      BY <1>5 DEF Tick, shared
    <2>2. clock - start <= clock' - start /\ start <= clock' /\ i2c.now <= clock'
      BY <1>0, <2>1, Numbers, SMT
    <2>3. ~Resetting => TimesInOrder'
      <3> SUFFICES ASSUME ~Resetting, NEW d \in Desk,
                          NEW i \in DOMAIN entries[d], NEW j \in DOMAIN entries[d],
                          1 < i, i <= j
                   PROVE  /\ entries[d][i].time <= entries[d][j].time
                          /\ entries[d][j].time <= clock' - start
        BY <2>1 DEF TimesInOrder
      <3>1. entries[d][i].time <= entries[d][j].time /\ entries[d][j].time <= clock - start
        BY <1>0 DEF TimesInOrder
      <3>2. entries[d][j].time \in Int /\ clock - start \in Int /\ clock' - start \in Int
        BY <2>1, Numbers
      <3> QED
        BY <2>2, <3>1, <3>2, SMT
    <2>4. ~Resetting => HeldInOrder'
      <3> SUFFICES ASSUME ~Resetting, Holding, entries[i2c.desk] # <<>>
                   PROVE  Stamped => i2c.entry.time <= clock' - start
        BY <1>0, <2>1 DEF HeldInOrder, Holding, Stamped
      <3>1. Stamped => i2c.entry.time <= clock - start
        BY <1>0 DEF HeldInOrder
      <3> QED
        BY <2>1, <3>1, Numbers, SMT
    <2> QED
      BY <2>1, <2>2, <2>3, <2>4 DEF TimeInv, TimesInOrder, HeldInOrder, Resetting
  <1> QED
    BY <1>1, <1>2, <1>3, <1>4, <1>5, TimeI2C DEF Next, TCP

-----------------------------------------------------------------------------
(* The comfort error and variance. *)

(* Steps that leave the logs and the I2C thread alone. *)
LEMMA LogKept ==
  ASSUME Tick \/ (TCP /\ ~ClearLog)
  PROVE  UNCHANGED <<entries, received, i2c>>
  BY DEF TCP, Tick, Request, Timer, Stream, Restart, Clear, Resize, Forget, Fetch, Use,
         shared, limits

LEMMA LogCleared ==
  ASSUME ClearLog
  PROVE  /\ \A d \in Desk : entries'[d] = <<>> /\ DOMAIN entries'[d] = {}
         /\ UNCHANGED <<i2c, report, received, given, timestamps, clock>>
  BY DEF ClearLog, limits, own

LEMMA ComfortStep ==
  ASSUME TypeOK, ComfortInv, Next
  PROVE  ComfortInv'
  <1>1. ASSUME NEW d \in Desk, Receive(d) PROVE ComfortInv'
    <2>1. UNCHANGED entries /\ i2c'.pc = "stamp"
      BY <1>1, ReceiveFacts DEF shared
    <2> QED
      BY <2>1 DEF ComfortInv, ComfortOverLog
  <1>2. CASE Stamp \/ Write \/ Load \/ Store
    <2>1. UNCHANGED entries /\ i2c'.pc \in {"write", "store", "error"}
      BY <1>2, HoldFacts
    <2> QED
      BY <2>1 DEF ComfortInv, ComfortOverLog
  <1>3. CASE ComfortError
    <2>1. /\ UNCHANGED entries /\ i2c'.pc = "variance" /\ i2c'.desk = i2c.desk
          /\ i2c'.entry.error = Len(entries[i2c.desk])
      BY <1>3, HoldFacts
    <2> QED
      BY <2>1 DEF ComfortInv, ComfortOverLog
  <1>4. CASE ComfortVariance
    <2>1. /\ UNCHANGED entries /\ i2c.pc = "variance"
          /\ i2c'.pc = "insert" /\ i2c'.desk = i2c.desk
          /\ i2c'.entry.error = i2c.entry.error
          /\ i2c'.entry.variance = Len(entries[i2c.desk])
      BY <1>4, HoldFacts
    <2> QED
      BY <2>1 DEF ComfortInv, ComfortOverLog
  <1>5. CASE Insert
    <2> DEFINE d == i2c.desk
               n == Len(entries[d]) + 1
    <2>1. /\ d \in Desk /\ entries'[d][n] = i2c.entry
          /\ \A i \in DOMAIN entries[d] : i \in DOMAIN entries'[d] /\ entries'[d][i] = entries[d][i]
          /\ \A i \in DOMAIN entries'[d] : i \in DOMAIN entries[d] \/ i = n
          /\ \A o \in Desk : o # d => entries'[o] = entries[o]
          /\ i2c'.pc = "read"
      BY <1>5, InsertFacts
    <2>2. n > 1 => entries[d] # <<>> /\ i2c.entry.error = n - 1 /\ i2c.entry.variance = n - 1
      <3>1. i2c.pc = "insert"
        BY <1>5 DEF Insert
      <3>2. n > 1 => entries[d] # <<>>
        BY <2>1, Numbers
      <3> QED
        BY <2>1, <3>1, <3>2, Numbers DEF ComfortInv
    <2> HIDE DEF n
    <2>3. ComfortOverLog'
      BY <2>1, <2>2 DEF ComfortInv, ComfortOverLog
    <2> QED
      BY <2>1, <2>3 DEF ComfortInv
  <1>6. CASE ClearLog
    <2>1. i2c.desk \in Desk
      BY Numbers
    <2> QED
      BY <1>6, <2>1, LogCleared DEF ComfortInv, ComfortOverLog
  <1>7. CASE Tick \/ (TCP /\ ~ClearLog)
    BY <1>7, LogKept DEF ComfortInv, ComfortOverLog
  <1> QED
    BY <1>1, <1>2, <1>3, <1>4, <1>5, <1>6, <1>7 DEF Next, I2C

-----------------------------------------------------------------------------
(* The last report of every desk. *)

(* What a vector may hold for a desk. *)
Accounted(f, d) ==
    \/ report[f][d] = 0
    \/ d = i2c.desk /\ Stamped /\ report[f][d] = i2c.entry.packet
    \/ /\ entries[d] # <<>> /\ report[f][d] = Last(d).packet
       /\ ~ (d = i2c.desk /\ Past(f))
    \/ f = Occupancy /\ d \in restored

LEMMA ReportInvSplit ==
  ReportInv <=> \A f \in Field : /\ report[f] = Missing <=> Cleared(f)
                                 /\ ~Cleared(f) /\ ~Stale(f) => \A d \in Desk : Accounted(f, d)
  BY DEF ReportInv, Accounted

LEMMA ReportI2C ==
  ASSUME TypeOK, ReportInv, I2C
  PROVE  ReportInv'
  <1>0. \A f \in Field : /\ report[f] = Missing <=> Cleared(f)
                         /\ ~Cleared(f) /\ ~Stale(f) => \A d \in Desk : Accounted(f, d)
    BY ReportInvSplit
  <1>1. ASSUME NEW o \in Desk, Receive(o) PROVE ReportInv'
    <2>1. /\ i2c.pc = "read" /\ i2c'.pc = "stamp" /\ UNCHANGED <<report, entries, restored, tcp>>
      BY <1>1, ReceiveFacts DEF shared, own
    <2> QED
      BY <1>0, <2>1 DEF ReportInv, Accounted, Cleared, Stale, Past, Stamped, Last
  <1>2. CASE Stamp \/ ComfortError \/ ComfortVariance
    <2>1. /\ i2c'.desk = i2c.desk /\ i2c'.entry.packet = i2c.entry.packet
          /\ UNCHANGED <<report, entries, restored, tcp>>
          /\ \/ i2c.pc = "stamp" /\ i2c'.pc = "write" /\ i2c'.field = 1
             \/ /\ i2c.pc \in {"error", "variance"}
                /\ i2c'.pc \in {"error", "variance", "insert"}
      BY <1>2, HoldFacts DEF Stamp, Write, Store, ComfortError, ComfortVariance
    <2>2. \A f \in Field : ~ f < 1
      BY SMT DEF Field
    <2>3. \A f \in Field : (Past(f)' <=> Past(f)) /\ (Stamped => Stamped')
      BY <2>1, <2>2 DEF Past, Stamped
    <2> QED
      BY <1>0, <2>1, <2>3 DEF ReportInv, Accounted, Cleared, Stale, Last
  <1>3. CASE Write
    <2> DEFINE w == i2c.field
               o == i2c.desk
    <2>1. /\ i2c.pc = "write" /\ o \in Desk /\ w \in Field
          /\ i2c'.desk = o /\ i2c'.entry = i2c.entry
          /\ i2c'.pc \in {"error", "write"} /\ UNCHANGED <<entries, restored, tcp>>
          /\ i2c.entry.packet \in Nat /\ tcp.field \in Field
      BY <1>3, HoldFacts DEF TypeOK, I2CThread, TCPThread, Entry, Write, own
    <2>2. CASE report[w] = Missing
      <3>1. UNCHANGED report /\ i2c'.pc = "error"
        <4>1. UNCHANGED report /\ i2c' = [i2c EXCEPT !.pc = "error"]
          BY <1>3, <2>2 DEF Write
        <4> QED
          BY <4>1 DEF TypeOK, I2CThread
      <3>2. Cleared(w)
        BY <1>0, <2>1, <2>2
      <3>3. \A f \in Field : f >= w => Cleared(f) \/ Stale(f)
        BY <2>1, <3>2, SMT DEF Cleared, Stale, Field
      <3>4. \A f \in Field : ~(f >= w) => f < w
        BY <2>1, SMT DEF Field
      <3>5. \A f \in Field : ~Cleared(f) /\ ~Stale(f) => Past(f)
        BY <2>1, <3>3, <3>4 DEF Past
      <3> QED
        BY <1>0, <2>1, <3>1, <3>5 DEF ReportInv, Accounted, Cleared, Stale, Past, Stamped, Last
    <2>3. CASE report[w] # Missing
      <3>1. /\ report' = [report EXCEPT ![w] = [report[w] EXCEPT ![o] = i2c.entry.packet]]
            /\ report[w] \in [Desk -> Nat]
        <4>1. report' = [report EXCEPT ![w] = [report[w] EXCEPT ![o] = i2c.entry.packet]]
          BY <1>3, <2>3, Zenon DEF Write
        <4> QED
          BY <2>1, <2>3, <4>1 DEF TypeOK
      <3>2. w < 3 /\ i2c'.pc = "write" /\ i2c'.field = w + 1
        <4>1. i2c' = [i2c EXCEPT !.field = w + 1] /\ w # 3
          BY <1>3, <2>3, Zenon DEF Write, Occupancy
        <4>2. w < 3
          BY <2>1, <4>1, SMT DEF Field
        <4> QED
          BY <2>1, <4>1, <4>2 DEF TypeOK, I2CThread
      <3>3. \A f \in Field : Past(f)' <=> Past(f) \/ f = w
        BY <2>1, <3>2, SMT DEF Past, Field
      <3>4. report \in [Field -> [Desk -> Nat] \cup {Missing}]
        BY DEF TypeOK
      <3> HIDE DEF w, o
      <3>5. /\ report'[w] # Missing /\ report'[w][o] = i2c.entry.packet
            /\ \A f \in Field : f # w => report'[f] = report[f]
            /\ \A d \in Desk : d # o => report'[w][d] = report[w][d]
        <4>1. report'[w] = [report[w] EXCEPT ![o] = i2c.entry.packet]
          BY <2>1, <3>1, <3>4
        <4>2. report'[w] \in [Desk -> Nat]
          BY <2>1, <3>1, <4>1
        <4> QED
          BY <2>1, <3>1, <3>4, <4>1, <4>2, MissingIsNone
      <3>6. \A f \in Field : (Cleared(f)' <=> Cleared(f)) /\ (Stale(f)' <=> Stale(f))
        BY <2>1 DEF Cleared, Stale
      <3>7. ASSUME NEW f \in Field PROVE report'[f] = Missing <=> Cleared(f)
        BY <1>0, <2>3, <3>5
      <3>8. ASSUME NEW f \in Field, NEW d \in Desk, ~Cleared(f), ~Stale(f) PROVE Accounted(f, d)'
        <4>1. Accounted(f, d) /\ Stamped /\ Stamped'
          BY <1>0, <2>1, <3>8 DEF Stamped
        <4>2. i2c'.desk = o /\ i2c.desk = o
          BY <2>1 DEF o
        <4>3. CASE f = w /\ d = o
          BY <2>1, <3>5, <4>1, <4>2, <4>3 DEF Accounted
        <4>4. CASE f = w /\ d # o
          BY <2>1, <3>5, <4>1, <4>2, <4>4 DEF Accounted, Last
        <4>5. CASE f # w
          BY <2>1, <3>3, <3>5, <4>1, <4>2, <4>5 DEF Accounted, Last
        <4> QED
          BY <4>3, <4>4, <4>5
      <3> QED
        BY <3>6, <3>7, <3>8 DEF ReportInv, Accounted
    <2> QED
      BY <2>2, <2>3
  <1>4. CASE Insert
    <2> DEFINE o == i2c.desk
    <2>1. /\ o \in Desk /\ entries'[o][Len(entries[o]) + 1] = i2c.entry
          /\ Len(entries'[o]) = Len(entries[o]) + 1 /\ entries'[o] # <<>>
          /\ \A d \in Desk : d # o => entries'[d] = entries[d]
          /\ i2c'.pc = "read" /\ i2c'.desk = o
      BY <1>4, InsertFacts
    <2>2. /\ i2c.pc = "insert" /\ ~Locked /\ UNCHANGED <<report, restored>>
          /\ tcp'.pc = tcp.pc /\ tcp'.field = tcp.field
      BY <1>4 DEF Insert, TypeOK, TCPThread, own
    <2>3. \A f \in Field : ~Cleared(f) /\ ~Stale(f) /\ ~Cleared(f)' /\ ~Stale(f)'
      BY <2>2 DEF Cleared, Stale, Locked
    <2>4. Last(o)' = i2c.entry
      BY <2>1 DEF Last
    <2>5. ASSUME NEW f \in Field, NEW d \in Desk PROVE Accounted(f, d)'
      <3>1. Accounted(f, d) /\ Past(f) /\ ~Past(f)'
        BY <1>0, <2>1, <2>2, <2>3 DEF Past
      <3>2. CASE d = o
        BY <2>1, <2>2, <2>4, <3>1, <3>2 DEF Accounted
      <3>3. CASE d # o
        BY <2>1, <2>2, <3>1, <3>3 DEF Accounted, Last
      <3> QED
        BY <3>2, <3>3
    <2> QED
      BY <1>0, <2>2, <2>3, <2>5 DEF ReportInv, Accounted
  <1>5. CASE Load
    <2>1. /\ i2c.pc = "write" /\ i2c.field = 3 /\ i2c'.pc = "store"
          /\ i2c'.desk = i2c.desk /\ i2c'.entry = i2c.entry
          /\ UNCHANGED <<report, entries, restored, tcp>>
      BY <1>5, HoldFacts DEF Load, Occupancy, shared, own
    <2>2. \A f \in Field : (Past(f)' <=> Past(f)) /\ (Stamped => Stamped')
      BY <2>1 DEF Past, Stamped, Occupancy
    <2> QED
      BY <1>0, <2>1, <2>2 DEF ReportInv, Accounted, Cleared, Stale, Last
  <1>6. CASE Store
    <2> DEFINE o == i2c.desk
    <2>1. /\ i2c.pc = "store" /\ o \in Desk
          /\ i2c'.desk = o /\ i2c'.entry = i2c.entry /\ i2c'.pc = "error"
          /\ UNCHANGED <<entries, tcp>>
          /\ i2c.entry.packet \in Nat /\ i2c.word \in [Desk -> Nat]
      BY <1>6, HoldFacts DEF TypeOK, I2CThread, Entry
    <2>2. \A f \in Field : /\ Cleared(f)' <=> Cleared(f)
                           /\ Stale(f)' <=> Stale(f)
                           /\ Past(f)' /\ (f # Occupancy => Past(f))
      BY <2>1, SMT DEF Cleared, Stale, Past, Field, Occupancy
    <2>3. Stamped /\ Stamped' /\ Occupancy \in Field
      BY <2>1 DEF Stamped, Occupancy, Field
    <2>4. CASE report[Occupancy] = Missing
      <3>1. UNCHANGED <<report, restored>> /\ Cleared(Occupancy)
        BY <1>0, <1>6, <2>3, <2>4 DEF Store
      <3> QED
        BY <1>0, <2>1, <2>2, <2>3, <3>1 DEF ReportInv, Accounted, Last
    <2>5. CASE report[Occupancy] # Missing
      <3> DEFINE w == [i2c.word EXCEPT ![o] = i2c.entry.packet]
      <3>1. /\ report' = [report EXCEPT ![Occupancy] = w]
            /\ restored' = (restored \cup
                 {d \in Desk : i2c.word[d] # report[Occupancy][d]}) \ {o}
        BY <1>6, <2>5 DEF Store
      <3>2. w \in [Desk -> Nat] /\ w[o] = i2c.entry.packet
            /\ \A d \in Desk : d # o => w[d] = i2c.word[d]
        BY <2>1
      <3> HIDE DEF w, o
      <3>3. /\ report'[Occupancy] = w /\ w # Missing
            /\ \A f \in Field : f # Occupancy => report'[f] = report[f]
        BY <2>3, <3>1, <3>2, MissingIsNone DEF TypeOK
      <3>4. \A d \in Desk : /\ d # o /\ d \notin restored' => w[d] = report[Occupancy][d]
                            /\ d # o /\ d \in restored => d \in restored'
        BY <3>1, <3>2
      <3>5. ASSUME NEW f \in Field PROVE report'[f] = Missing <=> Cleared(f)
        BY <1>0, <2>5, <3>3
      <3>6. ASSUME NEW f \in Field, NEW d \in Desk, ~Cleared(f), ~Stale(f) PROVE Accounted(f, d)'
        <4>1. Accounted(f, d) /\ i2c.desk = o /\ i2c'.desk = o
          BY <1>0, <2>1, <3>6 DEF o
        <4>2. CASE f # Occupancy
          BY <2>1, <2>2, <2>3, <3>3, <4>1, <4>2 DEF Accounted, Last
        <4>3. CASE f = Occupancy /\ d = o
          BY <2>1, <2>3, <3>2, <3>3, <4>1, <4>3 DEF Accounted
        <4>4. CASE f = Occupancy /\ d # o
          BY <2>1, <3>3, <3>4, <4>1, <4>4 DEF Accounted, Last
        <4> QED
          BY <4>2, <4>3, <4>4
      <3> QED
        BY <2>2, <3>5, <3>6 DEF ReportInv, Accounted
    <2> QED
      BY <2>4, <2>5
  <1> QED
    BY <1>1, <1>2, <1>3, <1>4, <1>5, <1>6 DEF I2C

LEMMA ReportStep ==
  ASSUME TypeOK, ReportInv, Next
  PROVE  ReportInv'
  <1>0. \A f \in Field : /\ report[f] = Missing <=> Cleared(f)
                         /\ ~Cleared(f) /\ ~Stale(f) => \A d \in Desk : Accounted(f, d)
    BY ReportInvSplit
  <1>1. tcp \in TCPThread /\ report \in [Field -> [Desk -> Nat] \cup {Missing}]
    BY DEF TypeOK
  <1>2. CASE ClearLog
    <2>1. /\ UNCHANGED <<i2c, report>> /\ tcp.pc = "log" /\ tcp'.pc = "clear" /\ tcp'.field = 1
      BY <1>1, <1>2 DEF ClearLog, TCPThread
    <2>2. \A f \in Field : ~Cleared(f) /\ ~Cleared(f)' /\ Stale(f)'
      BY <2>1, SMT DEF Cleared, Stale, Field
    <2> QED
      BY <1>0, <2>1, <2>2 DEF ReportInv
  <1>3. CASE Clear
    <2> DEFINE c == tcp.field
    <2>1. /\ c \in Field /\ tcp.pc = "clear" /\ UNCHANGED <<i2c, entries>>
          /\ report'[c] = Missing /\ \A f \in Field : f # c => report'[f] = report[f]
      BY <1>1, <1>3 DEF Clear, TCPThread
    <2>2. \/ c < 3 /\ tcp'.pc = "clear" /\ tcp'.field = c + 1
          \/ c = 3 /\ tcp'.pc = "resize" /\ tcp'.field = 1
      <3>1. tcp' = IF c < 3 THEN [tcp EXCEPT !.field = c + 1]
                   ELSE [tcp EXCEPT !.pc = "resize", !.field = 1]
        BY <1>3, Zenon DEF Clear
      <3>2. c < 3 \/ (c = 3 /\ ~ c < 3)
        BY <2>1, SMT DEF Field
      <3>3. CASE c < 3
        BY <1>1, <2>1, <3>1, <3>3 DEF TCPThread
      <3>4. CASE c = 3 /\ ~ c < 3
        <4>1. tcp' = [tcp EXCEPT !.pc = "resize", !.field = 1]
          BY <3>1, <3>4
        <4> QED
          BY <1>1, <3>4, <4>1 DEF TCPThread
      <3> QED
        BY <3>2, <3>3, <3>4
    <2>3. \A f \in Field : /\ Cleared(f)' <=> Cleared(f) \/ f = c
                           /\ ~Cleared(f)' => Stale(f)'
                           /\ Cleared(f) => f # c
      BY <2>1, <2>2, SMT DEF Cleared, Stale, Field
    <2> QED
      BY <1>0, <2>1, <2>3 DEF ReportInv
  <1>4. CASE Resize
    <2> DEFINE c == tcp.field
    <2>1. /\ c \in Field /\ tcp.pc = "resize" /\ UNCHANGED <<i2c, entries, restored>>
          /\ report'[c] = (IF report[c] = Missing THEN Zeros ELSE report[c])
          /\ \A f \in Field : f # c => report'[f] = report[f]
      BY <1>1, <1>4 DEF Resize, TCPThread, own
    <2>2. \/ c < 3 /\ tcp'.pc = "resize" /\ tcp'.field = c + 1
          \/ c = 3 /\ tcp'.pc = "forget" /\ tcp'.field = 1
      <3>1. tcp' = IF c < 3 THEN [tcp EXCEPT !.field = c + 1]
                   ELSE [tcp EXCEPT !.pc = "forget", !.field = 1]
        BY <1>4, Zenon DEF Resize
      <3>2. c < 3 \/ (c = 3 /\ ~ c < 3)
        BY <2>1, SMT DEF Field
      <3>3. CASE c < 3
        BY <1>1, <2>1, <3>1, <3>3 DEF TCPThread
      <3>4. CASE c = 3 /\ ~ c < 3
        <4>1. tcp' = [tcp EXCEPT !.pc = "forget", !.field = 1]
          BY <3>1, <3>4
        <4> QED
          BY <1>1, <3>4, <4>1 DEF TCPThread
      <3> QED
        BY <3>2, <3>3, <3>4
    <2>3. \A f \in Field : /\ Cleared(f) <=> Cleared(f)' \/ f = c
                           /\ Cleared(f)' => f # c
                           /\ ~Stale(f) /\ ~Stale(f)'
      BY <2>1, <2>2, SMT DEF Cleared, Stale, Field
    <2>4. report[c] = Missing /\ report'[c] = Zeros
      BY <1>0, <2>1, <2>3
    <2>5. \A d \in Desk : report'[c][d] = 0
      BY <2>4 DEF Zeros
    <2>6. \A f \in Field : report'[f] = Missing <=> Cleared(f)'
      BY <1>0, <2>1, <2>3, <2>4, MissingIsNone
    <2>7. ASSUME NEW f \in Field, NEW d \in Desk, ~Cleared(f)' PROVE Accounted(f, d)'
      <3>1. CASE f = c
        BY <2>5, <3>1 DEF Accounted
      <3>2. CASE f # c
        <4>1. Accounted(f, d) /\ report'[f] = report[f]
          BY <1>0, <2>1, <2>3, <2>7, <3>2
        <4> QED
          BY <2>1, <4>1 DEF Accounted, Stamped, Past, Last
      <3> QED
        BY <3>1, <3>2
    <2> QED
      BY <2>6, <2>7 DEF ReportInv, Accounted
  <1>5. ASSUME UNCHANGED <<report, entries, i2c, restored>>,
               tcp.pc \notin {"clear", "resize"}, tcp'.pc \notin {"clear", "resize"}
        PROVE  ReportInv'
    BY <1>0, <1>5 DEF ReportInv, Accounted, Cleared, Stale, Past, Stamped, Last
  <1>6. CASE Restart \/ Forget \/ (\E s \in Session : Request(s) \/ Timer(s))
    <2>1. /\ UNCHANGED <<report, entries, i2c, restored>>
          /\ tcp.pc \notin {"clear", "resize"} /\ tcp'.pc \notin {"clear", "resize"}
      BY <1>1, <1>6 DEF Restart, Forget, Request, Timer, TCPThread, shared, own
    <2> QED
      BY <1>5, <2>1
  <1>7. CASE Fetch \/ Use
    <2>1. tcp' = NextDesk(tcp) \/ tcp' = [tcp EXCEPT !.pc = "use", !.entry = Last(tcp.desk)]
      BY <1>7, Zenon DEF Fetch, Use, Last
    <2>2. tcp'.pc \in {"fetch", "idle", "use"}
      BY <1>1, <2>1, NextDeskType DEF TCPThread
    <2>3. UNCHANGED <<report, entries, i2c, restored>> /\ tcp.pc \notin {"clear", "resize"}
      BY <1>7 DEF Fetch, Use, shared, own
    <2> QED
      BY <1>5, <2>2, <2>3
  <1>8. CASE Tick \/ \E s \in Session, d \in Desk : Stream(s, d)
    <2>1. UNCHANGED <<report, entries, i2c, tcp, restored>>
      BY <1>8 DEF Tick, Stream, shared, own
    <2> QED
      BY <1>0, <2>1 DEF ReportInv, Accounted, Cleared, Stale, Past, Stamped, Last
  <1> QED
    BY <1>2, <1>3, <1>4, <1>6, <1>7, <1>8, ReportI2C DEF Next, TCP

-----------------------------------------------------------------------------
(* The streams. *)

(* The parts of StreamInv, named. *)
GivenReceived ==
    \A s \in Session, d \in Desk : \A g \in DOMAIN given[s][d] :
        /\ given[s][d][g] \in 1 .. received
        /\ Holding => given[s][d][g] < i2c.entry.packet

GivenCleared ==
    tcp.pc \in {"clear", "resize", "forget"} =>
        \A s \in Session, d \in Desk : \A g \in DOMAIN given[s][d], i \in DOMAIN entries[d] :
            given[s][d][g] < entries[d][i].packet

GivenUpToLast == \A s \in Session, d \in Desk : entries[d] # <<>> => UpTo(s, d, Last(d))

AboutToSend ==
    tcp.pc = "use" =>
        /\ entries[tcp.desk] # <<>>
        /\ tcp.entry.packet \in 1 .. received
        /\ UpTo(tcp.session, tcp.desk, tcp.entry)
        /\ tcp.entry.packet <= Last(tcp.desk).packet
        /\ tcp.entry.packet = Last(tcp.desk).packet => tcp.entry.time = Last(tcp.desk).time

LEMMA StreamInvSplit ==
  StreamInv <=> StreamsForward /\ GivenReceived /\ GivenCleared /\ GivenUpToLast /\ AboutToSend
  BY DEF StreamInv, GivenReceived, GivenCleared, GivenUpToLast, AboutToSend

LEMMA StreamInvSplitNext ==
  StreamsForward' /\ GivenReceived' /\ GivenCleared' /\ GivenUpToLast' /\ AboutToSend' => StreamInv'
  BY DEF StreamInv, GivenReceived, GivenCleared, GivenUpToLast, AboutToSend

LEMMA GivenTypes ==
  ASSUME TypeOK
  PROVE  /\ received \in Nat
         /\ \A s \in Session, d \in Desk :
                /\ timestamps[s][d] \in Int
                /\ given[s][d] \in Seq(1 .. MaxPackets)
                /\ DOMAIN given[s][d] = 1 .. Len(given[s][d]) /\ Len(given[s][d]) \in Nat
                /\ \A g \in DOMAIN given[s][d] : given[s][d][g] \in Int
  <1>1. \A s \in Session, d \in Desk : given[s][d] \in Seq(1 .. MaxPackets) /\ timestamps[s][d] \in Time
    BY DEF TypeOK
  <1>2. \A t \in Time : t \in Int
    BY SMT DEF Time
  <1> QED
    BY <1>1, <1>2, SMT DEF TypeOK

(* The last entry has the highest packet of its log. *)
LEMMA LastFacts ==
  ASSUME TypeOK, PacketsInv, NEW d \in Desk, entries[d] # <<>>
  PROVE  /\ Last(d) \in Entry /\ Last(d).packet \in 1 .. received
         /\ Holding => Last(d).packet < i2c.entry.packet
  <1>1. Len(entries[d]) \in DOMAIN entries[d] /\ Last(d) \in Entry
    BY DEF TypeOK, Last
  <1> QED
    BY <1>1 DEF PacketsInv, Last

(* Steps that change nothing that the streams depend on, but for the place *)
(* of a thread.                                                            *)
LEMMA StreamKept ==
  ASSUME TypeOK, StreamInv, UNCHANGED <<given, timestamps, entries, received>>,
         \/ UNCHANGED i2c
         \/ Holding /\ i2c'.entry.packet = i2c.entry.packet,
         \/ UNCHANGED tcp
         \/ /\ tcp'.pc # "use"
            /\ tcp'.pc \in {"clear", "resize", "forget"} => tcp.pc \in {"clear", "resize", "forget"}
  PROVE  StreamInv'
  <1>0. StreamsForward /\ GivenReceived /\ GivenCleared /\ GivenUpToLast /\ AboutToSend
    BY StreamInvSplit
  <1>1. StreamsForward'
    BY <1>0 DEF StreamsForward
  <1>2. GivenReceived'
    BY <1>0 DEF GivenReceived, Holding
  <1>3. GivenCleared'
    BY <1>0 DEF GivenCleared
  <1>4. GivenUpToLast'
    BY <1>0 DEF GivenUpToLast, UpTo, Last
  <1>5. AboutToSend'
    <2>1. CASE UNCHANGED tcp
      BY <1>0, <2>1 DEF AboutToSend, UpTo, Last
    <2>2. CASE tcp'.pc # "use"
      BY <2>2 DEF AboutToSend
    <2> QED
      BY <2>1, <2>2
  <1> QED
    BY <1>1, <1>2, <1>3, <1>4, <1>5, StreamInvSplitNext

LEMMA StreamI2C ==
  ASSUME TypeOK, TypeOK', PacketsInv, StreamInv, I2C
  PROVE  StreamInv'
  <1>0. StreamsForward /\ GivenReceived /\ GivenCleared /\ GivenUpToLast /\ AboutToSend
    BY StreamInvSplit
  <1>1. ASSUME NEW o \in Desk, Receive(o) PROVE StreamInv'
    <2>1. /\ UNCHANGED <<given, timestamps, entries, tcp>>
          /\ received' = received + 1 /\ i2c'.entry.packet = received'
      BY <1>1, ReceiveFacts DEF own, shared
    <2>2. GivenReceived'
      <3> SUFFICES ASSUME NEW s \in Session, NEW d \in Desk, NEW g \in DOMAIN given[s][d]
                   PROVE  given[s][d][g] \in 1 .. received' /\ given[s][d][g] < received'
        BY <2>1 DEF GivenReceived
      <3>1. given[s][d][g] \in 1 .. received /\ received \in Nat
        BY <1>0, GivenTypes DEF GivenReceived
      <3> QED
        BY <2>1, <3>1, SMT
    <2>3. AboutToSend'
      <3>1. tcp.pc = "use" => tcp.entry.packet \in 1 .. received'
        BY <1>0, <2>1, GivenTypes, SMT DEF AboutToSend
      <3> QED
        BY <1>0, <2>1, <3>1 DEF AboutToSend, UpTo, Last
    <2>4. StreamsForward' /\ GivenCleared' /\ GivenUpToLast'
      BY <1>0, <2>1 DEF StreamsForward, GivenCleared, GivenUpToLast, UpTo, Last
    <2> QED
      BY <2>2, <2>3, <2>4, StreamInvSplitNext
  <1>2. CASE Stamp \/ Write \/ Load \/ Store \/ ComfortError \/ ComfortVariance
    <2>1. /\ UNCHANGED <<given, timestamps, entries, received, tcp>>
          /\ Holding /\ i2c'.entry.packet = i2c.entry.packet
      BY <1>2, HoldFacts DEF own, limits, Holding
    <2> QED
      BY <2>1, StreamKept
  <1>3. CASE Insert
    <2> DEFINE o == i2c.desk
               n == Len(entries[o]) + 1
    <2>1. /\ o \in Desk /\ entries'[o][n] = i2c.entry
          /\ Len(entries'[o]) = n /\ entries'[o] # <<>>
          /\ \A i \in DOMAIN entries[o] : i \in DOMAIN entries'[o] /\ entries'[o][i] = entries[o][i]
          /\ \A i \in DOMAIN entries'[o] : i \in DOMAIN entries[o] \/ i = n
          /\ \A d \in Desk : d # o => entries'[d] = entries[d]
          /\ i2c'.pc = "read" /\ i2c.entry \in Entry /\ i2c'.desk = o
      BY <1>3, InsertFacts
    <2>2. /\ UNCHANGED <<given, timestamps, received>> /\ Holding
          /\ tcp'.pc = tcp.pc /\ tcp'.desk = tcp.desk /\ tcp'.session = tcp.session
          /\ tcp'.entry = tcp.entry /\ tcp.desk \in Desk /\ tcp.session \in Session
      BY <1>3 DEF Insert, own, limits, Holding, TypeOK, TCPThread
    <2>3. Last(o)' = i2c.entry /\ \A d \in Desk : d # o => Last(d)' = Last(d)
      BY <2>1 DEF Last
    <2>4. \A s \in Session, d \in Desk : \A g \in DOMAIN given[s][d] :
              given[s][d][g] < i2c.entry.packet /\ given[s][d][g] \in Int
      BY <1>0, <2>2, GivenTypes DEF GivenReceived
    <2>5. i2c.entry.packet \in Int
      BY <2>1, SMT DEF Entry
    <2>6. GivenReceived'
      BY <1>0, <2>1, <2>2 DEF GivenReceived, Holding
    <2>7. GivenCleared'
      <3> SUFFICES ASSUME tcp.pc \in {"clear", "resize", "forget"},
                          NEW s \in Session, NEW d \in Desk,
                          NEW g \in DOMAIN given[s][d], NEW i \in DOMAIN entries'[d]
                   PROVE  given[s][d][g] < entries'[d][i].packet
        BY <2>2 DEF GivenCleared
      <3>1. CASE d = o /\ i = n
        BY <2>1, <2>4, <3>1
      <3>2. CASE ~(d = o /\ i = n)
        <4>1. i \in DOMAIN entries[d] /\ entries'[d][i] = entries[d][i]
          BY <2>1, <3>2
        <4> QED
          BY <1>0, <4>1 DEF GivenCleared
      <3> QED
        BY <3>1, <3>2
    <2>8. GivenUpToLast'
      <3> SUFFICES ASSUME NEW s \in Session, NEW d \in Desk, entries'[d] # <<>>,
                          NEW g \in DOMAIN given[s][d]
                   PROVE  /\ given[s][d][g] <= Last(d)'.packet
                          /\ given[s][d][g] = Last(d)'.packet
                               => Last(d)'.time <= timestamps[s][d]
        BY <2>2 DEF GivenUpToLast, UpTo
      <3>1. CASE d = o
        <4>1. given[s][d][g] < i2c.entry.packet /\ given[s][d][g] \in Int
          BY <2>4
        <4>2. given[s][d][g] <= i2c.entry.packet /\ given[s][d][g] # i2c.entry.packet
          BY <2>5, <4>1, SMT
        <4>3. Last(d)' = i2c.entry
          BY <2>1, <3>1 DEF Last
        <4> QED
          BY <4>2, <4>3
      <3>2. CASE d # o
        BY <1>0, <2>1, <2>3, <3>2 DEF GivenUpToLast, UpTo
      <3> QED
        BY <3>1, <3>2
    <2>9. AboutToSend'
      <3> SUFFICES ASSUME tcp.pc = "use" PROVE AboutToSend'
        BY <2>2 DEF AboutToSend
      <3>1. /\ entries[tcp.desk] # <<>>
            /\ tcp.entry.packet \in 1 .. received
            /\ UpTo(tcp.session, tcp.desk, tcp.entry)
            /\ tcp.entry.packet <= Last(tcp.desk).packet
            /\ tcp.entry.packet = Last(tcp.desk).packet => tcp.entry.time = Last(tcp.desk).time
        BY <1>0 DEF AboutToSend
      <3>2. UpTo(tcp.session, tcp.desk, tcp.entry)'
        BY <2>2, <3>1 DEF UpTo
      <3>3. CASE tcp.desk = o
        <4>1. Last(o).packet < i2c.entry.packet /\ Last(o).packet \in Int
          BY <2>1, <2>2, <3>1, <3>3, LastFacts
        <4>2. tcp.entry.packet \in Int
          BY <3>1
        <4>3. tcp.entry.packet < i2c.entry.packet
          BY <2>5, <3>1, <3>3, <4>1, <4>2, SMT
        <4>4. tcp.entry.packet <= i2c.entry.packet /\ tcp.entry.packet # i2c.entry.packet
          BY <2>5, <4>2, <4>3, SMT
        <4> QED
          BY <2>1, <2>2, <2>3, <3>1, <3>2, <3>3, <4>4 DEF AboutToSend
      <3>4. CASE tcp.desk # o
        <4>1. entries'[tcp.desk] = entries[tcp.desk] /\ Last(tcp.desk)' = Last(tcp.desk)
          BY <2>1, <2>2, <2>3, <3>4 DEF Last
        <4> QED
          BY <2>2, <3>1, <3>2, <4>1 DEF AboutToSend
      <3> QED
        BY <3>3, <3>4
    <2>10. StreamsForward'
      BY <1>0, <2>2 DEF StreamsForward
    <2> QED
      BY <2>6, <2>7, <2>8, <2>9, <2>10, StreamInvSplitNext
  <1> QED
    BY <1>1, <1>2, <1>3 DEF I2C

LEMMA TimeIsInt == \A t \in Time : t \in Int
  BY SMT DEF Time

LEMMA AppendFacts ==
  ASSUME NEW q \in Seq(1 .. MaxPackets), NEW k \in 1 .. MaxPackets
  PROVE  /\ DOMAIN Append(q, k) = 1 .. Len(q) + 1 /\ Append(q, k)[Len(q) + 1] = k
         /\ Len(q) + 1 \in Nat /\ DOMAIN q = 1 .. Len(q) + 1 - 1
         /\ \A g \in DOMAIN q : Append(q, k)[g] = q[g]
  OBVIOUS

LEMMA StreamUse ==
  ASSUME TypeOK, TypeOK', PacketsInv, StreamInv, Use
  PROVE  StreamInv'
  <1>0. StreamsForward /\ GivenReceived /\ GivenCleared /\ GivenUpToLast /\ AboutToSend
    BY StreamInvSplit
  <1> DEFINE s == tcp.session
             d == tcp.desk
             k == tcp.entry.packet
  <1>1. /\ s \in Session /\ d \in Desk /\ tcp.entry \in Entry /\ k \in 1 .. MaxPackets
        /\ tcp' = NextDesk(tcp) /\ tcp \in TCPThread
        /\ \/ UNCHANGED <<timestamps, given>>
           \/ \E t \in Time : /\ timestamps[s][d] < t
                              /\ timestamps' = [timestamps EXCEPT ![s][d] = t]
                              /\ \/ given' = given
                                 \/ /\ t = tcp.entry.time
                                    /\ given' = [given EXCEPT ![s][d] = Append(@, k)]
    BY UseFacts DEF TypeOK
  <1>2. tcp'.pc \in {"fetch", "idle"} /\ tcp.pc = "use" /\ UNCHANGED <<entries, i2c, received>>
    BY <1>1, NextDeskType DEF Use, shared, limits
  <1>3. CASE UNCHANGED <<timestamps, given>>
    BY <1>2, <1>3, StreamKept
  <1>4. ASSUME NEW t \in Time, timestamps[s][d] < t,
               timestamps' = [timestamps EXCEPT ![s][d] = t],
               \/ given' = given
               \/ /\ t = tcp.entry.time
                  /\ given' = [given EXCEPT ![s][d] = Append(@, k)]
        PROVE  StreamInv'
    <2>0. GivenCleared' /\ AboutToSend'
      BY <1>2 DEF GivenCleared, AboutToSend
    <2>1. /\ timestamps'[s][d] = t
          /\ \A r \in Session, o \in Desk :
                 timestamps[r][o] <= timestamps'[r][o]
      <3>1. timestamps'[s][d] = t
        BY <1>1, <1>4 DEF TypeOK
      <3>2. \A r \in Session, o \in Desk : ~(r = s /\ o = d) => timestamps'[r][o] = timestamps[r][o]
        BY <1>1, <1>4 DEF TypeOK
      <3>3. \A r \in Session, o \in Desk : timestamps[r][o] \in Int /\ timestamps[r][o] <= timestamps[r][o]
        BY GivenTypes
      <3>4. t \in Int /\ timestamps[s][d] <= t
        BY <1>1, <1>4, <3>3, SMT DEF Time
      <3> QED
        BY <3>1, <3>2, <3>3, <3>4
    <2>2. CASE given' = given
      <3>1. StreamsForward' /\ GivenReceived'
        BY <1>0, <1>2, <2>2 DEF StreamsForward, GivenReceived, Holding
      <3>2. GivenUpToLast'
        <4> SUFFICES ASSUME NEW r \in Session, NEW o \in Desk, entries[o] # <<>>,
                            NEW g \in DOMAIN given[r][o]
                     PROVE  /\ given[r][o][g] <= Last(o).packet
                            /\ given[r][o][g] = Last(o).packet
                                 => Last(o).time <= timestamps'[r][o]
          BY <1>2, <2>2 DEF GivenUpToLast, UpTo, Last
        <4>1. /\ given[r][o][g] <= Last(o).packet
              /\ given[r][o][g] = Last(o).packet => Last(o).time <= timestamps[r][o]
          BY <1>0 DEF GivenUpToLast, UpTo
        <4>2. Last(o).time \in Int /\ timestamps[r][o] \in Int /\ timestamps'[r][o] \in Int
          <5>1. timestamps[r][o] \in Int /\ timestamps'[r][o] \in Int
            <6>1. timestamps[r][o] \in Time /\ timestamps'[r][o] \in Time
              BY DEF TypeOK
            <6> QED
              BY <6>1, SMT DEF Time
          <5>2. Last(o).time \in Int
            BY LastFacts, SMT DEF Entry, Time
          <5> QED
            BY <5>1, <5>2
        <4>3. timestamps[r][o] <= timestamps'[r][o]
          BY <2>1
        <4> QED
          BY <4>1, <4>2, <4>3, SMT
      <3> QED
        BY <2>0, <3>1, <3>2, StreamInvSplitNext
    <2>3. CASE t = tcp.entry.time /\ given' = [given EXCEPT ![s][d] = Append(@, k)]
      <3>1. /\ entries[d] # <<>> /\ k \in 1 .. received /\ UpTo(s, d, tcp.entry)
            /\ k <= Last(d).packet /\ (k = Last(d).packet => t = Last(d).time)
        BY <1>0, <1>2, <2>3 DEF AboutToSend
      <3> DEFINE G == given[s][d]
                 n == Len(G) + 1
      <3>2. /\ G \in Seq(1 .. MaxPackets) /\ given'[s][d] = Append(G, k)
            /\ \A r \in Session, o \in Desk : ~(r = s /\ o = d) => given'[r][o] = given[r][o]
        <4>1. given \in [Session -> [Desk -> Seq(1 .. MaxPackets)]] /\ s \in Session /\ d \in Desk
          BY <1>1 DEF TypeOK
        <4>2. given' = [given EXCEPT ![s] = [given[s] EXCEPT ![d] = Append(given[s][d], k)]]
          BY <2>3
        <4> HIDE DEF s, d, k
        <4>3. /\ given'[s] = [given[s] EXCEPT ![d] = Append(given[s][d], k)]
              /\ \A r \in Session : r # s => given'[r] = given[r]
          BY <4>1, <4>2
        <4>4. given[s] \in [Desk -> Seq(1 .. MaxPackets)]
          BY <4>1
        <4>5. /\ given'[s][d] = Append(given[s][d], k)
              /\ \A o \in Desk : o # d => given'[s][o] = given[s][o]
          BY <4>1, <4>3, <4>4
        <4> QED
          BY <4>1, <4>3, <4>4, <4>5
      <3>3. /\ DOMAIN given'[s][d] = 1 .. n /\ given'[s][d][n] = k /\ n \in Nat
            /\ DOMAIN G = 1 .. n - 1
            /\ \A g \in DOMAIN G : given'[s][d][g] = G[g]
        <4>1. k \in 1 .. MaxPackets
          BY <1>1
        <4> DEFINE H == given'[s][d]
        <4>2. G \in Seq(1 .. MaxPackets) /\ H = Append(G, k)
          BY <3>2
        <4> HIDE DEF s, d, k, G, H
        <4>3. /\ DOMAIN Append(G, k) = 1 .. Len(G) + 1 /\ Append(G, k)[Len(G) + 1] = k
              /\ Len(G) + 1 \in Nat /\ DOMAIN G = 1 .. Len(G) + 1 - 1
              /\ \A g \in DOMAIN G : Append(G, k)[g] = G[g]
          BY <4>1, <4>2, AppendFacts, Zenon
        <4>4. /\ DOMAIN H = 1 .. n /\ H[n] = k /\ n \in Nat
              /\ DOMAIN G = 1 .. n - 1 /\ \A g \in DOMAIN G : H[g] = G[g]
          BY <4>2, <4>3
        <4> QED
          BY <4>4 DEF H
      <3> HIDE DEF n
      <3>4. \A g \in DOMAIN G : G[g] < k
        <4> SUFFICES ASSUME NEW g \in DOMAIN G PROVE G[g] < k
          OBVIOUS
        <4>1. G[g] <= k /\ (G[g] = k => t <= timestamps[s][d])
          BY <2>3, <3>1 DEF UpTo
        <4>2. G[g] \in Int /\ timestamps[s][d] \in Int
          BY <1>1, GivenTypes
        <4>3. k \in Int /\ t \in Int
          BY <3>1, TimeIsInt
        <4>4. timestamps[s][d] < t
          BY <1>4, Zenon
        <4> QED
          BY <4>1, <4>2, <4>3, <4>4, SMT
      <3>5. StreamsForward'
        <4> SUFFICES ASSUME NEW r \in Session, NEW o \in Desk,
                            NEW i \in DOMAIN given'[r][o], NEW j \in DOMAIN given'[r][o], i < j
                     PROVE  given'[r][o][i] < given'[r][o][j]
          BY DEF StreamsForward
        <4>1. CASE ~(r = s /\ o = d)
          BY <1>0, <3>2, <4>1 DEF StreamsForward
        <4>2. CASE r = s /\ o = d /\ j = n
          <5>1. i \in DOMAIN G
            <6>1. i \in 1 .. n /\ i < n
              BY <3>3, <4>2
            <6> QED
              BY <3>3, <6>1
          <5> QED
            BY <3>3, <3>4, <4>2, <5>1
        <4>3. CASE r = s /\ o = d /\ j # n
          <5>1. i \in DOMAIN G /\ j \in DOMAIN G
            <6>1. i \in 1 .. n /\ j \in 1 .. n /\ j # n
              BY <3>3, <4>3
            <6> QED
              BY <3>3, <6>1
          <5> QED
            BY <1>0, <1>1, <3>3, <4>3, <5>1 DEF StreamsForward
        <4> QED
          BY <4>1, <4>2, <4>3
      <3>6. GivenReceived'
        <4> SUFFICES ASSUME NEW r \in Session, NEW o \in Desk, NEW g \in DOMAIN given'[r][o]
                     PROVE  /\ given'[r][o][g] \in 1 .. received
                            /\ Holding => given'[r][o][g] < i2c.entry.packet
          BY <1>2 DEF GivenReceived, Holding
        <4>1. CASE ~(r = s /\ o = d)
          BY <1>0, <3>2, <4>1 DEF GivenReceived
        <4>2. CASE r = s /\ o = d /\ g = n
          <5>1. Holding => k < i2c.entry.packet
            <6>1. Holding => Last(d).packet < i2c.entry.packet /\ i2c.entry.packet \in Int
              <7>1. i2c.entry.packet \in Int
                BY SMT DEF TypeOK, I2CThread, Entry
              <7> QED
                BY <1>1, <3>1, <7>1, LastFacts
            <6>2. Last(d).packet \in Int /\ k \in Int
              BY <1>1, <3>1, LastFacts
            <6> QED
              BY <3>1, <6>1, <6>2, SMT
          <5> QED
            BY <3>1, <3>3, <4>2, <5>1
        <4>3. CASE r = s /\ o = d /\ g # n
          <5>1. g \in DOMAIN G
            <6>1. g \in 1 .. n /\ g # n
              BY <3>3, <4>3
            <6> QED
              BY <3>3, <6>1
          <5> QED
            BY <1>0, <1>1, <3>3, <4>3, <5>1 DEF GivenReceived
        <4> QED
          BY <4>1, <4>2, <4>3
      <3>7. GivenUpToLast'
        <4> SUFFICES ASSUME NEW r \in Session, NEW o \in Desk, entries[o] # <<>>,
                            NEW g \in DOMAIN given'[r][o]
                     PROVE  /\ given'[r][o][g] <= Last(o).packet
                            /\ given'[r][o][g] = Last(o).packet
                                 => Last(o).time <= timestamps'[r][o]
          BY <1>2 DEF GivenUpToLast, UpTo, Last
        <4>1. CASE ~(r = s /\ o = d)
          <5>1. given'[r][o] = given[r][o] /\ timestamps'[r][o] = timestamps[r][o]
            <6>1. timestamps \in [Session -> [Desk -> Time]]
              BY DEF TypeOK
            <6> HIDE DEF s, d, k
            <6> QED
              BY <1>1, <1>4, <3>2, <4>1, <6>1
          <5> QED
            BY <1>0, <5>1 DEF GivenUpToLast, UpTo
        <4>2. t = tcp.entry.time /\ timestamps'[s][d] = t /\ t \in Int /\ t <= t
          BY <2>1, <2>3, SMT DEF Time
        <4>3. CASE r = s /\ o = d /\ g = n
          BY <3>1, <3>3, <4>2, <4>3
        <4>4. CASE r = s /\ o = d /\ g # n
          <5>1. g \in DOMAIN G /\ given'[r][o][g] = G[g]
            <6>1. g \in 1 .. n /\ g # n
              BY <3>3, <4>4
            <6>2. g \in DOMAIN G
              BY <3>3, <6>1
            <6> QED
              BY <3>3, <4>4, <6>2
          <5>2. G[g] < k /\ k <= Last(d).packet
            BY <3>1, <3>4, <5>1
          <5>3. G[g] \in Int /\ k \in Int /\ Last(d).packet \in Int
            <6>1. G[g] \in Int
              BY <1>1, <5>1, GivenTypes
            <6>2. Last(d).packet \in Int
              BY <1>1, <3>1, LastFacts
            <6> QED
              BY <3>1, <6>1, <6>2
          <5>4. G[g] <= Last(d).packet /\ G[g] # Last(d).packet
            BY <5>2, <5>3, SMT
          <5> QED
            BY <4>4, <5>1, <5>4
        <4> QED
          BY <4>1, <4>3, <4>4
      <3> QED
        BY <2>0, <3>5, <3>6, <3>7, StreamInvSplitNext
    <2> QED
      BY <1>4, <2>2, <2>3
  <1> QED
    BY <1>1, <1>3, <1>4

LEMMA StreamTCP ==
  ASSUME TypeOK, TypeOK', PacketsInv, StreamInv, TCP
  PROVE  StreamInv'
  <1>0. StreamsForward /\ GivenReceived /\ GivenCleared /\ GivenUpToLast /\ AboutToSend
    BY StreamInvSplit
  <1>1. tcp \in TCPThread
    BY DEF TypeOK
  <1>2. CASE ClearLog
    <2>1. /\ \A d \in Desk : entries'[d] = <<>> /\ DOMAIN entries'[d] = {}
          /\ UNCHANGED <<i2c, received, given, timestamps>> /\ tcp'.pc = "clear"
      BY <1>1, <1>2, LogCleared DEF ClearLog, TCPThread
    <2> QED
      BY <1>0, <2>1 DEF StreamInv, StreamsForward, GivenReceived, Holding
  <1>3. CASE Forget
    <2> DEFINE r == tcp.session
    <2>1. /\ UNCHANGED <<i2c, received, given, entries>>
          /\ tcp.pc = "forget" /\ tcp'.pc = "idle"
          /\ \A s \in Session, d \in Desk : s # r => timestamps'[s][d] = timestamps[s][d]
      BY <1>1, <1>3 DEF Forget, shared, limits, TypeOK, TCPThread
    <2>2. GivenUpToLast'
      <3> SUFFICES ASSUME NEW s \in Session, NEW d \in Desk, entries[d] # <<>>,
                          NEW g \in DOMAIN given[s][d]
                   PROVE  given[s][d][g] <= Last(d).packet /\ given[s][d][g] # Last(d).packet
        BY <2>1 DEF GivenUpToLast, UpTo, Last
      <3>1. Len(entries[d]) \in DOMAIN entries[d]
        BY DEF TypeOK
      <3>2. given[s][d][g] < Last(d).packet
        BY <1>0, <2>1, <3>1 DEF GivenCleared, Last
      <3>3. given[s][d][g] \in Int /\ Last(d).packet \in Int
        <4>1. Last(d).packet \in Int
          BY LastFacts
        <4> QED
          BY <4>1, GivenTypes
      <3> QED
        BY <3>2, <3>3, SMT
    <2>3. StreamsForward' /\ GivenReceived' /\ GivenCleared' /\ AboutToSend'
      BY <1>0, <2>1 DEF StreamsForward, GivenReceived, GivenCleared, AboutToSend, Holding
    <2> QED
      BY <2>2, <2>3, StreamInvSplitNext
  <1>4. CASE Clear \/ Resize
    <2>1. /\ UNCHANGED <<given, timestamps, entries, received, i2c>>
          /\ tcp.pc \in {"clear", "resize"}
      BY <1>4 DEF Clear, Resize, own, limits
    <2>2. tcp'.pc \in {"clear", "resize", "forget"}
      <3>1. \/ tcp' = [tcp EXCEPT !.field = tcp.field + 1]
            \/ tcp' = [tcp EXCEPT !.pc = "resize", !.field = 1]
            \/ tcp' = [tcp EXCEPT !.pc = "forget", !.field = 1]
        BY <1>4, Zenon DEF Clear, Resize
      <3> QED
        BY <1>1, <2>1, <3>1 DEF TCPThread
    <2> QED
      BY <2>1, <2>2, StreamKept
  <1>5. CASE Restart \/ \E s \in Session : Request(s) \/ Timer(s)
    <2>1. /\ UNCHANGED <<given, timestamps, entries, received, i2c>>
          /\ tcp'.pc \in {"log", "restart", "fetch"}
      BY <1>1, <1>5 DEF Restart, Request, Timer, TCPThread, own, shared, limits
    <2> QED
      BY <2>1, StreamKept
  <1>6. CASE \E s \in Session, d \in Desk : Stream(s, d)
    <2>1. UNCHANGED <<given, timestamps, entries, received, i2c, tcp>>
      BY <1>6 DEF Stream, shared, limits
    <2> QED
      BY <2>1, StreamKept
  <1>7. CASE Fetch
    <2> DEFINE d == tcp.desk
               s == tcp.session
    <2>1. /\ UNCHANGED <<given, timestamps, entries, received, i2c>>
          /\ d \in Desk /\ s \in Session
      BY <1>1, <1>7 DEF Fetch, own, shared, limits, TCPThread
    <2>2. CASE tcp' = NextDesk(tcp)
      <3>1. tcp'.pc \in {"fetch", "idle"}
        BY <1>1, <2>2, NextDeskType
      <3> QED
        BY <2>1, <3>1, StreamKept
    <2>3. CASE entries[d] # <<>> /\ tcp' = [tcp EXCEPT !.pc = "use", !.entry = Last(d)]
      <3>1. /\ tcp'.pc = "use" /\ tcp'.desk = d /\ tcp'.session = s /\ tcp'.entry = Last(d)
        BY <1>1, <2>3 DEF TCPThread
      <3>2. Last(d).packet \in 1 .. received /\ Last(d).packet <= Last(d).packet
        <4>1. Last(d).packet \in 1 .. received
          BY <2>1, <2>3, LastFacts
        <4> QED
          BY <4>1, SMT
      <3>3. UpTo(s, d, Last(d))
        BY <1>0, <2>1, <2>3 DEF GivenUpToLast
      <3>4. AboutToSend'
        BY <2>1, <2>3, <3>1, <3>2, <3>3 DEF AboutToSend, UpTo, Last
      <3>5. StreamsForward' /\ GivenReceived' /\ GivenCleared' /\ GivenUpToLast'
        BY <1>0, <2>1, <3>1 DEF StreamsForward, GivenReceived, GivenCleared, GivenUpToLast,
                                UpTo, Last, Holding
      <3> QED
        BY <3>4, <3>5, StreamInvSplitNext
    <2>4. \/ tcp' = NextDesk(tcp)
          \/ entries[d] # <<>> /\ tcp' = [tcp EXCEPT !.pc = "use", !.entry = Last(d)]
      BY <1>7, Zenon DEF Fetch, Last
    <2> QED
      BY <2>2, <2>3, <2>4
  <1> QED
    BY <1>2, <1>3, <1>4, <1>5, <1>6, <1>7, StreamUse DEF TCP

LEMMA StreamStep ==
  ASSUME TypeOK, TypeOK', PacketsInv, StreamInv, Next
  PROVE  StreamInv'
  <1>1. CASE Tick
    <2>1. UNCHANGED <<given, timestamps, entries, received, i2c, tcp>>
      BY <1>1 DEF Tick, own, shared
    <2> QED
      BY <2>1, StreamKept
  <1> QED
    BY <1>1, StreamI2C, StreamTCP DEF Next

-----------------------------------------------------------------------------
(* The theorems. *)

LEMMA InitIInv == Init => IInv
  <1> SUFFICES ASSUME Init PROVE IInv
    OBVIOUS
  <1>1. TypeOK
    BY InitTypes
  <1>2. /\ \A d \in Desk : entries[d] = <<>> /\ DOMAIN entries[d] = {}
        /\ \A s \in Session, d \in Desk : given[s][d] = <<>> /\ DOMAIN given[s][d] = {}
        /\ i2c.pc = "read" /\ i2c.now = 0 /\ tcp.pc = "idle" /\ i2c.desk \in Desk
        /\ report = [f \in Field |-> Zeros] /\ start = clock
    <2>1. 0 \in Desk
      BY SMT DEF Desk
    <2> QED
      BY <2>1 DEF Init
  <1>3. PacketsInv
    BY <1>2 DEF PacketsInv, Holding
  <1>4. TimeInv
    <2>1. start <= clock /\ 0 <= clock
      BY <1>2, Numbers, <1>1, SMT
    <2> QED
      BY <1>2, <2>1 DEF TimeInv, Holding
  <1>5. ComfortInv
    BY <1>2 DEF ComfortInv, ComfortOverLog
  <1>6. ReportInv
    <2>1. \A f \in Field : report[f] = Zeros /\ report[f] # Missing /\ ~Cleared(f)
      BY <1>2, MissingIsNone DEF Cleared
    <2>2. \A f \in Field, d \in Desk : report[f][d] = 0
      BY <2>1 DEF Zeros
    <2> QED
      BY <2>1, <2>2 DEF ReportInv
  <1>7. StreamInv
    BY <1>2 DEF StreamInv, StreamsForward, UpTo, Holding
  <1> QED
    BY <1>1, <1>3, <1>4, <1>5, <1>6, <1>7 DEF IInv

LEMMA StutterIInv ==
  ASSUME IInv, UNCHANGED vars
  PROVE  IInv'
  <1>1. UNCHANGED <<start, entries, capacity, report, timestamps, flags, given, restored,
                    clock, received, resets, i2c, tcp>>
    BY DEF vars, shared, own, limits
  <1>2. TypeOK'
    BY <1>1 DEF IInv, TypeOK
  <1>3. PacketsInv' /\ ComfortInv'
    BY <1>1 DEF IInv, PacketsInv, Holding, ComfortInv, ComfortOverLog
  <1>4. TimeInv'
    BY <1>1 DEF IInv, TimeInv, Holding, Stamped, Resetting
  <1>5. ReportInv'
    BY <1>1 DEF IInv, ReportInv, Cleared, Stale, Past, Stamped, Last
  <1>6. StreamInv'
    BY <1>1, StreamKept DEF IInv
  <1> QED
    BY <1>2, <1>3, <1>4, <1>5, <1>6 DEF IInv

(* The inductive invariant holds in every state of the server, whatever    *)
(* the order of the steps of its two threads.                              *)
THEOREM Inductive == Spec => []IInv
  <1>1. IInv /\ [Next]_vars => IInv'
    <2> SUFFICES ASSUME IInv, [Next]_vars PROVE IInv'
      OBVIOUS
    <2>1. TypeOK'
      BY NextTypes DEF IInv
    <2>2. CASE Next
      BY <2>1, <2>2, PacketsStep, TimeStep, ComfortStep, ReportStep, StreamStep DEF IInv
    <2>3. CASE UNCHANGED vars
      BY <2>3, StutterIInv
    <2> QED
      BY <2>2, <2>3
  <1> QED
    BY InitIInv, <1>1, PTL DEF Spec

(* Types: every log fits the memory that its vector has (insertEntry).     *)
THEOREM LogTypes == Spec => []TypeOK
  BY Inductive, PTL DEF IInv

(* Logs are in the order of packets and, but for the first entry, of time  *)
(* (handleRead, insertEntry, reset).                                       *)
THEOREM LogsInOrder == Spec => []LogInOrder
  <1>1. IInv => LogInOrder
    <2> SUFFICES ASSUME IInv, NEW d \in Desk,
                        NEW i \in DOMAIN entries[d], NEW j \in DOMAIN entries[d]
                 PROVE  /\ i < j => entries[d][i].packet < entries[d][j].packet
                        /\ 1 < i /\ i <= j /\ ~Resetting
                             => /\ entries[d][i].time <= entries[d][j].time
                                /\ entries[d][j].time <= Millis
      BY DEF LogInOrder
    <2>1. Millis = clock - start
      <3>1. clock \in 0 .. Epoch + MaxTime /\ start \in 0 .. clock
        BY Numbers, SMT DEF IInv, TypeOK, TimeInv
      <3> QED
        BY <3>1, MinusSmall DEF Millis
    <2> QED
      BY <2>1 DEF IInv, PacketsInv, TimeInv
  <1> QED
    BY <1>1, Inductive, PTL

(* The comfort of an entry is that of the log before it (handleRead,       *)
(* getComfortError, getComfortVariance).                                   *)
THEOREM ComfortOfLog == Spec => []ComfortOverLog
  BY Inductive, PTL DEF IInv, ComfortInv

(* What is reported of a desk is of its last packet, but for an occupancy  *)
(* that another desk's has brought back after a reset (handleRead, reset). *)
THEOREM ReportsLatest == Spec => []LatestReport
  <1>1. IInv => LatestReport
    <2> SUFFICES ASSUME IInv, i2c.pc = "read", tcp.pc \notin {"clear", "resize"},
                        NEW f \in Field, NEW d \in Desk
                 PROVE  /\ report[f] # Missing
                        /\ report[f][d] # 0 =>
                             \/ /\ entries[d] # <<>>
                                /\ report[f][d] = entries[d][Len(entries[d])].packet
                             \/ f = Occupancy /\ d \in restored
      BY DEF LatestReport
    <2>1. ~Cleared(f) /\ ~Stale(f) /\ ~Stamped
      BY DEF Cleared, Stale, Stamped
    <2> QED
      BY <2>1 DEF IInv, ReportInv, Last
  <1> QED
    BY <1>1, Inductive, PTL

(* No session is sent an entry twice, or one older than another that it    *)
(* was sent (streamUpdate, parseRequest, reset).                           *)
THEOREM StreamsInOrder == Spec => []StreamsForward
  BY Inductive, PTL DEF IInv, StreamInv
=============================================================================
