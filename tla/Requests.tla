------------------------------ MODULE Requests ------------------------------
(***************************************************************************)
(* What the server of rpi/src answers: parseRequest (request.cpp) on the   *)
(* requests of one session, and the getters of System.cpp on the log that  *)
(* they read.  Each request is one step here: what the I2C thread may do   *)
(* in the middle of one is the subject of ServerLog, and its only trace in *)
(* this module is a first entry that a reset has left ahead of the clock.  *)
(*                                                                         *)
(* A request is its three words.  Measurements are small integers, a mean  *)
(* is a sum with the number of its terms, and a text that is made from     *)
(* values is those values.                                                 *)
(***************************************************************************)
EXTENDS Integers, Sequences, FiniteSets, TLC, SequencesExt

CONSTANTS
    N,            \* number of desks, NODES
    Minute,       \* 60 * 1000
    Modulus,      \* 1 + the largest unsigned long, 2 ^ 32 on the Pi
    MaxTime,      \* bound: milliseconds since the last reset
    MaxEntries,   \* bound: entries in all logs
    Lux, Ref,     \* illuminances and references that a board reports
    Duty,         \* duty cycles that a board reports
    Other,        \* reports of the lower bound, external light and occupancy
    Word          \* words that a request is made of

ASSUME NAssumption    == N \in 1 .. 10   \* an id of one digit
ASSUME TimeAssumption == /\ Minute \in Nat /\ MaxTime \in Nat
                         /\ Modulus \in Nat /\ Modulus % 2 = 0 /\ Modulus > MaxTime
ASSUME DataAssumption == Lux \subseteq Nat /\ Ref \subseteq Nat /\ Duty \subseteq Nat
                         /\ Other \subseteq Nat \ {0} /\ Word \subseteq STRING
ASSUME BoundAssumption == MaxEntries \in Nat

VARIABLES
    now,      \* system->millis()
    entries,  \* entries_[d], the log of desk d, oldest first
    reports,  \* what is kept of the last packet of desk d beside its entry
    restarted \* a reset has been requested

vars == <<now, entries, reports, restarted>>

Desk  == 0 .. N - 1
Entry == [time : 0 .. Modulus - 1, lux : Lux, duty : Duty, ref : Ref]

Init ==
    /\ now = 0
    /\ entries = [d \in Desk |-> <<>>]
    /\ reports = [d \in Desk |-> 0]
    /\ restarted = FALSE

-----------------------------------------------------------------------------
(* The getters of System. *)

Empty(d)   == entries[d] = <<>>
Latest(d)  == Last(entries[d])

(* -1 stands for what there is no entry to answer from. *)
GetLux(d)       == IF Empty(d) THEN -1 ELSE Latest(d).lux
GetDutyCycle(d) == IF Empty(d) THEN -1 ELSE Latest(d).duty
GetReference(d) == IF Empty(d) THEN -1 ELSE Latest(d).ref
GetTimestamp(d) == IF Empty(d) THEN -1 ELSE Latest(d).time

(* The sum of the values of a function. *)
Total(f) == FoldFunction(LAMBDA x, y : x + y, 0, f)

(* Fault: desks that have not reported yet count as well. *)
TotalPowerOfAny == Total([d \in Desk |-> GetDutyCycle(d)])

TotalPower ==
    IF \E d \in Desk : GetDutyCycle(d) = -1 THEN -1
    ELSE Total([d \in Desk |-> GetDutyCycle(d)])

(* Fault: a period is charged at the duty cycle at its end. *)
EnergyNodeAtEnd(d) ==
    LET log == entries[d] IN
    Total([i \in 1 .. Len(log) - 1 |->
             log[i + 1].duty * ((log[i + 1].time - log[i].time) % Modulus)])

(* energyNode: the difference of two times is unsigned. *)
EnergyNode(d) ==
    LET log == entries[d] IN
    Total([i \in 1 .. Len(log) - 1 |->
             log[i].duty * ((log[i + 1].time - log[i].time) % Modulus)])

TotalEnergy == Total([d \in Desk |-> EnergyNode(d)])

(* A mean; 0 / 0 is not a number. *)
Mean(sum, terms) == [sum |-> sum, terms |-> terms]
IsNaN(q)         == q.terms = 0
AddMeans(p, q)   == Mean(p.sum * q.terms + q.sum * p.terms, p.terms * q.terms)

ComfortErrorNode(d) ==
    LET log == entries[d] IN
    Mean(Total([i \in DOMAIN log |-> Max({log[i].ref - log[i].lux, 0})]), Len(log))

Abs(x) == IF x < 0 THEN -x ELSE x

(* In units of one over the square of the sampling period. *)
ComfortVarianceNode(d) ==
    LET log == entries[d] IN
    Mean(Total([i \in 3 .. Len(log) |->
                  Abs(log[i].lux - 2 * log[i - 1].lux + log[i - 2].lux)]), Len(log))

(* The sum of the means of all desks. *)
TotalComfort(means) == FoldFunction(LAMBDA p, q : AddMeans(p, q), Mean(0, 1), means)

TotalError    == TotalComfort([d \in Desk |-> ComfortErrorNode(d)])
TotalVariance == TotalComfort([d \in Desk |-> ComfortVarianceNode(d)])

(* The value of a signed long that is given that of an unsigned one. *)
ToSigned(u) == IF u >= Modulus \div 2 THEN u - Modulus ELSE u

(* parseRequest subtracts unsigned numbers, and keeps the result as a      *)
(* signed one that it takes to be negative only in the first minute.       *)
MinuteAgo == Max({ToSigned((now - Minute) % Modulus), 0})

(* Fault: the limits of the period are left out. *)
OpenPeriod(d) ==
    SelectSeq(entries[d], LAMBDA e : e.time > MinuteAgo /\ e.time < now)

(* getValuesInPeriod, and the values of its variable: duty cycles unless    *)
(* it is l.                                                                 *)
InPeriod(d) == SelectSeq(entries[d], LAMBDA e : e.time >= MinuteAgo /\ e.time <= now)

Values(d, var) == [i \in DOMAIN InPeriod(d) |->
                     IF var = "l" THEN InPeriod(d)[i].lux ELSE InPeriod(d)[i].duty]

-----------------------------------------------------------------------------
(* parseRequest. *)

(* Words of one character, and numbers: std::stoi takes 00 as well.        *)
Number == {"0", "1", "2", "3", "4", "5", "6", "7", "8", "9", "00"}
Single == Word \ {"", "00", "long"}
Query  == [type : Word, cmd : Word, arg : Word]

Id == [w \in Number |-> IF w = "00" THEN 0 ELSE CHOOSE i \in 0 .. 9 : ToString(i) = w]

IsDesk(w) == w \in Number /\ Id[w] < N

Answer(k, v) == [kind |-> k, value |-> v]
ACK     == Answer("ack", <<>>)
INVALID == Answer("invalid", <<>>)
NOTHING == Answer("empty", <<>>)

(* The answers to "g": of the whole system, and of a desk. *)
GetTotal(param) ==
    CASE param = "p" -> Answer("number", TotalPower)
      [] param = "e" -> Answer("number", TotalEnergy)
      [] param = "c" -> Answer("mean", TotalError)
      [] param = "v" -> Answer("mean", TotalVariance)
      [] OTHER       -> INVALID

Get(param, d) ==
    CASE param = "l"               -> Answer("number", GetLux(d))
      [] param \in {"d", "p"}      -> Answer("number", GetDutyCycle(d))
      [] param \in {"o", "L", "O"} -> Answer("report", reports[d])
      [] param = "r"               -> Answer("number", GetReference(d))
      [] param = "e"               -> Answer("number", EnergyNode(d))
      [] param = "c"               -> Answer("mean", ComfortErrorNode(d))
      [] param = "v"               -> Answer("mean", ComfortVarianceNode(d))
      [] param = "t"               -> Answer("number", GetTimestamp(d))
      [] OTHER                     -> INVALID

(* The requests that act: on the boards, on the streams of the session. *)
Settable(q)   == q.type = "s" /\ q.cmd \in Single /\ IsDesk(q.cmd) /\ q.arg \in Number
Streamable(q) == q.type \in {"c", "d"} /\ q.cmd \in {"l", "d"} /\ IsDesk(q.arg)

Response(q) ==
    CASE q.type = "r"              -> ACK
      [] q.type \in {"A", "D", "S"} -> NOTHING
      [] Settable(q)               -> ACK
      [] Streamable(q)             -> NOTHING
      [] q.type = "g" /\ q.cmd \in Single /\ q.arg = "T"     -> GetTotal(q.cmd)
      [] q.type = "g" /\ q.cmd \in Single /\ IsDesk(q.arg)   -> Get(q.cmd, Id[q.arg])
      [] q.type = "b" /\ q.cmd \in Single /\ IsDesk(q.arg)   ->
             Answer("values", Values(Id[q.arg], q.cmd))
      [] OTHER                     -> INVALID

(* Fault: a command is passed on before its desk is checked. *)
ToBoardsUnchecked(q) == q.type \in {"r", "A", "D", "s"}

(* What startWriteSerial passes on to the boards. *)
ToBoards(q) == q.type \in {"r", "A", "D"} \/ Settable(q)

(* The streams of a session, <<desk, variable>>, after a request. *)
Streams(q, flags) ==
    IF q.type = "r" THEN {}
    ELSE IF ~Streamable(q) THEN flags
    ELSE IF q.type = "c" THEN flags \cup {<<Id[q.arg], q.cmd>>}
    ELSE flags \ {<<Id[q.arg], q.cmd>>}

-----------------------------------------------------------------------------
(* A packet of desk d: its entry is stamped now, or, if it raced with a     *)
(* reset and is the first of its log, ahead of now.                         *)
Insert(d) ==
    /\ Total([e \in Desk |-> Len(entries[e])]) < MaxEntries
    /\ \E e \in Entry, r \in Other :
         /\ e.time = now \/ (e.time > now /\ restarted /\ Empty(d))
         /\ entries' = [entries EXCEPT ![d] = Append(@, e)]
         /\ reports' = [reports EXCEPT ![d] = r]
    /\ UNCHANGED <<now, restarted>>

Tick == now < MaxTime /\ now' = now + 1 /\ UNCHANGED <<entries, reports, restarted>>

(* The one request that changes this state: System::reset. *)
Reset ==
    /\ now' = 0
    /\ entries' = [d \in Desk |-> <<>>]
    /\ reports' = [d \in Desk |-> 0]
    /\ restarted' = TRUE

Next == (\E d \in Desk : Insert(d)) \/ Tick \/ Reset

Spec == Init /\ [][Next]_vars

-----------------------------------------------------------------------------
(* Properties. *)

(* The first entry of the log is not ahead of its second one. *)
InOrder(d) == Len(entries[d]) > 1 => entries[d][1].time <= entries[d][2].time

(* The duty cycle in effect at time t: that of the last entry by then. *)
DutyAt(d, t) ==
    entries[d][CHOOSE i \in DOMAIN entries[d] :
                 /\ entries[d][i].time <= t
                 /\ i = Len(entries[d]) \/ entries[d][i + 1].time > t].duty

(* The energy of a desk is the sum, over the milliseconds from its first   *)
(* entry to its last, of the duty cycle in effect, whichever entries were  *)
(* stamped in the same millisecond (energyNode); a first entry that a      *)
(* reset has left ahead of the others is the one exception.                *)
EnergyIsIntegral ==
    \A d \in Desk : ~Empty(d) /\ InOrder(d) =>
        EnergyNode(d) = Total([t \in entries[d][1].time .. Latest(d).time - 1 |-> DutyAt(d, t)])

(* As long as the minute before now is below half of the unsigned range,   *)
(* the 24 days and 20 hours of a signed long; from then on it counts as    *)
(* negative, which parseRequest takes for the first minute.                *)
MinuteIsSigned == now < Minute + Modulus \div 2

(* The answer to "b" is the end of the log that lies in the last minute,   *)
(* all of it and in order: what is left out is older, and what is returned *)
(* is not, until the minute before now turns negative and the whole log is *)
(* returned.  A reset may have left the first entry ahead of the others,   *)
(* which is excepted; while it is alone and ahead of now, it is left out   *)
(* (parseRequest, getValuesInPeriod).                                      *)
LastMinuteIsRun ==
    \A d \in Desk : InOrder(d) =>
        \E i \in 1 .. Len(entries[d]) + 1 :
            /\ InPeriod(d) = SubSeq(entries[d], i, Len(entries[d]))
            /\ \A j \in 1 .. i - 1 : \/ entries[d][j].time + Minute < now
                                    \/ entries[d][j].time > now
            /\ \A j \in i .. Len(entries[d]) :
                  /\ entries[d][j].time <= now
                  /\ entries[d][j].time + Minute >= now \/ ~MinuteIsSigned

(* The totals agree on what is known: that of the power is -1 exactly when *)
(* those of the comfort are not a number, when a desk has not reported     *)
(* since the last reset; otherwise it counts each unit of the duty cycle   *)
(* of each desk once (getPower, getComfortError, getComfortVariance).      *)
TotalsAgree ==
    /\ IsNaN(TotalError) <=> TotalPower = -1
    /\ IsNaN(TotalVariance) <=> TotalPower = -1
    /\ TotalPower # -1 =>
         TotalPower = Cardinality(UNION {{d} \X (1 .. Latest(d).duty) : d \in Desk})

(* A request that is answered as invalid has no effect, and one that names *)
(* a desk that does not exist is: nothing reaches the boards, which would  *)
(* send it to an address of theirs, and no stream changes (parseRequest).  *)
(* Which requests are invalid does not depend on the state of the logs.    *)
RefusedHasNoEffect ==
    (now = 0 /\ \A d \in Desk : Empty(d)) =>
        \A q \in Query :
            /\ Response(q) = INVALID =>
                 ~ToBoards(q) /\ \A d \in Desk, v \in {"l", "d"} : Streams(q, {<<d, v>>}) = {<<d, v>>}
            /\ q.type = "s" /\ ToBoards(q) => \E d \in Desk : q.cmd = ToString(d)
=============================================================================
