------------------------- MODULE ControlLoopProofs --------------------------
(***************************************************************************)
(* The controller's safety properties, for every gain, every limit of the  *)
(* lamp and every range of illuminances.                                   *)
(***************************************************************************)
EXTENDS ControlLoop, TLAPS

(* The inductive invariant.  The output variable is always what the        *)
(* controller asked for last, saturated, whether the controller saturated  *)
(* it itself or writeToLed clipped it; and as long as anti-windup was      *)
(* never off, so is what the controller keeps of it: both for as long as   *)
(* that is a number.  The factor of the feedforward is one that the        *)
(* history knows of.                                                       *)
IInv ==
    /\ TypeOK
    /\ board = "multiple" => controller.antiwindup
    /\ controller.number => out = ApplySaturation(controller.u)
    /\ lamp \in {0, out}
    /\ controller.err \in -MaxLux .. MaxLux /\ controller.b \in BFF .. MaxLux
    /\ controller.ff \in -steepest .. steepest
    /\ loose = 0 /\ controller.number => controller.usat = ApplySaturation(controller.u)
    /\ WindupBounded

-----------------------------------------------------------------------------
(* Arithmetic. *)

LEMMA ProductIsNat == ASSUME NEW k \in Nat, NEW m \in Nat PROVE k * m \in Nat
  BY SMT

LEMMA ProductBounded ==
  ASSUME NEW k \in Nat, NEW m \in Nat, NEW x \in -m .. m
  PROVE  k * x \in -(k * m) .. k * m
  <1>1. k * (m - x) \in Nat /\ k * (m + x) \in Nat
    <2>1. m - x \in Nat /\ m + x \in Nat
      OBVIOUS
    <2> QED
      BY <2>1, ProductIsNat
  <1>2. k * (m - x) = k * m - k * x /\ k * (m + x) = k * m + k * x
    BY SMT
  <1> QED
    BY <1>1, <1>2, SMT

(* The same for two factors of any sign. *)
LEMMA FactorsBounded ==
  ASSUME NEW s \in Nat, NEW f \in -s .. s, NEW m \in Nat, NEW x \in -m .. m
  PROVE  f * x \in -(s * m) .. s * m
  <1>1. PICK g \in 0 .. s : g = f \/ g = -f
    <2>1. f \in 0 .. s \/ -f \in 0 .. s
      BY SMT
    <2> QED
      BY <2>1
  <1>2. (s - g) * m \in Nat /\ (s - g) * m = s * m - g * m
    <2>1. s - g \in Nat
      BY <1>1
    <2>2. (s - g) * m = s * m - g * m
      BY <1>1, SMT
    <2> QED
      BY <2>1, <2>2, ProductIsNat
  <1>3. g * x \in -(g * m) .. g * m
    BY <1>1, ProductBounded
  <1>4. g * m \in Int /\ s * m \in Int /\ g * x \in Int /\ f * x \in Int
    BY <1>1, SMT
  <1>5. f * x = g * x \/ f * x = -(g * x)
    <2>1. CASE g = f
      BY <2>1
    <2>2. CASE g = -f
      <3>1. (-f) * x = -(f * x)
        BY SMT
      <3> QED
        BY <1>4, <2>2, <3>1, SMT
    <2> QED
      BY <1>1, <2>1, <2>2
  <1> QED
    BY <1>2, <1>3, <1>4, <1>5, SMT

(* Half of the excess is taken back, and what is added otherwise is        *)
(* bounded: so is the excess.                                              *)
LEMMA ExcessBounded ==
  ASSUME NEW lo \in Int, NEW hi \in Int, lo <= hi, NEW P \in Nat, NEW I \in Nat,
         NEW p \in -P .. P, NEW q \in -P .. P, NEW a \in -I .. I,
         NEW u \in lo - 4 * P - 2 * I - 2 .. hi + 4 * P + 2 * I + 2,
         NEW s \in Int, s = IF u > hi THEN hi ELSE IF u < lo THEN lo ELSE u
  PROVE  q + (u - p + a + (s - u) \div 2)
           \in lo - 4 * P - 2 * I - 2 .. hi + 4 * P + 2 * I + 2
  <1>1. (s - u) \div 2 \in Int
    BY SMT
  <1>2. 2 * ((s - u) \div 2) <= s - u /\ s - u <= 2 * ((s - u) \div 2) + 1
    BY SMT
  <1> DEFINE h == (s - u) \div 2
  <1> HIDE DEF h
  <1>3. h \in Int /\ 2 * h <= s - u /\ s - u <= 2 * h + 1
    BY <1>1, <1>2 DEF h
  <1>4. q + (u - p + a + h) \in lo - 4 * P - 2 * I - 2 .. hi + 4 * P + 2 * I + 2
    <2>1. CASE u > hi
      BY <2>1, <1>3, SMT
    <2>2. CASE u < lo
      BY <2>2, <1>3, SMT
    <2>3. CASE u \in lo .. hi
      BY <2>3, <1>3, SMT
    <2> QED
      BY <2>1, <2>2, <2>3
  <1> QED
    BY <1>4 DEF h

(* The error of an update is within the range of the illuminances, and so  *)
(* are the proportional term and what is added to the integral.            *)
LEMMA ErrorBounded ==
  ASSUME NEW c \in Controller, NEW y \in 0 .. MaxLux, NEW r \in 0 .. MaxLux
  PROVE  Error(c, y, r) \in -MaxLux .. MaxLux
  BY LuxAssumption, LimitsAssumption, SMT DEF Error, ApplyDeadzone

LEMMA PMaxType ==
  ASSUME steepest \in Nat
  PROVE  PMax \in Nat /\ IMax \in Nat /\ MaxLux - BFF \in Nat
  <1>1. MaxLux - BFF \in Nat
    BY FeedForwardAssumption, LuxAssumption, SMT
  <1>2. KP * MaxLux \in Nat /\ steepest * (MaxLux - BFF) \in Nat /\ K2 * MaxLux \in Nat
    BY <1>1, ProductIsNat, GainsAssumption, LuxAssumption
  <1> QED
    BY <1>1, <1>2, SMT DEF PMax, IMax

(* A new slope can only add to what the proportional term may amount to. *)
LEMMA PMaxGrows ==
  ASSUME steepest \in Nat, steepest' \in Nat, steepest' >= steepest
  PROVE  PMax' \in Nat /\ PMax' >= PMax /\ IMax' = IMax
  <1> DEFINE s == steepest
             t == steepest'
             m == MaxLux - BFF
  <1>1. m \in Nat /\ t - s \in Nat
    <2>1. s \in Nat /\ t \in Nat /\ t >= s
      OBVIOUS
    <2>2. t - s \in Nat
      <3> HIDE DEF s, t
      <3> QED
        BY <2>1
    <2> QED
      BY <2>2, PMaxType
  <1>2. (t - s) * m \in Nat /\ s * m \in Nat /\ t * m \in Nat /\ KP * MaxLux \in Nat
    BY <1>1, ProductIsNat, GainsAssumption, LuxAssumption
  <1> HIDE DEF m
  <1>3. (t - s) * m = t * m - s * m
    BY <1>1, SMT
  <1>4. t * m >= s * m
    BY <1>2, <1>3, SMT
  <1>5. PMax = KP * MaxLux + s * m /\ PMax' = KP * MaxLux + t * m /\ IMax' = IMax
    BY DEF PMax, IMax, m
  <1> HIDE DEF s, t
  <1> QED
    BY <1>2, <1>4, <1>5, SMT

LEMMA ProportionalBounded ==
  ASSUME steepest \in Nat,
         NEW c \in Controller, c.b \in BFF .. MaxLux, c.ff \in -steepest .. steepest,
         NEW y \in 0 .. MaxLux, NEW r \in 0 .. MaxLux
  PROVE  Proportional(c, y, r) \in -PMax .. PMax
  <1>1. KP * Error(c, y, r) \in -(KP * MaxLux) .. KP * MaxLux
    BY ErrorBounded, ProductBounded, GainsAssumption, LuxAssumption
  <1>2. c.ff * (r - c.b) \in -(steepest * (MaxLux - BFF)) .. steepest * (MaxLux - BFF)
    <2>1. r - c.b \in -(MaxLux - BFF) .. MaxLux - BFF
      BY LuxAssumption, FeedForwardAssumption, SMT
    <2>2. MaxLux - BFF \in Nat
      BY PMaxType
    <2> QED
      BY <2>1, <2>2, FactorsBounded
  <1>3. KP * MaxLux \in Nat /\ steepest * (MaxLux - BFF) \in Nat
    BY PMaxType, ProductIsNat, GainsAssumption, LuxAssumption
  <1>4. Proportional(c, y, r) =
          KP * Error(c, y, r) + (IF c.feedforward THEN c.ff * (r - c.b) ELSE 0)
    BY DEF Proportional
  <1> DEFINE k == KP * Error(c, y, r)
             f == c.ff * (r - c.b)
             a == KP * MaxLux
             b == steepest * (MaxLux - BFF)
  <1>5. k \in -a .. a /\ f \in -b .. b /\ a \in Nat /\ b \in Nat
    BY <1>1, <1>2, <1>3
  <1>6. PMax = a + b /\ Proportional(c, y, r) = k + (IF c.feedforward THEN f ELSE 0)
    BY <1>4 DEF PMax
  <1> HIDE DEF k, f, a, b
  <1>7. k + f \in -(a + b) .. a + b /\ k + 0 \in -(a + b) .. a + b
    BY <1>5, SMT
  <1> QED
    BY <1>6, <1>7

LEMMA StepBounded ==
  ASSUME NEW e \in -MaxLux .. MaxLux, NEW f \in -MaxLux .. MaxLux
  PROVE  K2 * (e + f) \in -IMax .. IMax
  <1>1. K2 * e \in -(K2 * MaxLux) .. K2 * MaxLux /\ K2 * f \in -(K2 * MaxLux) .. K2 * MaxLux
    BY ProductBounded, GainsAssumption, LuxAssumption
  <1>2. K2 * (e + f) = K2 * e + K2 * f
    BY GainsAssumption, LuxAssumption, SMT
  <1>3. K2 * MaxLux \in Nat
    BY ProductIsNat, GainsAssumption, LuxAssumption
  <1> QED
    BY <1>1, <1>2, <1>3, SMT DEF IMax

-----------------------------------------------------------------------------
(* What is saturated is within the limits, and both boards write it to the *)
(* lamp as it is; the board on its own saturates what it is given.         *)
LEMMA Saturates ==
  ASSUME NEW x \in Int
  PROVE  /\ ApplySaturation(x) \in 0 .. MaxOut
         /\ ApplySaturation(ApplySaturation(x)) = ApplySaturation(x)
         /\ Clipped(x) = ApplySaturation(x)
         /\ Wrapped(ApplySaturation(x)) = ApplySaturation(x)
  BY LimitsAssumption, LampAssumption, SMT DEF ApplySaturation, Clipped, Wrapped, MaxOut

(* An update, with the terms that it adds up if they are numbers.          *)
LEMMA UpdateTerms ==
  ASSUME steepest \in Nat,
         NEW c \in Controller, NEW y \in 0 .. MaxLux, NEW r \in 0 .. MaxLux,
         c.err \in -MaxLux .. MaxLux, c.b \in BFF .. MaxLux, c.ff \in -steepest .. steepest
  PROVE  LET d == Update(c, y, r) IN
         /\ d \in Controller
         /\ d.err \in -MaxLux .. MaxLux /\ d.b = c.b /\ d.ff = c.ff
         /\ d.antiwindup = c.antiwindup
         /\ d.number => c.number /\ d.u - d.i \in -PMax .. PMax
         /\ d.number /\ c.antiwindup =>
              /\ d.usat = ApplySaturation(d.u) /\ Output(c, y, r) = ApplySaturation(d.u)
              /\ \E a \in -IMax .. IMax :
                   d.u = (d.u - d.i) + (c.i + a + (c.usat - c.u) \div 2)
         /\ d.number /\ ~c.antiwindup => Output(c, y, r) = d.u
  <1> DEFINE e == Error(c, y, r)
             p == Proportional(c, y, r)
             i == Integral(c, y, r)
             d == Update(c, y, r)
  <1>1. e \in -MaxLux .. MaxLux /\ p \in -PMax .. PMax
    BY ErrorBounded, ProportionalBounded
  <1>2. K2 * (e + c.err) \in -IMax .. IMax
    BY <1>1, StepBounded
  <1>3. e \in Int /\ p \in Int /\ K2 * (e + c.err) \in Int
    BY <1>1, <1>2, PMaxType, LuxAssumption, SMT
  <1>4. CASE Diverges(c)
    <2>1. d = [c EXCEPT !.err = e, !.number = FALSE]
      BY <1>4 DEF Update
    <2> HIDE DEF d, e
    <2>2. d \in Controller /\ d.err = e /\ d.b = c.b /\ d.ff = c.ff
          /\ d.antiwindup = c.antiwindup /\ ~d.number
      BY <1>3, <2>1 DEF Controller
    <2> QED
      BY <1>1, <2>2 DEF d
  <1>5. CASE ~Diverges(c)
    <2>1. (c.usat - c.u) \div 2 \in Int
      BY SMT DEF Controller
    <2>2. i = c.i + K2 * (e + c.err) + (IF c.antiwindup THEN (c.usat - c.u) \div 2 ELSE 0)
      BY DEF Integral
    <2>3. i \in Int
      BY <1>3, <2>1, <2>2, SMT DEF Controller
    <2>4. p + i \in Int /\ c.usat \in Int /\ ApplySaturation(p + i) \in Int
      BY <1>3, <2>3, LimitsAssumption, SMT DEF Controller, ApplySaturation
    <2> DEFINE s == IF c.antiwindup THEN ApplySaturation(p + i) ELSE c.usat
    <2>5. s \in Int
      BY <2>4
    <2>6. d = [c EXCEPT !.err = e, !.i = i, !.u = p + i, !.usat = s]
      BY <1>5 DEF Update, Unsaturated, Output
    <2>7. Output(c, y, r) = IF c.antiwindup THEN ApplySaturation(p + i) ELSE p + i
      BY DEF Output, Unsaturated
    <2>8. c.number
      BY <1>5 DEF Diverges
    <2> HIDE DEF e, p, i, d, s
    <2>9. /\ d \in Controller
          /\ d.err = e /\ d.i = i /\ d.u = p + i /\ d.usat = s
          /\ d.b = c.b /\ d.ff = c.ff /\ d.antiwindup = c.antiwindup
      BY <1>3, <2>3, <2>4, <2>5, <2>6 DEF Controller
    <2>10. d.u - d.i = p
      BY <1>3, <2>3, <2>9, SMT
    <2>11. c.antiwindup =>
             d.u = (d.u - d.i) + (c.i + K2 * (e + c.err) + (c.usat - c.u) \div 2)
      BY <2>2, <2>9, <2>10
    <2>12. c.antiwindup => d.usat = ApplySaturation(d.u)
      BY <2>9 DEF s
    <2> QED
      BY <1>1, <1>2, <2>7, <2>8, <2>9, <2>10, <2>11, <2>12 DEF d
  <1> QED
    BY <1>4, <1>5

-----------------------------------------------------------------------------
(* The invariant is inductive. *)

LEMMA InitIInv == Init => IInv
  <1> SUFFICES ASSUME Init PROVE IInv
    OBVIOUS
  <1>1. /\ controller = New(TRUE, TRUE, TRUE)
        /\ New(TRUE, TRUE, TRUE) \in Controller
    BY FeedForwardAssumption DEF Init, New, Controller
  <1>2. /\ controller.err = 0 /\ controller.i = 0 /\ controller.u = 0
        /\ controller.usat = 0 /\ controller.antiwindup
        /\ controller.b = BFF /\ controller.ff = FF0
    BY <1>1 DEF New
  <1>3. ApplySaturation(0) = 0 /\ 0 \in 0 .. MaxOut
    BY LampAssumption, LimitsAssumption, SMT DEF ApplySaturation, MaxOut
  <1>4. TypeOK
    <2>1. 0 \in 0 .. MaxLoose /\ 0 \in Nat /\ Abs(FF0) \in Nat
      BY LuxAssumption, FeedForwardAssumption, SMT DEF Abs
    <2>2. controller \in Controller
      BY <1>1
    <2> QED
      BY <1>3, <2>1, <2>2 DEF Init, TypeOK
  <1>5. /\ 0 \in -MaxLux .. MaxLux /\ BFF \in BFF .. MaxLux
        /\ FF0 \in -steepest .. steepest /\ steepest \in Nat
    BY LuxAssumption, FeedForwardAssumption, SMT DEF Init, Abs
  <1>6. WindupBounded
    <2>1. /\ 0 \in SatMin - 4 * PMax - 2 * IMax - 2 .. SatMax + 4 * PMax + 2 * IMax + 2
          /\ 0 - 0 \in -PMax .. PMax
      BY <1>5, PMaxType, LimitsAssumption, LampAssumption, SMT
    <2> QED
      BY <1>2, <2>1 DEF WindupBounded
  <1> QED
    BY <1>2, <1>3, <1>4, <1>5, <1>6 DEF Init, IInv

LEMMA ReadableInRange ==
  ASSUME TypeOK, NEW r \in Readable
  PROVE  r \in 0 .. MaxLux
  BY LuxAssumption DEF TypeOK, Readable

LEMMA InterruptIInv ==
  ASSUME IInv, NEW y \in Lux, NEW r \in Readable, Interrupt(y, r)
  PROVE  IInv'
  <1>1. y \in 0 .. MaxLux /\ r \in 0 .. MaxLux
    BY LuxAssumption, ReadableInRange DEF IInv
  <1> DEFINE c == controller
             d == controller'
  <1>2. /\ c \in Controller /\ c.err \in -MaxLux .. MaxLux /\ c.b \in BFF .. MaxLux
        /\ c.ff \in -steepest .. steepest /\ steepest \in Nat /\ steepest' = steepest
        /\ d = Update(c, y, r)
    BY DEF IInv, TypeOK, Interrupt
  <1>3. /\ d \in Controller
        /\ d.err \in -MaxLux .. MaxLux /\ d.b = c.b /\ d.ff = c.ff
        /\ d.antiwindup = c.antiwindup
        /\ d.number => c.number /\ d.u - d.i \in -PMax .. PMax
        /\ d.number /\ c.antiwindup =>
             /\ d.usat = ApplySaturation(d.u) /\ Output(c, y, r) = ApplySaturation(d.u)
             /\ \E a \in -IMax .. IMax :
                  d.u = (d.u - d.i) + (c.i + a + (c.usat - c.u) \div 2)
        /\ d.number /\ ~c.antiwindup => Output(c, y, r) = d.u
    <2>1. LET v == Update(c, y, r) IN
          /\ v \in Controller
          /\ v.err \in -MaxLux .. MaxLux /\ v.b = c.b /\ v.ff = c.ff
          /\ v.antiwindup = c.antiwindup
          /\ v.number => c.number /\ v.u - v.i \in -PMax .. PMax
          /\ v.number /\ c.antiwindup =>
               /\ v.usat = ApplySaturation(v.u) /\ Output(c, y, r) = ApplySaturation(v.u)
               /\ \E a \in -IMax .. IMax :
                    v.u = (v.u - v.i) + (c.i + a + (c.usat - c.u) \div 2)
          /\ v.number /\ ~c.antiwindup => Output(c, y, r) = v.u
      BY <1>1, <1>2, UpdateTerms, Zenon
    <2> QED
      BY <1>2, <2>1, Zenon
  <1>4. c.u \in Int /\ c.i \in Int /\ c.antiwindup \in BOOLEAN /\ d.u \in Int
    <2>1. c \in Controller /\ d \in Controller
      BY <1>2, <1>3
    <2> HIDE DEF c, d
    <2> QED
      BY <2>1 DEF Controller
  <1>5. board' = board /\ board \in {"single", "multiple"}
    BY DEF Interrupt, IInv, TypeOK
  <1>6. d.number => out' = ApplySaturation(d.u)
    <2> SUFFICES ASSUME d.number PROVE out' = ApplySaturation(d.u)
      OBVIOUS
    <2>1. out' = WriteToLed(Output(c, y, r))
      BY DEF Interrupt
    <2>2. CASE c.antiwindup
      BY <2>1, <2>2, <1>3, <1>4, Saturates DEF WriteToLed
    <2>3. CASE ~c.antiwindup
      <3>1. board = "single"
        BY <2>3, <1>5 DEF IInv
      <3> QED
        BY <2>1, <2>3, <3>1, <1>3, <1>4, Saturates DEF WriteToLed
    <2> QED
      BY <2>2, <2>3
  <1>7. out' \in 0 .. MaxOut /\ lamp' = out'
    <2>1. 0 \in 0 .. MaxOut /\ MaxOut \in 0 .. MaxOut
      BY LimitsAssumption, LampAssumption, SMT DEF MaxOut
    <2>2. ~d.number => out' \in {0, MaxOut}
      BY DEF Interrupt
    <2>3. d.number => out' \in 0 .. MaxOut
      BY <1>4, <1>6, Saturates
    <2> QED
      BY <2>1, <2>2, <2>3 DEF Interrupt
  <1>8. /\ loose' \in 0 .. MaxLoose /\ excess' \in Nat
        /\ loose' = 0 => loose = 0 /\ c.antiwindup
    <2>1. loose \in 0 .. MaxLoose /\ excess \in Nat /\ MaxLoose \in Nat
      BY LuxAssumption DEF IInv, TypeOK
    <2>2. loose' = IF c.antiwindup THEN loose ELSE loose + 1
      BY DEF Interrupt
    <2>3. c.antiwindup \/ loose < MaxLoose
      BY DEF Interrupt
    <2>4. excess' = excess + 1 \/ excess' = 0
      BY DEF Interrupt
    <2>5. CASE c.antiwindup
      BY <2>1, <2>2, <2>4, <2>5, SMT
    <2>6. CASE ~c.antiwindup
      BY <2>1, <2>2, <2>3, <2>4, <2>6, SMT
    <2> QED
      BY <2>5, <2>6
  <1>9. TypeOK'
    BY <1>2, <1>3, <1>5, <1>7, <1>8 DEF Interrupt, IInv, TypeOK, MaxOut
  <1>10. board' = "multiple" => d.antiwindup
    BY <1>3, <1>5 DEF IInv
  <1>11. WindupBounded'
    <2> SUFFICES ASSUME loose' = 0, d.number
                 PROVE  /\ d.u \in SatMin - 4 * PMax - 2 * IMax - 2
                                     .. SatMax + 4 * PMax + 2 * IMax + 2
                        /\ d.u - d.i \in -PMax .. PMax
      BY <1>2 DEF WindupBounded, PMax, IMax
    <2>1. /\ c.u \in SatMin - 4 * PMax - 2 * IMax - 2 .. SatMax + 4 * PMax + 2 * IMax + 2
          /\ c.u - c.i \in -PMax .. PMax
          /\ c.usat = ApplySaturation(c.u) /\ c.antiwindup
      BY <1>3, <1>8 DEF IInv, WindupBounded
    <2>2. PICK a \in -IMax .. IMax :
            d.u = (d.u - d.i) + (c.i + a + (c.usat - c.u) \div 2)
      BY <1>3, <2>1
    <2>3. c.i = c.u - (c.u - c.i)
      BY <1>4, SMT
    <2>4. c.usat \in Int /\ c.usat = IF c.u > SatMax THEN SatMax
                                     ELSE IF c.u < SatMin THEN SatMin ELSE c.u
      BY <1>2, <2>1 DEF ApplySaturation, Controller
    <2> DEFINE p == c.u - c.i
               q == d.u - d.i
               u == c.u
               s == c.usat
    <2>5. p \in -PMax .. PMax /\ q \in -PMax .. PMax
      BY <2>1, <1>3
    <2> HIDE DEF p, q, u, s
    <2>6. q + (u - p + a + (s - u) \div 2)
            \in SatMin - 4 * PMax - 2 * IMax - 2 .. SatMax + 4 * PMax + 2 * IMax + 2
      <3>1. u \in SatMin - 4 * PMax - 2 * IMax - 2 .. SatMax + 4 * PMax + 2 * IMax + 2
        BY <2>1 DEF u
      <3>2. s \in Int /\ s = IF u > SatMax THEN SatMax ELSE IF u < SatMin THEN SatMin ELSE u
        BY <2>4 DEF s, u
      <3> QED
        BY <1>2, <2>5, <3>1, <3>2, PMaxType, LimitsAssumption, ExcessBounded
    <2> QED
      BY <2>2, <2>3, <2>6, <1>3 DEF p, q, u, s
  <1>12. /\ lamp' \in {0, out'} /\ controller'.b \in BFF .. MaxLux
         /\ controller'.ff \in -steepest' .. steepest'
    BY <1>2, <1>3, <1>7
  <1>13. loose' = 0 /\ controller'.number => controller'.usat = ApplySaturation(controller'.u)
    BY <1>3, <1>8
  <1> HIDE DEF c, d
  <1>14. /\ controller'.err \in -MaxLux .. MaxLux
         /\ controller'.number => out' = ApplySaturation(controller'.u)
    BY <1>3, <1>6 DEF d
  <1>15. board' = "multiple" => controller'.antiwindup
    BY <1>10 DEF d
  <1> QED
    BY <1>9, <1>11, <1>12, <1>13, <1>14, <1>15 DEF IInv, ApplySaturation

(* What the other steps leave alone is enough for the rest of IInv. *)
LEMMA QuietIInv ==
  ASSUME IInv, TypeOK', UNCHANGED <<board, out, loose>>,
         lamp' \in {0, out},
         /\ controller'.u = controller.u /\ controller'.i = controller.i
         /\ controller'.usat = controller.usat /\ controller'.err = controller.err
         /\ controller'.number = controller.number,
         controller'.b \in BFF .. MaxLux,
         steepest' >= steepest /\ controller'.ff \in -steepest' .. steepest',
         board = "multiple" => controller'.antiwindup
  PROVE  IInv'
  <1>1. /\ steepest \in Nat /\ steepest' \in Nat
        /\ controller.u \in Int /\ controller.i \in Int
    BY DEF IInv, TypeOK, Controller
  <1>2. PMax \in Nat /\ PMax' \in Nat /\ PMax' >= PMax /\ IMax \in Nat /\ IMax' = IMax
    BY <1>1, PMaxType, PMaxGrows
  <1>3. WindupBounded'
    <2> SUFFICES ASSUME loose = 0, controller.number
                 PROVE  /\ controller.u \in SatMin - 4 * PMax' - 2 * IMax - 2
                                           .. SatMax + 4 * PMax' + 2 * IMax + 2
                        /\ controller.u - controller.i \in -PMax' .. PMax'
      BY <1>2 DEF WindupBounded
    <2>1. /\ controller.u \in SatMin - 4 * PMax - 2 * IMax - 2
                              .. SatMax + 4 * PMax + 2 * IMax + 2
          /\ controller.u - controller.i \in -PMax .. PMax
      BY DEF IInv, WindupBounded
    <2> QED
      BY <1>1, <1>2, <2>1, LimitsAssumption, SMT
  <1> QED
    BY <1>3 DEF IInv, ApplySaturation

LEMMA MainIInv ==
  ASSUME IInv, Main
  PROVE  IInv'
  <1>0. steepest \in Nat /\ steepest >= steepest
    BY DEF IInv, TypeOK
  <1>1. controller \in Controller /\ out \in 0 .. MaxOut /\ lamp \in {0, out}
    BY DEF IInv, TypeOK
  <1>2. ASSUME NEW r \in Ref, BeginWrite(r) PROVE IInv'
    <2>1. TypeOK'
      BY <1>2 DEF BeginWrite, IInv, TypeOK, MaxOut
    <2> QED
      BY <1>0, <1>2, <2>1, QuietIInv DEF BeginWrite, IInv
  <1>3. ASSUME NEW r \in Ref, EndConsensus(r) PROVE IInv'
    <2>1. TypeOK'
      BY <1>3 DEF EndConsensus, IInv, TypeOK, MaxOut
    <2> QED
      BY <1>0, <1>3, <2>1, QuietIInv DEF EndConsensus, IInv
  <1>4. CASE EndWrite
    <2>1. TypeOK'
      BY <1>4 DEF EndWrite, IInv, TypeOK, MaxOut
    <2> QED
      BY <1>0, <1>4, <2>1, QuietIInv DEF EndWrite, IInv
  <1>5. CASE BeginConsensus
    <2>1. TypeOK'
      BY <1>5 DEF BeginConsensus, IInv, TypeOK, MaxOut
    <2> QED
      BY <1>0, <1>5, <2>1, QuietIInv DEF BeginConsensus, IInv
  <1>6. CASE BeginCalibration
    <2>1. TypeOK'
      <3>1. 0 \in 0 .. MaxOut
        BY LampAssumption, LimitsAssumption, SMT DEF MaxOut
      <3> QED
        BY <1>6, <3>1 DEF BeginCalibration, IInv, TypeOK, MaxOut
    <2> QED
      BY <1>0, <1>6, <2>1, QuietIInv DEF BeginCalibration, IInv
  <1>7. ASSUME NEW o \in Lux, NEW flat \in BOOLEAN, NEW k \in Int, EndCalibration(flat, k, o)
        PROVE  IInv'
    <2>1. /\ controller' = [controller EXCEPT !.flat = flat, !.ff = k, !.b = o]
          /\ o \in Int /\ o \in BFF .. MaxLux
      BY <1>7, LuxAssumption, FeedForwardAssumption, SMT DEF EndCalibration, UpdateFeedForward
    <2>2. /\ controller' \in Controller
          /\ controller'.u = controller.u /\ controller'.i = controller.i
          /\ controller'.usat = controller.usat /\ controller'.err = controller.err
          /\ controller'.number = controller.number
          /\ controller'.antiwindup = controller.antiwindup
          /\ controller'.b = o /\ controller'.ff = k
      BY <1>1, <2>1 DEF Controller
    <2>3. steepest' \in Nat /\ steepest' >= steepest /\ k \in -steepest' .. steepest'
      BY <1>0, <1>7, SMT DEF EndCalibration, Abs
    <2>4. TypeOK'
      BY <1>7, <2>2, <2>3 DEF EndCalibration, IInv, TypeOK, MaxOut
    <2> QED
      BY <1>7, <2>1, <2>2, <2>3, <2>4, QuietIInv DEF EndCalibration, IInv
  <1>8. ASSUME NEW on \in BOOLEAN,
               UseFeedforward(on) \/ UseErrorDeadzone(on) \/ UseAntiWindup(on)
        PROVE  IInv'
    <2>1. /\ controller' \in Controller
          /\ controller'.u = controller.u /\ controller'.i = controller.i
          /\ controller'.usat = controller.usat /\ controller'.err = controller.err
          /\ controller'.number = controller.number
          /\ controller'.b = controller.b /\ controller'.ff = controller.ff
      BY <1>1, <1>8 DEF UseFeedforward, UseErrorDeadzone, UseAntiWindup, Controller
    <2>2. /\ board = "single"
          /\ UNCHANGED <<board, state, ref, goal, writing, out, lamp, loose, excess, steepest>>
      BY <1>8 DEF UseFeedforward, UseErrorDeadzone, UseAntiWindup
    <2>3. TypeOK'
      BY <2>1, <2>2 DEF IInv, TypeOK, MaxOut
    <2> QED
      BY <1>0, <2>1, <2>2, <2>3, QuietIInv DEF IInv
  <1>9. Factors \subseteq Int /\ 0 \in Int
    BY LuxAssumption
  <1> QED
    BY <1>2, <1>3, <1>4, <1>5, <1>6, <1>7, <1>8, <1>9 DEF Main

LEMMA StutterIInv ==
  ASSUME IInv, UNCHANGED vars
  PROVE  IInv'
  <1>1. TypeOK'
    BY DEF IInv, TypeOK, MaxOut, vars
  <1>2. steepest >= steepest
    BY DEF IInv, TypeOK
  <1> QED
    BY <1>1, <1>2, QuietIInv DEF IInv, vars

(* The inductive invariant holds in every state of the control loop (every *)
(* action of main.ino and of its interrupt keeps it).                      *)
THEOREM Inductive == Spec => []IInv
  <1>1. IInv /\ [Next]_vars => IInv'
    BY InterruptIInv, MainIInv, StutterIInv DEF Next
  <1> QED
    BY InitIInv, <1>1, PTL DEF Spec

-----------------------------------------------------------------------------
(* The properties. *)

(* The lamp and the reported output stay within eight bits, whatever the   *)
(* gains are and whatever the main program interrupts (writeToLed).        *)
THEOREM ControlTypes == Spec => []TypeOK
  BY Inductive, PTL DEF IInv

(* The lamp never goes to the wrong end (writeToLed, applySaturation).     *)
THEOREM LampNotInverted == Spec => []NeverInverted
  <1>1. IInv => NeverInverted
    <2> SUFFICES ASSUME IInv PROVE NeverInverted
      OBVIOUS
    <2>1. /\ controller.u \in Int /\ lamp \in {0, out}
          /\ controller.number => out = ApplySaturation(controller.u)
      BY DEF IInv, TypeOK, Controller
    <2> QED
      BY <2>1, LampAssumption, LimitsAssumption, SMT
         DEF NeverInverted, ApplySaturation, MaxOut
  <1> QED
    BY <1>1, Inductive, PTL

(* Anti-windup always acts against the excess (Controller::update).        *)
THEOREM AntiWindupPullsBack == Spec => []PullsBack
  <1>1. IInv => PullsBack
    <2> SUFFICES ASSUME IInv, loose = 0, controller.number PROVE PullsBack
      BY DEF PullsBack
    <2>1. controller.u \in Int /\ controller.usat = ApplySaturation(controller.u)
      BY DEF IInv, TypeOK, Controller
    <2> QED
      BY <2>1, LimitsAssumption, SMT DEF PullsBack, ApplySaturation
  <1> QED
    BY <1>1, Inductive, PTL

(* The integral stays within bounds that do not depend on time, however    *)
(* long the lamp is at its limit (Controller::update).                     *)
THEOREM IntegralBounded == Spec => []WindupBounded
  BY Inductive, PTL DEF IInv

(* At rest in the dead zone the lamp does not flicker (applyDeadzone).     *)
THEOREM NoFlicker == Spec => RestInDeadzone
  <1> DEFINE Rest ==
        /\ \E y \in Lux : Interrupt(y, ref) /\ ref - y \in -DeadZone .. DeadZone
        /\ controller'.number
        /\ controller.deadzone /\ controller.antiwindup /\ loose = 0
        /\ controller.err = 0 /\ controller.u = controller.usat
        /\ controller.u - controller.i = Proportional(controller, ref, ref)
  <1>1. IInv /\ [Next]_vars => [Rest => out' = out]_vars
    <2> SUFFICES ASSUME IInv, Rest PROVE out' = out
      OBVIOUS
    <2> DEFINE c == controller
    <2>1. PICK y \in Lux : Interrupt(y, ref) /\ ref - y \in -DeadZone .. DeadZone
      OBVIOUS
    <2>0. c.number
      <3>1. c \in Controller /\ controller' = Update(c, y, ref) /\ controller'.number
        BY <2>1 DEF IInv, TypeOK, Interrupt
      <3>2. CASE Diverges(c)
        BY <3>1, <3>2 DEF Update, Controller
      <3>3. CASE ~Diverges(c)
        BY <3>3 DEF Diverges
      <3> QED
        BY <3>2, <3>3
    <2>2. /\ c \in Controller /\ c.u \in Int /\ c.i \in Int /\ c.usat \in Int
          /\ c.deadzone /\ c.antiwindup /\ c.err = 0 /\ c.u = c.usat
          /\ out = ApplySaturation(c.u)
          /\ c.u - c.i = Proportional(c, ref, ref)
      BY <2>0 DEF IInv, TypeOK, Controller
    <2>3. ref \in Int /\ y \in Int
      BY LuxAssumption DEF IInv, TypeOK
    <2>4. Error(c, y, ref) = 0 /\ Error(c, ref, ref) = 0
      <3>1. ApplyDeadzone(ref - y) = 0 /\ ApplyDeadzone(ref - ref) = 0
        BY <2>1, <2>3, LimitsAssumption, SMT DEF ApplyDeadzone
      <3> QED
        BY <2>2, <3>1 DEF Error
    <2>5. Proportional(c, y, ref) = c.u - c.i
      BY <2>2, <2>4 DEF Proportional
    <2>6. Integral(c, y, ref) = c.i
      <3>1. K2 * (0 + 0) = 0 /\ (c.usat - c.u) \div 2 = 0
        BY <2>2, GainsAssumption, SMT
      <3>2. Integral(c, y, ref) = c.i + 0 + 0
        BY <2>2, <2>4, <3>1 DEF Integral
      <3> QED
        BY <2>2, <3>2, SMT
    <2>7. Unsaturated(c, y, ref) = c.u
      <3>1. (c.u - c.i) + c.i = c.u
        BY <2>2, SMT
      <3> QED
        BY <2>5, <2>6, <3>1 DEF Unsaturated
    <2>8. out' = WriteToLed(ApplySaturation(c.u))
      BY <2>1, <2>2, <2>7 DEF Interrupt, Output
    <2> QED
      BY <2>2, <2>8, Saturates DEF WriteToLed
  <1>2. Spec => [][Rest => out' = out]_vars
    BY <1>1, Inductive, PTL DEF Spec
  <1> QED
    BY <1>2 DEF RestInDeadzone

-----------------------------------------------------------------------------
(* Unwinding. *)

(* The integral is bounded, by WindupBounded, when the error changes its   *)
(* sign; from then on each update takes 2 * K2 from it at least, and the   *)
(* lamp is at its maximum only while enough is left.                       *)
IntegralMax == SatMax + 5 * PMax + 2 * IMax + 2

UnwindInv ==
    loose = 0 /\ controller.number /\ excess > 0 =>
        /\ controller.err < 0 /\ controller.u >= SatMax
        /\ controller.i + 2 * (K2 * (excess - 1)) <= IntegralMax

(* The updates for which that may last. *)
UnwindsInTime ==
    loose = 0 /\ controller.number => 2 * (K2 * (excess - 1)) <= 6 * PMax + 2 * IMax + 2

LEMMA UpdateIntegral ==
  ASSUME NEW c \in Controller, NEW y \in 0 .. MaxLux, NEW r \in 0 .. MaxLux,
         c.antiwindup, Update(c, y, r).number
  PROVE  LET d == Update(c, y, r) IN
         c.number /\ d.i = c.i + K2 * (d.err + c.err) + (c.usat - c.u) \div 2
  <1> DEFINE d == Update(c, y, r)
  <1>0. ~Diverges(c) /\ c.number
    <2>1. Diverges(c) => ~d.number
      BY DEF Update, Controller
    <2> QED
      BY <2>1 DEF Diverges, Controller
  <1>1. d.i = Integral(c, y, r) /\ d.err = Error(c, y, r)
    BY <1>0 DEF Update, Controller
  <1>2. Integral(c, y, r) = c.i + K2 * (Error(c, y, r) + c.err) + (c.usat - c.u) \div 2
    BY DEF Integral
  <1> QED
    BY <1>0, <1>1, <1>2

(* Two errors that ask for less take their part from the integral. *)
LEMMA StepsDown ==
  ASSUME NEW e \in Int, NEW f \in Int, e < 0, f < 0
  PROVE  K2 * (e + f) \in Int /\ K2 * (e + f) <= -(2 * K2)
  <1>1. K2 \in Nat /\ -(e + f) - 2 \in Nat
    BY GainsAssumption, SMT
  <1>2. K2 * (-(e + f) - 2) \in Nat
    BY <1>1, ProductIsNat
  <1>3. K2 * (-(e + f) - 2) = -(K2 * (e + f)) - 2 * K2
    BY <1>1, SMT
  <1> QED
    BY <1>1, <1>2, <1>3, SMT

LEMMA UnwindInterrupt ==
  ASSUME IInv, IInv', UnwindInv, NEW y \in Lux, NEW r \in Readable, Interrupt(y, r)
  PROVE  UnwindInv'
  <1> DEFINE c == controller
             d == controller'
  <1>0. steepest' = steepest /\ steepest \in Nat
    BY DEF Interrupt, IInv, TypeOK
  <1> SUFFICES ASSUME loose' = 0, d.number, excess' > 0
               PROVE  /\ d.err < 0 /\ d.u >= SatMax
                      /\ d.i + 2 * (K2 * (excess' - 1)) <= IntegralMax
    BY <1>0 DEF UnwindInv, IntegralMax, PMax, IMax
  <1>1. /\ y \in 0 .. MaxLux /\ r \in 0 .. MaxLux
        /\ c \in Controller /\ d \in Controller /\ d = Update(c, y, r)
        /\ PMax' = PMax /\ IMax' = IMax /\ PMax \in Nat /\ IMax \in Nat
    BY <1>0, LuxAssumption, ReadableInRange, PMaxType DEF IInv, TypeOK, Interrupt, PMax, IMax
  <1>2. /\ c.u \in Int /\ c.i \in Int /\ c.err \in Int /\ c.usat \in Int
        /\ d.u \in Int /\ d.i \in Int /\ d.err \in Int
    <2> HIDE DEF c, d
    <2> QED
      BY <1>1 DEF Controller
  <1>3. loose = 0 /\ c.antiwindup
    <2>1. loose \in Nat /\ c.antiwindup \in BOOLEAN
      BY <1>1, LuxAssumption DEF IInv, TypeOK, Controller
    <2>2. loose' = IF c.antiwindup THEN loose ELSE loose + 1
      BY DEF Interrupt
    <2>3. CASE c.antiwindup
      BY <2>2, <2>3
    <2>4. CASE ~c.antiwindup
      BY <2>1, <2>2, <2>4, SMT
    <2> QED
      BY <2>3, <2>4
  <1>4. excess \in Nat /\ d.err < 0 /\ lamp' = MaxOut /\ excess' = excess + 1
    <2>1. excess' = IF d.number /\ d.err < 0 /\ lamp' = MaxOut THEN excess + 1 ELSE 0
      BY DEF Interrupt
    <2>2. excess \in Nat
      BY DEF IInv, TypeOK
    <2> QED
      BY <2>1, <2>2
  <1>5. d.u >= SatMax
    <2>1. ApplySaturation(d.u) = SatMax
      BY <1>4 DEF IInv, Interrupt, MaxOut
    <2> QED
      BY <1>2, <2>1, LimitsAssumption, IntegralAssumption, SMT DEF ApplySaturation
  <1>6. c.number /\ d.i = c.i + K2 * (d.err + c.err) + (c.usat - c.u) \div 2
    <2>1. LET v == Update(c, y, r) IN
          c.number /\ v.i = c.i + K2 * (v.err + c.err) + (c.usat - c.u) \div 2
      BY <1>1, <1>3, UpdateIntegral, Zenon
    <2> QED
      BY <1>1, <2>1, Zenon
  <1>7. d.i + 2 * (K2 * (excess' - 1)) <= IntegralMax
    <2>1. CASE excess = 0
      <3>1. /\ d.u <= SatMax + 4 * PMax + 2 * IMax + 2
            /\ d.u - d.i \in -PMax .. PMax
        <4>1. /\ d.u \in SatMin - 4 * PMax' - 2 * IMax' - 2 .. SatMax + 4 * PMax' + 2 * IMax' + 2
              /\ d.u - d.i \in -PMax' .. PMax'
          BY DEF IInv, WindupBounded
        <4> QED
          BY <1>1, <1>2, <4>1, LimitsAssumption, SMT
      <3>2. excess' - 1 = 0 /\ 2 * (K2 * 0) = 0
        BY <1>4, <2>1, GainsAssumption, SMT
      <3> QED
        BY <1>1, <1>2, <3>1, <3>2, LimitsAssumption, SMT DEF IntegralMax
    <2>2. CASE excess > 0
      <3>1. /\ c.err < 0 /\ c.u >= SatMax
            /\ c.i + 2 * (K2 * (excess - 1)) <= IntegralMax
        BY <1>3, <2>2, <1>6 DEF UnwindInv
      <3>2. d.i = c.i + K2 * (d.err + c.err) + (c.usat - c.u) \div 2
        BY <1>6
      <3>3. K2 * (d.err + c.err) \in Int /\ K2 * (d.err + c.err) <= -(2 * K2)
        BY <1>2, <1>4, <3>1, StepsDown
      <3>4. c.usat <= c.u
        <4>1. c.usat = ApplySaturation(c.u)
          BY <1>3, <1>6 DEF IInv
        <4> QED
          BY <1>2, <3>1, <4>1, LimitsAssumption, SMT DEF ApplySaturation
      <3> DEFINE h == (c.usat - c.u) \div 2
                 a == K2 * (d.err + c.err)
                 m == K2 * (excess - 1)
      <3>5. h \in Int /\ h <= 0
        <4>1. ASSUME NEW z \in Int, z <= 0 PROVE z \div 2 \in Int /\ z \div 2 <= 0
          BY <4>1, SMT
        <4>2. c.usat - c.u \in Int /\ c.usat - c.u <= 0
          BY <1>2, <3>4
        <4> QED
          BY <4>1, <4>2
      <3>6. excess' - 1 = (excess - 1) + 1 /\ m \in Int /\ K2 * ((excess - 1) + 1) = m + K2
        BY <1>4, <2>2, GainsAssumption, SMT
      <3>7. d.i = c.i + a + h /\ a <= -(2 * K2) /\ a \in Int /\ c.i + 2 * m <= IntegralMax
        BY <3>1, <3>2, <3>3
      <3>8. K2 * (excess' - 1) = m + K2
        BY <3>6
      <3>9. IntegralMax \in Int
        BY <1>1, LimitsAssumption DEF IntegralMax
      <3> HIDE DEF h, a, m
      <3> QED
        BY <1>2, <3>5, <3>6, <3>7, <3>8, <3>9, GainsAssumption, SMT
    <2> QED
      BY <1>4, <2>1, <2>2
  <1> QED
    BY <1>4, <1>5, <1>7

(* However long the lamp has been at its maximum: the integral has to come *)
(* down by so much at most before the lamp does (Controller::update).      *)
THEOREM LampUnwinds == Spec => []UnwindsInTime
  <1>1. Init => UnwindInv
    BY SMT DEF Init, UnwindInv
  <1>2. IInv /\ IInv' /\ UnwindInv /\ [Next]_vars => UnwindInv'
    <2> SUFFICES ASSUME IInv, IInv', UnwindInv, [Next]_vars PROVE UnwindInv'
      OBVIOUS
    <2>1. CASE Main \/ UNCHANGED vars
      <3>1. /\ controller'.u = controller.u /\ controller'.i = controller.i
            /\ controller'.err = controller.err /\ controller'.number = controller.number
            /\ loose' = loose /\ excess' \in {0, excess}
        <4>1. controller \in Controller
          BY DEF IInv, TypeOK
        <4> QED
          BY <2>1, <4>1
             DEF Main, vars, BeginWrite, EndWrite, UseFeedforward, UseErrorDeadzone, UseAntiWindup,
                 BeginConsensus, EndConsensus, BeginCalibration, EndCalibration, UpdateFeedForward,
                 Controller
      <3>2. steepest \in Nat /\ steepest' \in Nat /\ steepest' >= steepest
        <4>1. steepest \in Nat /\ steepest' \in Nat
          BY DEF IInv, TypeOK
        <4>2. ASSUME NEW flat, NEW k \in Int, NEW o, EndCalibration(flat, k, o)
              PROVE  steepest' >= steepest
          <5>1. steepest' = IF Abs(k) > steepest THEN Abs(k) ELSE steepest
            BY <4>2 DEF EndCalibration
          <5> QED
            BY <4>1, <4>2, <5>1, SMT DEF Abs
        <4>3. \/ steepest' = steepest
              \/ \E o \in Lux : \/ EndCalibration(TRUE, 0, o)
                               \/ \E k \in Factors : EndCalibration(FALSE, k, o)
          BY <2>1
             DEF Main, vars, BeginWrite, EndWrite, UseFeedforward, UseErrorDeadzone, UseAntiWindup,
                 BeginConsensus, EndConsensus, BeginCalibration
        <4>4. steepest' = steepest => steepest' >= steepest
          BY <4>1
        <4>5. 0 \in Int /\ \A k \in Factors : k \in Int
          BY LuxAssumption
        <4> QED
          BY <4>1, <4>2, <4>3, <4>4, <4>5, Zenon
      <3>3. PMax \in Nat /\ PMax' \in Nat /\ PMax' >= PMax /\ IMax \in Nat /\ IMax' = IMax
        BY <3>2, PMaxType, PMaxGrows
      <3>4. SUFFICES ASSUME loose = 0, controller.number, excess > 0, excess' = excess
                     PROVE  controller.i + 2 * (K2 * (excess - 1)) <= IntegralMax'
        <4>1. ~ (0 > 0)
          OBVIOUS
        <4>2. CASE excess' = 0
          BY <4>1, <4>2 DEF UnwindInv
        <4>3. CASE excess' = excess
          BY <3>1, <3>4, <4>3 DEF UnwindInv
        <4> QED
          BY <3>1, <4>2, <4>3
      <3> DEFINE m == K2 * (excess - 1)
      <3>5. controller.i \in Int /\ m \in Int /\ controller.i + 2 * m <= IntegralMax
        BY <3>4, GainsAssumption DEF IInv, TypeOK, Controller, UnwindInv
      <3>6. IntegralMax <= IntegralMax' /\ IntegralMax \in Int /\ IntegralMax' \in Int
        <4>1. /\ IntegralMax = SatMax + 5 * PMax + 2 * IMax + 2
              /\ IntegralMax' = SatMax + 5 * PMax' + 2 * IMax' + 2
          BY DEF IntegralMax
        <4>2. ASSUME NEW p \in Nat, NEW q \in Nat, NEW a \in Nat, q >= p
              PROVE  /\ SatMax + 5 * p + 2 * a + 2 <= SatMax + 5 * q + 2 * a + 2
                     /\ SatMax + 5 * p + 2 * a + 2 \in Int /\ SatMax + 5 * q + 2 * a + 2 \in Int
          BY <4>2, LimitsAssumption, SMT
        <4> QED
          BY <3>3, <4>1, <4>2, Zenon
      <3> HIDE DEF m
      <3>7. controller.i + 2 * m <= IntegralMax'
        BY <3>5, <3>6, SMT
      <3> QED
        BY <3>7 DEF m
    <2> QED
      BY <2>1, UnwindInterrupt DEF Next
  <1>3. IInv /\ UnwindInv => UnwindsInTime
    <2> SUFFICES ASSUME IInv, UnwindInv, loose = 0, controller.number
                 PROVE  2 * (K2 * (excess - 1)) <= 6 * PMax + 2 * IMax + 2
      BY DEF UnwindsInTime
    <2>1. /\ excess \in Nat /\ K2 \in Nat /\ PMax \in Nat /\ IMax \in Nat
          /\ controller.u \in Int /\ controller.i \in Int
      BY GainsAssumption, PMaxType DEF IInv, TypeOK, Controller
    <2>2. CASE excess = 0
      <3>1. K2 * (0 - 1) = -K2
        BY <2>1, SMT
      <3> QED
        BY <2>1, <2>2, <3>1, SMT
    <2>3. CASE excess > 0
      <3> DEFINE m == K2 * (excess - 1)
      <3>1. m \in Int
        BY <2>1
      <3>2. controller.u >= SatMax /\ controller.i + 2 * m <= IntegralMax
        BY <2>3 DEF UnwindInv
      <3>3. controller.u - controller.i <= PMax
        BY <2>1, SMT DEF IInv, WindupBounded
      <3> HIDE DEF m
      <3>4. 2 * m <= 6 * PMax + 2 * IMax + 2
        BY <2>1, <3>1, <3>2, <3>3, LimitsAssumption, SMT DEF IntegralMax
      <3> QED
        BY <3>4 DEF m
    <2> QED
      BY <2>1, <2>2, <2>3
  <1> QED
    BY <1>1, <1>2, <1>3, Inductive, PTL DEF Spec

(* Any number of updates is enough that pays for all that the integral may *)
(* have taken up, with the slopes found so far (Controller::update): there *)
(* is no such number if they may be arbitrarily small.  The run checks a   *)
(* tighter one.                                                            *)
THEOREM UnwindsWithin ==
  Spec => [](2 * (K2 * Recovery) > 6 * PMax + 2 * IMax + 2 => Unwinds)
  <1>1. IInv /\ UnwindsInTime => (2 * (K2 * Recovery) > 6 * PMax + 2 * IMax + 2 => Unwinds)
    <2> SUFFICES ASSUME IInv, UnwindsInTime, loose = 0, controller.number, excess > Recovery,
                        2 * (K2 * Recovery) > 6 * PMax + 2 * IMax + 2
                 PROVE  FALSE
      <3>1. excess \in Nat /\ Recovery \in Nat => (excess <= Recovery \/ excess > Recovery)
        OBVIOUS
      <3> QED
        BY <3>1, LuxAssumption DEF IInv, TypeOK, Unwinds
    <2>1. /\ excess - 1 - Recovery \in Nat /\ K2 \in Nat /\ Recovery \in Nat /\ excess \in Nat
      BY LuxAssumption, GainsAssumption, SMT DEF IInv, TypeOK
    <2>2. K2 * (excess - 1 - Recovery) \in Nat
      BY <2>1, ProductIsNat
    <2>3. K2 * (excess - 1 - Recovery) = K2 * (excess - 1) - K2 * Recovery
      BY <2>1, SMT
    <2>4. PMax \in Nat /\ IMax \in Nat
      BY PMaxType DEF IInv, TypeOK
    <2> QED
      BY <2>1, <2>2, <2>3, <2>4, SMT DEF UnwindsInTime
  <1> QED
    BY <1>1, LampUnwinds, Inductive, PTL
=============================================================================
