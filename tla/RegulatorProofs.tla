-------------------------- MODULE RegulatorProofs --------------------------
(***************************************************************************)
(* Under TuningAssumption the integral stays bounded and no half period    *)
(* overflows a long, for every range of errors, setpoint, reserve and set  *)
(* of gains, retuned at any time; and the parameters that tune it (module  *)
(* Params, through a named instance) stay within their bounds.             *)
(***************************************************************************)
EXTENDS RegulatorBounds, Params, SequenceTheorems, TLAPS

RInv == /\ gainI \in IGains /\ gainP \in PGains
        /\ integral \in (-Floor)..Ceiling
        /\ lastError \in (-MaxError)..MaxError

(* What TuningAssumption says, conjunct by conjunct.                       *)
LEMMA TuningIs ==
  /\ Floor \in Nat /\ Ceiling \in Nat /\ Floor >= -MinIntegral
  /\ \A g \in IGains, p \in PGains :
       /\ (Full + 1) * Scale + 2 * (p * MaxError) <= g * Ceiling
       /\ 2 * (p * MaxError) <= g * Floor
       /\ g * (Ceiling + MaxError) + 2 * (p * MaxError) <= MaxLong
       /\ g * (Floor + MaxError) + 2 * (p * MaxError) <= MaxLong
BY TuningAssumption DEF Tuned

(* A product is between those of the bounds of its second factor. *)
LEMMA ProductBetween ==
  ASSUME NEW k \in Nat, NEW n \in Int, NEW lo \in Int, NEW hi \in Int,
         lo <= n, n <= hi
  PROVE  k * lo <= k * n /\ k * n <= k * hi
  OBVIOUS

(* What a product bounds, its factor bounds. *)
LEMMA FactorBelow ==
  ASSUME NEW k \in Nat, NEW m \in Int, NEW n \in Int, k * m < k * n
  PROVE  m < n
  OBVIOUS

(* The quotient by Scale decides the two thresholds of the command.        *)
LEMMA QuotientThreshold ==
  ASSUME NEW n \in Int, NEW s \in Nat \ {0}, NEW t \in Int
  PROVE  /\ n \div s \in Int
         /\ n \div s <= t => n < (t + 1) * s
         /\ n \div s > t => n >= (t + 1) * s
  OBVIOUS

(* The gains are such that every correction computed from a bounded        *)
(* integral fits in a long.                                                *)
LEMMA CorrectionFits ==
  ASSUME RInv, NEW e \in Errors
  PROVE  /\ gainI \in Nat \ {0} /\ gainP \in Nat /\ e \in Int
         /\ gainP * (e + lastError) \in (-2 * (gainP * MaxError))..(2 * (gainP * MaxError))
         /\ integral + e \in (-MaxLong - 1)..MaxLong
         /\ Correction(e) \in (-MaxLong - 1)..MaxLong
<1>1. /\ MaxError \in Nat /\ e \in Int /\ -MaxError <= e /\ e <= MaxError
      /\ MaxLong \in Nat /\ Scale \in Nat \ {0} /\ Full \in Nat
  BY RegulatorAssumption
<1>2. /\ gainI \in Nat /\ gainP \in Nat
      /\ integral \in Int /\ -Floor <= integral /\ integral <= Ceiling
      /\ lastError \in Int /\ -MaxError <= lastError /\ lastError <= MaxError
      /\ Floor \in Nat /\ Ceiling \in Nat
  BY RegulatorAssumption, TuningIs DEF RInv
<1>3. /\ (Full + 1) * Scale + 2 * (gainP * MaxError) <= gainI * Ceiling
      /\ gainI * (Ceiling + MaxError) + 2 * (gainP * MaxError) <= MaxLong
      /\ gainI * (Floor + MaxError) + 2 * (gainP * MaxError) <= MaxLong
  BY TuningIs DEF RInv
<1>4. gainI # 0
  <2>1. (Full + 1) * Scale > 0
    BY <1>1
  <2>2. gainP * MaxError >= 0
    BY <1>1, <1>2
  <2>3. gainI * Ceiling > 0
    BY <1>1, <1>2, <1>3, <2>1, <2>2
  <2> QED
    BY <1>2, <2>3
<1>5. gainP * (e + lastError) \in (-2 * (gainP * MaxError))..(2 * (gainP * MaxError))
  <2>1. /\ gainP * (-2 * MaxError) <= gainP * (e + lastError)
        /\ gainP * (e + lastError) <= gainP * (2 * MaxError)
    BY <1>1, <1>2, ProductBetween
  <2>2. /\ gainP * (-2 * MaxError) = -2 * (gainP * MaxError)
        /\ gainP * (2 * MaxError) = 2 * (gainP * MaxError)
    BY <1>1, <1>2
  <2> QED
    BY <1>1, <1>2, <2>1, <2>2
<1>6. /\ gainI * (-(Floor + MaxError)) <= gainI * (integral + e)
      /\ gainI * (integral + e) <= gainI * (Ceiling + MaxError)
  BY <1>1, <1>2, ProductBetween
<1>7. gainI * (-(Floor + MaxError)) = -(gainI * (Floor + MaxError))
  BY <1>1, <1>2
<1>8. /\ Ceiling + MaxError <= gainI * (Ceiling + MaxError)
      /\ Floor + MaxError <= gainI * (Floor + MaxError)
  BY <1>1, <1>2, <1>4
<1>9. gainP * MaxError \in Nat
  BY <1>1, <1>2
<1>10. integral + e \in (-MaxLong - 1)..MaxLong
  BY <1>1, <1>2, <1>3, <1>8, <1>9
<1>11. Correction(e) \in (-MaxLong - 1)..MaxLong
  <2> DEFINE x == gainI * (integral + e)
             y == gainP * (e + lastError)
             hi == gainI * (Ceiling + MaxError)
             lo == gainI * (Floor + MaxError)
             q == gainP * MaxError
  <2>1. x \in Int /\ y \in Int /\ hi \in Int /\ lo \in Int /\ q \in Nat
    BY <1>1, <1>2, <1>9
  <2>2. -lo <= x /\ x <= hi /\ -2 * q <= y /\ y <= 2 * q
    BY <1>1, <1>2, <1>5, <1>6, <1>7
  <2>3. hi + 2 * q <= MaxLong /\ lo + 2 * q <= MaxLong
    BY <1>3
  <2>4. Correction(e) = x + y
    BY DEF Correction
  <2> HIDE DEF x, y, hi, lo, q
  <2> QED
    BY <1>1, <2>1, <2>2, <2>3, <2>4
<1> QED
  BY <1>1, <1>2, <1>4, <1>5, <1>10, <1>11

(* One half period keeps the integral within its bounds: integrated only   *)
(* below full power, it stops where the smallest gain saturates; above the *)
(* floor of a deficit it is held by the proportional term.                 *)
LEMMA HalfPeriodBounded ==
  ASSUME RInv, NEW e \in Errors
  PROVE  /\ Limit(Wrap(integral + e), Command(e), e) \in (-Floor)..Ceiling
         /\ Command(e) \in Int
<1> DEFINE c == Command(e)
           i == integral + e
           y == gainP * (e + lastError)
           q == gainP * MaxError
<1>1. /\ integral \in Int /\ -Floor <= integral /\ integral <= Ceiling
      /\ Floor \in Nat /\ Ceiling \in Nat /\ MinIntegral \in Int
      /\ MinIntegral <= 0 /\ -Floor <= MinIntegral
      /\ Scale \in Nat \ {0} /\ Full \in Nat /\ MaxError \in Nat
  BY RegulatorAssumption, TuningIs DEF RInv
<1>2. /\ gainI \in Nat \ {0} /\ gainP \in Nat /\ e \in Int /\ i \in Int
      /\ y \in (-2 * q)..(2 * q)
  BY <1>1, CorrectionFits
<1>3. /\ q \in Nat /\ y \in Int
  BY <1>1, <1>2
<1>4. Wrap(i) = i
  BY CorrectionFits DEF Wrap
<1>5. /\ c = (gainI * i + y) \div Scale
      /\ gainI * i + y \in Int
  <2>1. Wrap(Correction(e)) = Correction(e)
    BY CorrectionFits DEF Wrap
  <2>2. Correction(e) = gainI * i + y
    BY DEF Correction
  <2>3. gainI * i \in Int
    BY <1>2
  <2> QED
    BY <2>1, <2>2, <2>3, <1>3 DEF Command
<1>6. /\ (Full + 1) * Scale + 2 * q <= gainI * Ceiling
      /\ 2 * q <= gainI * Floor
  BY TuningIs DEF RInv
<1>7. /\ gainI * i \in Int /\ gainI * Ceiling \in Int /\ gainI * Floor \in Int
      /\ (Full + 1) * Scale \in Nat /\ Scale <= (Full + 1) * Scale
      /\ gainI * (-Floor) = -(gainI * Floor)
  BY <1>1, <1>2
<1>8. c \in Int
  BY <1>1, <1>5, QuotientThreshold
<1> HIDE DEF c, i, y, q
<1>9. ASSUME c <= Full PROVE i < Ceiling + 1
  <2>1. gainI * i + y < (Full + 1) * Scale
    BY <1>1, <1>5, <1>9, QuotientThreshold
  <2>2. gainI * i < (Full + 1) * Scale + 2 * q
    BY <1>2, <1>3, <1>7, <2>1
  <2>3. gainI * i < gainI * Ceiling
    BY <1>3, <1>6, <1>7, <2>2
  <2> QED
    BY <1>1, <1>2, <2>3, FactorBelow
<1>10. ASSUME c > 0 PROVE -Floor <= i
  <2>1. gainI * i + y >= Scale
    BY <1>1, <1>5, <1>10, QuotientThreshold
  <2>2. gainI * (-Floor) < gainI * i
    BY <1>1, <1>2, <1>3, <1>6, <1>7, <2>1
  <2> QED
    BY <1>1, <1>2, <2>2, FactorBelow
<1>11. Limit(i, c, e) \in (-Floor)..Ceiling
  <2>1. CASE c <= 0 /\ i <= MinIntegral
    BY <1>1, <2>1 DEF Limit
  <2>2. CASE c > Full
    <3>1. Limit(i, c, e) = integral
      BY <1>1, <1>2, <1>8, <2>2 DEF Limit, i
    <3> QED
      BY <1>1, <3>1
  <2>3. CASE c <= 0 /\ ~(i <= MinIntegral)
    BY <1>1, <1>2, <1>8, <1>9, <2>3 DEF Limit
  <2>4. CASE c > 0 /\ c <= Full
    BY <1>1, <1>2, <1>8, <1>9, <1>10, <2>4 DEF Limit
  <2> QED
    BY <1>1, <1>8, <2>1, <2>2, <2>3, <2>4
<1> QED
  BY <1>4, <1>8, <1>11 DEF c, i

(* A delay is a number of the table, or the one that is never reached.     *)
LEMMA DelayTyped ==
  ASSUME NEW c \in Int
  PROVE  Delay(c) \in {energyToDelay[k] : k \in 2..(Full + 1)} \cup {NoDelay}
<1>1. Full \in Nat /\ Full >= 1
  BY RegulatorAssumption
<1>2. CASE c <= 0
  BY <1>2 DEF Delay
<1>3. CASE c > 0
  <2>1. Clip(c) + 1 \in 2..(Full + 1)
    BY <1>1, <1>3 DEF Clip
  <2>2. Delay(c) = energyToDelay[Clip(c) + 1]
    BY <1>3 DEF Delay
  <2> HIDE DEF energyToDelay
  <2> QED
    BY <2>1, <2>2
<1> QED
  BY <1>2, <1>3

(* The inductive invariant, together with the range of OCR1A. *)
LEMMA RegulatorInvariant == Spec => [](RInv /\ TypeOK)
<1>1. Init => RInv /\ TypeOK
  BY RegulatorAssumption, TuningIs DEF Init, RInv, TypeOK
<1>2. RInv /\ TypeOK /\ [Next]_vars => RInv' /\ TypeOK'
  <2> SUFFICES ASSUME RInv, TypeOK, [Next]_vars PROVE RInv' /\ TypeOK'
    OBVIOUS
  <2>1. ASSUME NEW e \in Errors, HalfPeriod(e) PROVE RInv' /\ TypeOK'
    <3>1. Command(e) \in Int /\ integral' \in (-Floor)..Ceiling
      BY <2>1, HalfPeriodBounded DEF HalfPeriod
    <3>2. ocr1a' \in {energyToDelay[k] : k \in 2..(Full + 1)} \cup {NoDelay}
      BY <2>1, <3>1, DelayTyped DEF HalfPeriod
    <3>3. lastError' \in (-MaxError)..MaxError
      BY <2>1, RegulatorAssumption DEF HalfPeriod
    <3>4. integral' \in Int
      BY <3>1, TuningIs
    <3>5. gainI' \in IGains /\ gainP' \in PGains
      BY <2>1 DEF HalfPeriod, RInv
    <3>6. periodParity' \in BOOLEAN
      BY <2>1 DEF HalfPeriod
    <3> QED
      BY <3>1, <3>2, <3>3, <3>4, <3>5, <3>6 DEF RInv, TypeOK
  <2>2. CASE WarmUp
    BY <2>2, RegulatorAssumption, TuningIs DEF WarmUp, RInv, TypeOK
  <2>3. CASE SetGain
    BY <2>3 DEF SetGain, RInv, TypeOK
  <2>4. CASE UNCHANGED vars
    BY <2>4 DEF vars, RInv, TypeOK
  <2> QED
    BY <2>1, <2>2, <2>3, <2>4 DEF Next, Regulate
<1> QED
  BY <1>1, <1>2, PTL DEF Spec

(* Type correctness: OCR1A is always an entry of energyToDelay (never its  *)
(* entry for 0) or the unreachable value.                                  *)
THEOREM RegulatorTyping == Spec => []TypeOK
  BY RegulatorInvariant, PTL

(* The anti-windup measures bound the integral. *)
THEOREM NoWindup == Spec => []IntegralBounded
<1>1. RInv => IntegralBounded
  BY DEF RInv, IntegralBounded
<1> QED
  BY <1>1, RegulatorInvariant, PTL

(* No half period overflows a long, also when the gains change between two *)
(* of them: the comment of line 1878 is right under TuningAssumption.      *)
THEOREM ArithmeticSafe == Spec => []NoOverflow
<1>1. RInv => NoOverflow
  BY CorrectionFits DEF NoOverflow
<1> QED
  BY <1>1, RegulatorInvariant, PTL

----------------------------------------------------------------------------
(* More surplus, no later firing: each stage of the computation is         *)
(* monotone, and the table of delays falls.                                *)

LEMMA TableFalls ==
  \A i \in 1..256 : \A j \in 1..256 :
    i <= j => energyToDelay[j] <= energyToDelay[i]
  BY SMTT(100) DEF energyToDelay

(* Each entry is before the delay that is never reached. *)
LEMMA TableBelowNoDelay ==
  \A i \in 1..256 : energyToDelay[i] \in Nat /\ energyToDelay[i] < NoDelay
  BY SMTT(100) DEF energyToDelay, NoDelay

(* A larger command has no larger delay. *)
LEMMA DelayFalls ==
  ASSUME NEW b \in Int, NEW c \in Int, b <= c
  PROVE  Delay(c) <= Delay(b)
<1>1. Full \in 1..255
  BY RegulatorAssumption
<1>2. CASE c <= 0
  <2>1. Delay(c) = NoDelay /\ Delay(b) = NoDelay
    BY <1>2 DEF Delay
  <2> QED
    BY <2>1 DEF NoDelay
<1>3. CASE b <= 0 /\ c > 0
  <2>1. Clip(c) + 1 \in 1..256
    BY <1>1, <1>3 DEF Clip
  <2>2. energyToDelay[Clip(c) + 1] \in Nat /\ energyToDelay[Clip(c) + 1] < NoDelay
    BY <2>1, TableBelowNoDelay
  <2>3. Delay(c) = energyToDelay[Clip(c) + 1] /\ Delay(b) = NoDelay
    BY <1>3 DEF Delay
  <2> HIDE DEF energyToDelay
  <2> QED
    BY <2>2, <2>3 DEF NoDelay
<1>4. CASE b > 0
  <2>1. /\ Clip(b) + 1 \in 1..256 /\ Clip(c) + 1 \in 1..256
        /\ Clip(b) + 1 <= Clip(c) + 1
    BY <1>1, <1>4 DEF Clip
  <2>2. /\ Delay(c) = energyToDelay[Clip(c) + 1]
        /\ Delay(b) = energyToDelay[Clip(b) + 1]
    BY <1>4 DEF Delay
  <2> QED
    BY <2>1, <2>2, TableFalls
<1> QED
  BY <1>2, <1>3, <1>4

(* The quotient by Scale keeps the order. *)
LEMMA QuotientRises ==
  ASSUME NEW m \in Int, NEW n \in Int, m <= n, NEW s \in Nat \ {0}
  PROVE  m \div s <= n \div s
<1>1. m \div s \in Int /\ n \div s \in Int
  BY QuotientThreshold
<1>2. ASSUME m \div s > n \div s PROVE FALSE
  <2>1. m >= (n \div s + 1) * s
    BY <1>1, <1>2, QuotientThreshold
  <2>2. n < (n \div s + 1) * s
    BY <1>1, QuotientThreshold
  <2>3. (n \div s + 1) * s \in Int
    BY <1>1
  <2> QED
    BY <2>1, <2>2, <2>3
<1> QED
  BY <1>1, <1>2

(* Both gains are positive or zero: a larger error, a larger command. *)
LEMMA CommandRises ==
  ASSUME RInv, NEW d \in Errors, NEW e \in Errors, d <= e
  PROVE  /\ Command(d) \in Int /\ Command(e) \in Int
         /\ Command(d) <= Command(e)
<1>1. /\ gainI \in Nat /\ gainP \in Nat /\ d \in Int /\ e \in Int
      /\ integral \in Int /\ lastError \in Int /\ Scale \in Nat \ {0}
  BY CorrectionFits, RegulatorAssumption, TuningIs DEF RInv
<1>2. /\ gainI * (integral + d) <= gainI * (integral + e)
      /\ gainP * (d + lastError) <= gainP * (e + lastError)
  BY <1>1, ProductBetween
<1>3. /\ gainI * (integral + d) \in Int /\ gainI * (integral + e) \in Int
      /\ gainP * (d + lastError) \in Int /\ gainP * (e + lastError) \in Int
  BY <1>1
<1>4. /\ Correction(d) \in Int /\ Correction(e) \in Int
      /\ Correction(d) <= Correction(e)
  BY <1>2, <1>3 DEF Correction
<1>5. Wrap(Correction(d)) = Correction(d) /\ Wrap(Correction(e)) = Correction(e)
  BY CorrectionFits DEF Wrap
<1>6. Correction(d) \div Scale <= Correction(e) \div Scale
  BY <1>1, <1>4, QuotientRises
<1> QED
  BY <1>5, <1>6, HalfPeriodBounded DEF Command

(* With gains within TuningAssumption (FixedGainsAreTuned says which are), *)
(* whatever the integral and the last error are, a larger surplus never    *)
(* fires the triac later: no overflow turns it round, the quotient keeps   *)
(* the order and the table of energyToDelay falls.                         *)
THEOREM SurplusOrder == Spec => []MoreSurplusFiresEarlier
<1>1. RInv => MoreSurplusFiresEarlier
  <2> SUFFICES ASSUME RInv, NEW d \in Errors, NEW e \in Errors, d <= e
               PROVE  Delay(Command(e)) <= Delay(Command(d))
    BY DEF MoreSurplusFiresEarlier
  <2> QED
    BY CommandRises, DelayFalls
<1> QED
  BY <1>1, RegulatorInvariant, PTL

(* Which gains are safe.  SETPARAM takes 0 to 1000 for each: gains that    *)
(* are never changed while the router runs are, with the default           *)
(* calibration and any E_RESERVE, except a GAIN_I of 0.                    *)
THEOREM FixedGainsAreTuned ==
  ASSUME NEW g \in 1..1000, NEW p \in 0..1000,
         Full = 255, Scale = 16384, MaxLong >= 2000 * (1000 * 1000),
         MaxError <= 60 * 1000, MinIntegral >= -(240 * 1000)
  PROVE  \E floor, ceiling : Tuned({g}, {p}, floor, ceiling)
<1>1. g \in Nat \ {0} /\ p \in Nat /\ MaxError \in Nat /\ MinIntegral \in Int /\ MaxLong \in Nat
  BY RegulatorAssumption
<1>m. PICK M \in Nat : M = 1000 * 1000
  OBVIOUS
<1>2. PICK e \in Nat : e = p * MaxError /\ e <= 60 * M
  <2>1. p * MaxError \in Nat
    BY <1>1
  <2>2. p * MaxError <= p * (60 * 1000)
    BY <1>1, ProductBetween
  <2>3. p * (60 * 1000) <= 60 * M
    BY <1>m
  <2> QED
    BY <1>1, <2>1, <2>2, <2>3
<1>3. \A n \in Nat : \E q \in Nat : n <= g * q /\ g * q <= n + g
  <2> SUFFICES ASSUME NEW n \in Nat
               PROVE  \E q \in Nat : n <= g * q /\ g * q <= n + g
    OBVIOUS
  <2>1. PICK m \in Int : m = n \div g
    BY <1>1, QuotientThreshold
  <2>2. n < (m + 1) * g /\ n >= m * g /\ m >= 0
    BY <1>1, <2>1, QuotientThreshold
  <2>3. n <= g * (m + 1) /\ g * (m + 1) <= n + g /\ m + 1 \in Nat
    BY <1>1, <2>2
  <2>4. PICK q : q = m + 1
    OBVIOUS
  <2>5. q \in Nat /\ n <= g * q /\ g * q <= n + g
    BY <2>3, <2>4
  <2> QED
    BY <2>5
<1>4. ASSUME NEW c \in Nat, NEW b \in Nat, g * c <= b, b <= 400 * M
      PROVE  g * (c + MaxError) + 2 * e <= MaxLong
  <2>1. PICK h \in Nat : h = g * MaxError /\ h <= 60 * M
    <3>1. g * MaxError \in Nat
      BY <1>1
    <3>2. MaxError * g <= MaxError * 1000
      BY <1>1, ProductBetween
    <3>3. MaxError * 1000 <= 60 * M /\ MaxError * g = g * MaxError
      BY <1>1, <1>m
    <3> QED
      BY <1>1, <1>m, <3>1, <3>2, <3>3
  <2>2. g * (c + MaxError) = g * c + h /\ g * c \in Nat
    BY <1>1, <2>1
  <2> QED
    BY <1>1, <1>m, <1>2, <1>4, <2>1, <2>2
<1>5. PICK c \in Nat : 256 * 16384 + 2 * e <= g * c /\ g * c <= 256 * 16384 + 2 * e + g
  <2>1. PICK n \in Nat : n = 256 * 16384 + 2 * e
    BY <1>2
  <2>2. PICK q \in Nat : n <= g * q /\ g * q <= n + g
    BY <1>3
  <2> QED
    BY <2>1, <2>2
<1>6. PICK k \in Nat : k >= -MinIntegral /\ k <= 240 * 1000
  BY <1>1
<1>7. PICK f \in Nat : f >= k /\ 2 * e <= g * f /\ g * f <= 400 * M
  <2>1. PICK m \in Nat : 2 * e <= g * m /\ g * m <= 2 * e + g
    <3>1. PICK n \in Nat : n = 2 * e
      BY <1>2
    <3>2. PICK q \in Nat : n <= g * q /\ g * q <= n + g
      BY <1>3
    <3> QED
      BY <3>1, <3>2
  <2>2. g * (m + k) = g * m + g * k /\ g * m \in Nat /\ g * k \in Nat
    BY <1>1, <1>6, <2>1
  <2>3. g * k <= 240 * M
    <3>1. g * k <= g * (240 * 1000) /\ g * (240 * 1000) <= 240 * M
      BY <1>1, <1>m, <1>6, ProductBetween
    <3> QED
      BY <1>1, <3>1, <2>2
  <2>4. m + k \in Nat /\ m + k >= k
    BY <1>6, <2>1
  <2> QED
    BY <1>1, <1>m, <1>2, <2>1, <2>2, <2>3, <2>4
<1>8. g * (c + MaxError) + 2 * e <= MaxLong /\ g * (f + MaxError) + 2 * e <= MaxLong
  <2>1. 256 * 16384 + 2 * e + g <= 400 * M
    BY <1>1, <1>m, <1>2
  <2>2. g * c \in Nat /\ g * f \in Nat /\ 256 * 16384 + 2 * e + g \in Nat /\ 400 * M \in Nat
    BY <1>1, <1>2
  <2>3. g * c <= 256 * 16384 + 2 * e + g
    BY <1>5
  <2> QED
    BY <1>4, <1>7, <2>1, <2>2, <2>3
<1>9. Tuned({g}, {p}, f, c)
  BY <1>1, <1>2, <1>5, <1>6, <1>7, <1>8 DEF Tuned
<1> QED
  BY <1>9

----------------------------------------------------------------------------
(* The parameters (module Params), the gains among them: what is in use    *)
(* and what is saved, whatever the line, the commands and the supply do.   *)

(* The tuples UNCHANGED is stated with, and the two memories' fields.      *)
USE DEF arduino, esp, history, Names, Garbled, Torn, Nothing

(* No mode is a mark of the history; erased values are of the memory.      *)
LEMMA ParamsConstants ==
  /\ -1 \notin Modes /\ -2 \notin Modes
  /\ Default \in Config /\ Default["s_ssr"] \in Modes
  /\ \A p \in Names : Default[p] \in Bounds(p)
  /\ [p \in Names |-> 0] \in Config
<1>1. \A p \in Names : 0 \in Any(p)
  BY DEF Any
<1>2. [p \in Names |-> 0] \in Config
  BY <1>1 DEF Config
<1>3. -1 \notin Nat /\ -2 \notin Nat
  OBVIOUS
<1> QED
  BY <1>2, <1>3, ParamsAssumption DEF Bounds

(* One parameter of a memory is changed.                                   *)
LEMMA ConfigExcept ==
  ASSUME NEW m \in Config, NEW p \in Names, NEW v \in Bounds(p)
  PROVE  /\ [m EXCEPT ![p] = v] \in Config
         /\ [m EXCEPT ![p] = v][p] = v
         /\ \A q \in Names \ {p} : [m EXCEPT ![p] = v][q] = m[q]
  BY DEF Config, Any, Bounds

(* What a command carries is what its operation takes.                     *)
LEMMA CommandTyped ==
  ASSUME NEW s \in Seq(Commands), s # <<>>
  PROVE  /\ Head(s) \in Commands /\ Tail(s) \in Seq(Commands)
         /\ Head(s).op = "SETPARAM" => /\ Head(s).p \in Names
                                       /\ Head(s).v \in Bounds(Head(s).p)
         /\ Head(s).op = "SETSSR" => Head(s).v \in Modes
<1>1. Head(s) \in Commands /\ Tail(s) \in Seq(Commands)
  BY HeadTailProperties
<1> QED
  BY <1>1, ParamsAssumption DEF Commands, Bounds

(* A cut within a write of the EEPROM leaves a memory, of torn values.     *)
LEMMA CutTyped ==
  ASSUME NEW m, CutWrite(m), Setup, ram \in Config
  PROVE  magic' = TRUE /\ eeprom' \in Config /\ ram' \in Config
<1>1. magic' = TRUE /\ eeprom' \in Config
  BY DEF CutWrite
<1> QED
  BY <1>1 DEF Setup

(* The commands of the line, the answers and the parameters asked for keep *)
(* their types and bounds.                                                 *)
LineTyped ==
  /\ cmds \in Seq(Commands) /\ Len(cmds) <= MaxCmds
  /\ frames \in Seq(Frames) /\ Len(frames) <= MaxFrames
  /\ shouldReadParams \in BOOLEAN

(* A sequence of commands or answers, of a bounded length, one of which is *)
(* read, read garbled with the next, or added if there is room.            *)
LEMMA QueueRead ==
  ASSUME NEW S, NEW s \in Seq(S), s # <<>>, NEW n \in Nat, Len(s) <= n, NEW t,
         \/ t = Tail(s)
         \/ t = IF Len(s) > 1 THEN SubSeq(s, 3, Len(s)) ELSE <<>>
  PROVE  t \in Seq(S) /\ Len(t) <= n
<1>1. CASE t = Tail(s)
  BY <1>1, HeadTailProperties
<1>2. CASE t = <<>>
  BY <1>2
<1>3. CASE t = SubSeq(s, 3, Len(s)) /\ Len(s) > 1
  <2>1. Len(s) \in Int /\ \A i \in 3..Len(s) : s[i] \in S
    OBVIOUS
  <2>2. SubSeq(s, 3, Len(s)) \in Seq(S)
    BY <2>1, SubSeqProperties
  <2>3. Len(SubSeq(s, 3, Len(s))) = IF 3 <= Len(s) THEN Len(s) - 3 + 1 ELSE 0
    BY <2>1, SubSeqProperties
  <2> QED
    BY <1>3, <2>2, <2>3
<1> QED
  BY <1>1, <1>2, <1>3

LEMMA QueueAdd ==
  ASSUME NEW S, NEW s \in Seq(S), NEW n \in Nat, Len(s) <= n, NEW e \in S, NEW t,
         t = IF Len(s) < n THEN Append(s, e) ELSE s
  PROVE  t \in Seq(S) /\ Len(t) <= n
<1>1. CASE Len(s) < n
  BY <1>1, AppendProperties
<1> QED
  BY <1>1

(* Every step keeps the two queues typed and bounded.                      *)
LEMMA LineStep ==
  ASSUME LineTyped, ram \in Config, [ParamsNext]_paramsVars
  PROVE  LineTyped'
<1>n. MaxCmds \in Nat /\ MaxFrames \in Nat
  BY ParamsAssumption
<1>l. /\ cmds \in Seq(Commands) /\ Len(cmds) <= MaxCmds
      /\ frames \in Seq(Frames) /\ Len(frames) <= MaxFrames
      /\ shouldReadParams \in BOOLEAN
  BY DEF LineTyped
<1>s. ASSUME NEW k \in Commands, Send(k)
      PROVE  cmds' \in Seq(Commands) /\ Len(cmds') <= MaxCmds
  BY <1>n, <1>l, <1>s, QueueAdd DEF Send
<1>a. ASSUME NEW f \in Frames, Answer(f)
      PROVE  frames' \in Seq(Frames) /\ Len(frames') <= MaxFrames
  BY <1>n, <1>l, <1>a, QueueAdd DEF Answer
<1>d. Done \in Frames /\ [kind |-> "PARAM", c |-> ram] \in Frames
  BY DEF Done, Frames
<1>c. /\ \A p \in Names : \A v \in Bounds(p) : Message("SETPARAM", p, v) \in Commands
      /\ \A m \in Orders : Message("SETSSR", "s_ssr", m) \in Commands
      /\ \A op \in {"PARAM", "SAVECFG", "LOADCFG", "FORMAT"} :
           Order0(op) \in Commands
  BY DEF Commands, Message, Order0, Bounds
<1>1. CASE SerialRequest
  <2>1. /\ shouldReadParams' = shouldReadParams /\ cmds # <<>>
        /\ \/ cmds' = Tail(cmds)
           \/ cmds' = IF Len(cmds) > 1 THEN SubSeq(cmds, 3, Len(cmds)) ELSE <<>>
        /\ Answer(Done) \/ Answer([kind |-> "PARAM", c |-> ram])
    BY <1>1 DEF SerialRequest, PrintParams, SetParam, SaveCfg,
       LoadCfg, Format, SetSSR, GarbledRead, Read, After
  <2>2. cmds' \in Seq(Commands) /\ Len(cmds') <= MaxCmds
    BY <1>n, <1>l, <2>1, QueueRead
  <2>3. frames' \in Seq(Frames) /\ Len(frames') <= MaxFrames
    BY <1>a, <1>d, <2>1
  <2> QED
    BY <1>l, <2>1, <2>2, <2>3 DEF LineTyped
<1>2. CASE PowerCut \/ PowerCutSetup \/ CutDuringWrite
  <2>1. cmds' = <<>> /\ frames' = frames /\ shouldReadParams' = shouldReadParams
    BY <1>2 DEF PowerCut, PowerCutSetup, CutDuringWrite, Setup
  <2> QED
    BY <1>n, <1>l, <2>1 DEF LineTyped
<1>3. CASE User \/ GetAllParam
  <2>1. /\ frames' = frames
        /\ shouldReadParams' \in {shouldReadParams, TRUE, FALSE}
        /\ \E k \in Commands : Send(k)
    BY <1>3, <1>c DEF User, Action, Set, GetAllParam,
       SetParamEcoPV, LoadConfigEcoPV, SaveConfigEcoPV,
       FormatEcoPV, SSRModeEcoPV, Unmoved
  <2> QED
    BY <1>l, <1>s, <2>1 DEF LineTyped
<1>4. CASE Refresh
  BY <1>4, <1>l DEF Refresh, Unmoved, LineTyped
<1>5. CASE SerialProcess \/ GarbledProcess
  <2>1. /\ frames # <<>> /\ UNCHANGED <<cmds, shouldReadParams>>
        /\ \/ frames' = Tail(frames)
           \/ frames' = IF Len(frames) > 1 THEN SubSeq(frames, 3, Len(frames))
                        ELSE <<>>
    BY <1>5 DEF SerialProcess, GarbledProcess
  <2>2. frames' \in Seq(Frames) /\ Len(frames') <= MaxFrames
    BY <1>n, <1>l, <2>1, QueueRead
  <2> QED
    BY <1>l, <2>1, <2>2 DEF LineTyped
<1>6. CASE RebootESP
  <2>1. /\ frames' = <<>>
        /\ cmds' \in Seq(Commands) /\ Len(cmds') <= MaxCmds
    BY <1>6, <1>s, <1>c DEF RebootESP
  <2>2. shouldReadParams' \in BOOLEAN
    BY <1>6 DEF RebootESP
  <2> QED
    BY <1>n, <2>1, <2>2 DEF LineTyped
<1>7. CASE UNCHANGED paramsVars
  BY <1>7, <1>l DEF paramsVars, LineTyped
<1> QED
  BY <1>1, <1>2, <1>3, <1>4, <1>5, <1>6, <1>7 DEF ParamsNext, EcoPV, MaxPV

(* A step of the ESP touches neither memory.                               *)
LEMMA ArduinoAlone ==
  ASSUME MaxPV \/ UNCHANGED paramsVars
  PROVE  UNCHANGED <<ram, magic, eeprom, ordered, asked>>
BY DEF MaxPV, User, Action, Set, Refresh, GetAllParam,
   SerialProcess, GarbledProcess, RebootESP, SetParamEcoPV,
   LoadConfigEcoPV, SaveConfigEcoPV, FormatEcoPV, SSRModeEcoPV,
   Unmoved, paramsVars

(* Every step keeps the memories in range together, and S_SSR the mode     *)
(* asked for or ordered last.                                              *)
LEMMA SavedStep ==
  ASSUME LineTyped, SavedInv, [ParamsNext]_paramsVars
  PROVE  SavedInv'
<1> USE DEF InRange, ModeSurvives
<1>k. /\ -1 \notin Modes /\ -2 \notin Modes
      /\ Default \in Config /\ Default["s_ssr"] \in Modes
      /\ \A p \in Names : Default[p] \in Bounds(p)
      /\ [p \in Names |-> 0] \in Config
  BY ParamsConstants
<1>h. ASSUME cmds # <<>>
      PROVE  /\ Head(cmds).op = "SETPARAM" => /\ Head(cmds).p \in Names
                                             /\ Head(cmds).v \in Bounds(Head(cmds).p)
             /\ Head(cmds).op = "SETSSR" => Head(cmds).v \in Modes
  BY <1>h, CommandTyped DEF LineTyped
<1>r. Bounds("param") = Values /\ Bounds("s_ssr") = Modes
  BY DEF Bounds
<1>t. /\ ram \in Config /\ magic \in BOOLEAN /\ eeprom \in Config
      /\ ordered \in Modes \cup {-1, -2} /\ asked \in Modes \cup {-1}
  BY DEF SavedInv
<1>1. CASE PrintParams
  BY <1>1 DEF PrintParams, SavedInv
<1>p. ASSUME NEW p \in Names, NEW v \in Bounds(p), ram' = [ram EXCEPT ![p] = v]
      PROVE  /\ ram' \in Config /\ ram'[p] = v
             /\ \A n \in Names \ {p} : ram'[n] = ram[n]
  <2>1. /\ [ram EXCEPT ![p] = v] \in Config /\ [ram EXCEPT ![p] = v][p] = v
        /\ \A n \in Names \ {p} : [ram EXCEPT ![p] = v][n] = ram[n]
    BY <1>t, ConfigExcept
  <2> QED
    BY <1>p, <2>1
<1>2. CASE SetParam
  <2>p. PICK p \in Names : p = Head(cmds).p
    BY <1>2, <1>h DEF SetParam, Read
  <2>1. PICK v \in Bounds(p) :
          /\ ram' = [ram EXCEPT ![p] = v]
          /\ asked' = IF p = "s_ssr" THEN v ELSE asked
          /\ UNCHANGED <<magic, eeprom, ordered>>
    BY <1>2, <1>h, <2>p DEF SetParam, Read
  <2>2. ram' \in Config /\ ram'[p] = v /\ \A n \in Names \ {p} : ram'[n] = ram[n]
    BY <1>p, <2>1
  <2>3. CASE p = "s_ssr"
    <3>1. v \in Modes /\ v # -1
      BY <1>k, <1>r, <2>3
    <3>2. ram'["s_ssr"] = v /\ ram'["param"] = ram["param"] /\ asked' = v
      BY <2>1, <2>2, <2>3
    <3> QED
      BY <1>r, <2>1, <2>2, <3>1, <3>2 DEF SavedInv
  <2>4. CASE p = "param"
    <3>1. ram'["s_ssr"] = ram["s_ssr"] /\ ram'["param"] \in Values /\ asked' = asked
      BY <1>r, <2>1, <2>2, <2>4
    <3> QED
      BY <1>r, <2>1, <2>2, <3>1 DEF SavedInv
  <2> QED
    BY <2>3, <2>4
<1>v. ASSUME EeConfigWrite(ram), Saved, ram' = ram
      PROVE  SavedInv'
  <2>1. magic' = TRUE /\ eeprom' = ram
    BY <1>v DEF EeConfigWrite
  <2>2. CASE asked = -1
    <3>1. asked' = -1 /\ ordered' = ordered
      BY <1>v, <2>2 DEF Saved
    <3> QED
      BY <1>v, <2>1, <2>2, <3>1 DEF SavedInv
  <2>3. CASE asked # -1
    <3>1. asked' = -1 /\ ordered' = IF ordered = -2 THEN -2 ELSE asked
      BY <1>v, <2>3 DEF Saved, Ordered, Unless
    <3>2. asked \in Modes
      BY <1>t, <2>3
    <3> QED
      BY <1>k, <1>v, <2>1, <2>3, <3>1, <3>2 DEF SavedInv
  <2> QED
    BY <2>2, <2>3
<1>3. CASE SaveCfg
  BY <1>3, <1>v DEF SaveCfg
<1>4. CASE LoadCfg
  <2>1. CASE magic
    <3>1. ram' = eeprom /\ asked' = -1 /\ UNCHANGED <<magic, eeprom, ordered>>
      BY <1>4, <2>1 DEF LoadCfg, EeConfigLoad
    <3> QED
      BY <2>1, <3>1 DEF SavedInv
  <2>2. CASE ~magic
    <3>1. EeConfigWrite(ram) /\ Saved /\ ram' = ram
      BY <1>4, <2>2 DEF LoadCfg, EeConfigLoad
    <3> QED
      BY <1>v, <3>1
  <2> QED
    BY <2>1, <2>2
<1>5. CASE Format
  BY <1>5, <1>k DEF Format, SavedInv
<1>m. ASSUME NEW m \in Modes, SaveMode(m)
      PROVE  /\ ram' \in Config /\ ram'["s_ssr"] = m /\ ram'["param"] = ram["param"]
             /\ magic' = TRUE /\ eeprom' = ram'
  <2>1. ram' = [ram EXCEPT !["s_ssr"] = m] /\ magic' = TRUE /\ eeprom' = ram'
    BY <1>m DEF SaveMode, EeConfigWrite
  <2>2. /\ [ram EXCEPT !["s_ssr"] = m] \in Config
        /\ [ram EXCEPT !["s_ssr"] = m]["s_ssr"] = m
        /\ [ram EXCEPT !["s_ssr"] = m]["param"] = ram["param"]
    BY <1>t, <1>r, ConfigExcept
  <2> QED
    BY <2>1, <2>2
<1>6. CASE SetSSR
  <2>1. Head(cmds).v \in Modes /\ SaveMode(Head(cmds).v)
        /\ ordered' = (IF ordered = -2 THEN -2 ELSE Head(cmds).v) /\ asked' = -1
    BY <1>6, <1>h DEF SetSSR, Read, Ordered, Unless
  <2> HIDE DEF Names
  <2>2. /\ ram' \in Config /\ ram'["s_ssr"] = Head(cmds).v
        /\ ram'["param"] = ram["param"] /\ magic' = TRUE /\ eeprom' = ram'
    BY <1>m, <2>1
  <2> USE DEF Names
  <2> QED
    BY <1>k, <1>r, <2>1, <2>2 DEF SavedInv
<1>7. CASE GarbledRead
  <2>1. CASE /\ \E p \in Names : \E v \in Bounds(p) : ram' = [ram EXCEPT ![p] = v]
             /\ Ordered(Garbled) /\ UNCHANGED <<magic, eeprom>>
    <3>1. PICK p \in Names : \E v \in Bounds(p) : ram' = [ram EXCEPT ![p] = v]
      BY <2>1
    <3>2. PICK v \in Bounds(p) : ram' = [ram EXCEPT ![p] = v]
      BY <3>1
    <3>3. /\ ram' \in Config /\ ram'[p] \in Bounds(p)
          /\ \A q \in Names \ {p} : ram'[q] = ram[q]
      <4>1. /\ [ram EXCEPT ![p] = v] \in Config
            /\ [ram EXCEPT ![p] = v][p] = v
            /\ \A q \in Names \ {p} : [ram EXCEPT ![p] = v][q] = ram[q]
        BY <1>t, ConfigExcept
      <4> QED
        BY <3>2, <4>1
    <3>4. ordered' = (IF ordered = -2 THEN -2 ELSE -1) /\ asked' = -1
      BY <2>1 DEF Ordered, Unless
    <3> QED
      BY <1>k, <2>1, <3>3, <3>4 DEF SavedInv
  <2>2. CASE /\ \E m \in Modes : SaveMode(m)
             /\ Ordered(Garbled)
    <3>1. PICK m \in Modes : SaveMode(m)
      BY <2>2
    <3>2. /\ ram' \in Config /\ ram'["s_ssr"] = m
          /\ ram'["param"] = ram["param"] /\ magic' = TRUE /\ eeprom' = ram'
      BY <1>m, <3>1
    <3>3. ordered' = (IF ordered = -2 THEN -2 ELSE -1) /\ asked' = -1
      BY <2>2 DEF Ordered, Unless
    <3> QED
      BY <1>k, <1>r, <3>2, <3>3 DEF SavedInv
  <2>3. CASE UNCHANGED <<arduino, history>>
    BY <2>3 DEF SavedInv
  <2> QED
    BY <1>7, <2>1, <2>2, <2>3 DEF GarbledRead
<1>8. CASE PowerCut
  <2>1. CASE magic
    BY <1>8, <2>1 DEF PowerCut, Setup, SavedInv
  <2>2. CASE ~magic
    <3>1. /\ magic' = TRUE /\ eeprom' = Default /\ ram' = Default
          /\ ordered' = Default["s_ssr"] /\ asked' = -1
      BY <1>8, <2>2 DEF PowerCut, Setup, EeConfigWrite
    <3> QED
      BY <1>k, <3>1 DEF SavedInv
  <2> QED
    BY <2>1, <2>2
<1>9. CASE PowerCutSetup \/ CutDuringWrite
  <2>1. /\ ordered' = -2 /\ asked' = -1 /\ Setup
        /\ \E m : CutWrite(m)
    BY <1>9 DEF PowerCutSetup, CutDuringWrite
  <2>2. magic' = TRUE /\ eeprom' \in Config /\ ram' \in Config
    BY <1>t, <2>1, CutTyped
  <2> QED
    BY <1>k, <2>1, <2>2 DEF SavedInv
<1>10. CASE MaxPV \/ UNCHANGED paramsVars
  BY <1>10, ArduinoAlone DEF SavedInv
<1> QED
  BY <1>1, <1>2, <1>3, <1>4, <1>5, <1>6, <1>7, <1>8, <1>9, <1>10
     DEF ParamsNext, EcoPV, SerialRequest

(* The inductive invariant, from any start with the program's own values.  *)
LEMMA SavedAlways == ParamsSpec => [](LineTyped /\ SavedInv)
<1>1. ParamsInit => LineTyped /\ SavedInv
  <2>1. ASSUME ParamsInit PROVE LineTyped
    <3>1. cmds = <<>> /\ frames = <<>>
      BY <2>1 DEF ParamsInit
    <3>2. shouldReadParams \in BOOLEAN
      BY <2>1 DEF ParamsInit
    <3> QED
      BY <3>1, <3>2, ParamsAssumption DEF LineTyped
  <2>2. ASSUME ParamsInit PROVE SavedInv
    BY <2>2, ParamsConstants DEF ParamsInit, SavedInv, InRange, ModeSurvives
  <2> QED
    BY <2>1, <2>2
<1>2. LineTyped /\ SavedInv /\ [ParamsNext]_paramsVars => LineTyped' /\ SavedInv'
  <2>1. SavedInv => ram \in Config
    BY DEF SavedInv
  <2> QED
    BY <2>1, LineStep, SavedStep
<1> QED
  BY <1>1, <1>2, PTL DEF ParamsSpec

(* The memories, the buffers of the two sides and the flag keep their      *)
(* types and their bounds.                                                 *)
THEOREM ParamsTyping == ParamsSpec => []ParamsTypeOK
<1>1. LineTyped /\ SavedInv => ParamsTypeOK
  <2> SUFFICES ASSUME LineTyped, SavedInv PROVE ParamsTypeOK
    OBVIOUS
  <2>1. \A i \in DOMAIN frames : frames[i].kind \in {"PARAM", "DONE"}
    <3>1. \A i \in DOMAIN frames : frames[i] \in Frames
      BY DEF LineTyped
    <3> QED
      BY <3>1 DEF Frames
  <2> QED
    BY <2>1 DEF LineTyped, SavedInv, ParamsTypeOK
<1> QED
  BY <1>1, SavedAlways, PTL

(* Whatever is garbled on the line, erased, loaded or restarted, the       *)
(* parameters in use are within their bounds, unless the power failed in a *)
(* write of the EEPROM.                                                    *)
THEOREM ParametersInRange == ParamsSpec => []InRange
<1>1. SavedInv => InRange
  BY DEF SavedInv
<1> QED
  BY <1>1, SavedAlways, PTL

(* A restart reads back the last mode ordered, though any SAVECFG, LOADCFG *)
(* or FORMAT came since, unless an order was garbled or a write cut.       *)
THEOREM SavedMode == ParamsSpec => []ModeSurvives
<1>1. SavedInv => ModeSurvives
  BY DEF SavedInv
<1> QED
  BY <1>1, SavedAlways, PTL
=============================================================================
