----------------------------- MODULE Regulator -----------------------------
(***************************************************************************)
(* The PI regulator of the router: what zeroCrossingInterrupt              *)
(* (EcoPV3/EcoPV3.ino) computes at each half period from the measured      *)
(* surplus, with its two measures against integral windup, and the tuning  *)
(* of the gains by SETPARAM while it runs.                                 *)
(*                                                                         *)
(* Data left out: the conversion of watts (P_MARGIN, P_OFFSET, E_RESERVE,  *)
(* P_CALIB) into the regulator's unit; the errors, the setpoint and the    *)
(* floor of the integral are given in that unit, after ERROR_BIT_SHIFT.    *)
(* The modes that override the output afterwards are in PVRouter.          *)
(***************************************************************************)
EXTENDS Integers, Sequences

CONSTANTS
  Errors,      \* the values of controlError (surplus is positive)
  MaxError,    \* a bound of their absolute values
  Setpoint,    \* P_SETPOINT >> ERROR_BIT_SHIFT
  MinIntegral, \* controlIntegralMinValue
  IGains,      \* values GAIN_I is given
  PGains,      \* values GAIN_P is given
  Scale,       \* 2 ^ COMMAND_BIT_SHIFT
  Full,        \* 255, the largest command
  MaxLong      \* largest value of the 32-bit type long

ASSUME RegulatorAssumption ==
  /\ MaxError \in Nat /\ Errors \subseteq (-MaxError)..MaxError
  /\ Setpoint \in (-MaxError)..MaxError
  /\ MinIntegral \in Int /\ MinIntegral <= 0
  /\ IGains \subseteq Nat /\ IGains # {} /\ PGains \subseteq Nat /\ PGains # {}
  /\ Scale \in Nat \ {0} /\ Full \in 1..255 /\ MaxLong \in Nat

NoDelay == 30000   \* OCR1A's unreachable value

energyToDelay == <<
  144, 143, 141, 140, 139, 137, 136, 135, 134, 133, 132, 131, 130, 129, 128, 128,
  127, 127, 126, 125, 124, 123, 123, 122, 122, 121, 121, 120, 119, 119, 118, 118,
  117, 117, 116, 116, 115, 115, 114, 114, 114, 113, 113, 112, 112, 112, 111, 111,
  110, 110, 109, 109, 109, 108, 108, 108, 107, 107, 107, 106, 106, 106, 105, 105,
  104, 104, 104, 103, 103, 103, 102, 102, 102, 101, 101, 101, 100, 100, 100,  99,
   99,  99,  99,  98,  98,  98,  97,  97,  97,  96,  96,  95,  95,  95,  95,  94,
   94,  94,  93,  93,  93,  93,  92,  92,  91,  91,  91,  91,  90,  90,  90,  89,
   89,  89,  88,  88,  88,  87,  87,  87,  86,  86,  86,  85,  85,  84,  84,  84,
   84,  83,  83,  83,  82,  82,  82,  82,  81,  81,  80,  80,  80,  80,  79,  79,
   79,  78,  78,  78,  77,  77,  77,  76,  76,  76,  75,  75,  74,  74,  74,  73,
   73,  73,  72,  72,  72,  71,  71,  71,  70,  70,  70,  69,  69,  69,  69,  68,
   68,  67,  67,  67,  66,  66,  65,  65,  65,  64,  64,  63,  63,  63,  62,  62,
   62,  61,  61,  61,  60,  60,  60,  59,  59,  58,  58,  58,  57,  57,  56,  56,
   56,  55,  55,  54,  54,  53,  53,  52,  52,  52,  51,  51,  50,  50,  50,  49,
   49,  48,  48,  47,  46,  45,  44,  44,  43,  43,  42,  42,  41,  41,  40,  39,
   39,  38,  37,  36,  35,  33,  32,  31,  27,  25,  20,  15,  12,  10,   9,   8 >>

VARIABLES
  gainI, gainP,   \* GAIN_I, GAIN_P
  integral,       \* controlIntegral
  lastError,      \* lastControlError
  ocr1a,          \* OCR1A: when the triac will be fired
  periodParity    \* alternates: no half period is a stuttering step

vars == <<gainI, gainP, integral, lastError, ocr1a, periodParity>>

Init ==
  /\ gainI \in IGains /\ gainP \in PGains
  /\ integral = 0 /\ lastError = Setpoint /\ ocr1a = NoDelay
  /\ periodParity = TRUE

(* The arithmetic of long; >> rounds down, as \div does. *)
Wrap(n) == IF n \in (-MaxLong - 1)..MaxLong THEN n
           ELSE ((n + MaxLong + 1) % (2 * MaxLong + 2)) - (MaxLong + 1)

(* What the sum of the two corrections would be without the 32-bit limit.  *)
Correction(e) == gainI * (integral + e) + gainP * (e + lastError)
Command(e) == Wrap(Correction(e)) \div Scale

(* No end of the integration at full power; a floor taken for the value at *)
(* rest.  As in PVRouter, a mutant is a plausible mistake in a definition  *)
(* that follows.                                                           *)
WindupMutant(i, c, e) == IF c <= 0 /\ i <= MinIntegral THEN MinIntegral ELSE i
RestMutant(i, c, e) == IF c <= 0 THEN MinIntegral
                       ELSE IF c > Full THEN i - e ELSE i

(* The two measures against windup: a floor when nothing is to be routed,  *)
(* no integration when the command saturates.                              *)
Limit(i, c, e) == IF c <= 0 /\ i <= MinIntegral THEN MinIntegral
                  ELSE IF c > Full THEN i - e ELSE i

ClipMutant(c) == c % 256   \* byte (controlCommand) without the test
Clip(c) == IF c > Full THEN Full ELSE c

DelayMutant(c) == energyToDelay[Clip(IF c < 0 THEN 0 ELSE c) + 1]
Delay(c) == IF c <= 0 THEN NoDelay ELSE energyToDelay[Clip(c) + 1]

HalfPeriod(e) ==
  /\ integral' = Limit(Wrap(integral + e), Command(e), e)
  /\ ocr1a' = Delay(Command(e))
  /\ lastError' = e
  /\ periodParity' = ~periodParity
  /\ UNCHANGED <<gainI, gainP>>

Regulate == \E e \in Errors : HalfPeriod(e)

(* A crossing of the warm-up, after each restart. *)
WarmUp ==
  /\ integral' = 0 /\ lastError' = Setpoint /\ ocr1a' = NoDelay
  /\ periodParity' = TRUE
  /\ UNCHANGED <<gainI, gainP>>

(* SETPARAM writes one gain, with interrupts masked; nothing is restarted. *)
SetGain ==
  /\ \/ gainI' \in IGains /\ UNCHANGED gainP
     \/ gainP' \in PGains /\ UNCHANGED gainI
  /\ UNCHANGED <<integral, lastError, ocr1a, periodParity>>

Next == Regulate \/ WarmUp \/ SetGain

Spec == Init /\ [][Next]_vars

----------------------------------------------------------------------------
(* Properties *)

TypeOK ==
  /\ gainI \in IGains /\ gainP \in PGains
  /\ integral \in Int /\ lastError \in (-MaxError)..MaxError
  /\ ocr1a \in {energyToDelay[c] : c \in 2..(Full + 1)} \cup {NoDelay}
  /\ periodParity \in BOOLEAN

(* "pour éviter le problème d'integral windup et de débordement de         *)
(* controlCommand": no half period overflows a long.                       *)
NoOverflow ==
  \A e \in Errors : Correction(e) \in (-MaxLong - 1)..MaxLong

(* A larger surplus never fires the triac later. *)
MoreSurplusFiresEarlier ==
  \A d, e \in Errors : d <= e => Delay(Command(e)) <= Delay(Command(d))

(* Each half period brings a crossing. *)
FairSpec == Spec /\ WF_vars(Regulate)

(* A surplus that lasts is routed at full power in the end, and a deficit  *)
(* that lasts ends all routing ("équilibre ou importation, donc pas de     *)
(* routage de puissance"), once the gains are left alone.                  *)
FullOnSurplus ==
  \A i \in IGains, p \in PGains :
    <>[](lastError > 0 /\ gainI = i /\ gainP = p)
      => <>[](ocr1a = energyToDelay[Full + 1])

(* The second holds when the gains are never changed while the router      *)
(* runs: an integral wound up under a smaller GAIN_I may saturate the      *)
(* command, and a saturated command freezes the integral at any error.     *)
NothingOnDeficitTuned ==
  \A i \in IGains, p \in PGains :
    [](gainI = i /\ gainP = p) /\ <>[](lastError < 0)
      => <>[](ocr1a = NoDelay)
=============================================================================
