---------------------------- MODULE RelayProofs ----------------------------
(***************************************************************************)
(* The minimal times of the relay (module Relay) for all TOn and TOff,     *)
(* with the external module, restarts and changes of mode at any time.     *)
(***************************************************************************)
EXTENDS Relay, TLAPS

RInv == TypeOK /\ CounterInv /\ (~running => ~pin)

(* The minimal times are natural numbers of seconds.                       *)
LEMMA TimesAreNat == TOn \in Nat /\ TOff \in Nat
  BY RelayAssumption

(* What one summand reaches, the sum reaches.                              *)
LEMMA SumAtLeast == \A x, y, d \in Nat : y >= d => x + y >= d
  OBVIOUS

(* What Remember records when a second or a stop changes the pin. *)
LEMMA RememberTyped ==
  ASSUME TypeOK, NEW who \in {"auto", "mode", "restart"}, NEW n \in {0, 1},
         Remember(who, n)
  PROVE  /\ cause' \in {"auto", "mode", "restart"}
         /\ since' \in 0..(TOn + TOff + 1)
  BY TimesAreNat DEF Remember, TypeOK

(* Each step, the two sides' and the frames', preserves the types.         *)
LEMMA RelayTyped == TypeOK /\ [Next]_vars => TypeOK'
<1> SUFFICES ASSUME TypeOK, [Next]_vars PROVE TypeOK'
  OBVIOUS
<1>1. ASSUME NEW received \in BOOLEAN, Second(received) PROVE TypeOK'
  <2>1. pin' \in BOOLEAN /\ onCnt' \in 0..TOn /\ offCnt' \in 0..TOff
    <3>1. CASE SwitchOn
      BY <3>1, TimesAreNat DEF SwitchOn, TypeOK
    <3>2. CASE HoldOn
      BY <3>2, TimesAreNat DEF HoldOn, TypeOK
    <3>3. CASE SwitchOff
      BY <3>3, TimesAreNat DEF SwitchOff, TypeOK
    <3>4. CASE HoldOff
      BY <3>4, TimesAreNat DEF HoldOff, TypeOK
    <3>5. CASE Forced
      BY <3>5, TimesAreNat DEF Forced
    <3> QED
      BY <1>1, <3>1, <3>2, <3>3, <3>4, <3>5 DEF Second, Automaton
  <2>2. /\ cause' \in {"auto", "mode", "restart"}
        /\ since' \in 0..(TOn + TOff + 1)
    BY <1>1, RememberTyped DEF Second
  <2>3. bit' \in BOOLEAN /\ seen' \in BOOLEAN
    BY <1>1, <2>1 DEF Second, Status, TypeOK
  <2>4. /\ surplus' \in BOOLEAN /\ import' \in BOOLEAN /\ tick' \in BOOLEAN
        /\ running' = running /\ relayMode' = relayMode /\ ext' = ext
        /\ espExt' = espExt /\ etatrelais' = etatrelais
        /\ httpRelay' = httpRelay /\ lost' = lost
    BY <1>1 DEF Second, TypeOK
  <2> QED
    BY <2>1, <2>2, <2>3, <2>4 DEF TypeOK
<1>2. CASE SetRelay \/ SetExt \/ ConfigExt \/ StartPVR
  <2>1. CASE SetRelay
    BY <2>1 DEF SetRelay, TypeOK, Modes, counters, inputs, esp, history
  <2>2. CASE SetExt
    BY <2>2 DEF SetExt, TypeOK, counters, inputs, esp, history
  <2>3. CASE ConfigExt
    <3>1. ext' \in BOOLEAN /\ espExt' \in BOOLEAN
      BY <2>3 DEF ConfigExt, TypeOK
    <3> QED
      BY <2>3, <3>1 DEF ConfigExt, TypeOK, counters, inputs, history
  <2>4. CASE StartPVR
    BY <2>4 DEF StartPVR, TypeOK, counters, inputs, esp, history
  <2> QED
    BY <1>2, <2>1, <2>2, <2>3, <2>4
<1>3. CASE StopPVR
  <2>1. /\ cause' \in {"auto", "mode", "restart"}
        /\ since' \in 0..(TOn + TOff + 1)
    BY <1>3, RememberTyped DEF StopPVR
  <2> QED
    BY <1>3, <2>1 DEF StopPVR, TypeOK, counters, inputs, esp
<1>4. CASE PowerCut
  <2>1. since' \in 0..(TOn + TOff + 1)
    <3>1. CASE pin
      BY <1>4, <3>1, TimesAreNat DEF PowerCut
    <3>2. CASE ~pin
      BY <1>4, <3>2 DEF PowerCut, TypeOK
    <3> QED
      BY <3>1, <3>2
  <2>2. onCnt' \in 0..TOn /\ offCnt' \in 0..TOff
    BY <1>4, TimesAreNat DEF PowerCut
  <2> QED
    BY <1>4, <2>1, <2>2 DEF PowerCut, TypeOK, inputs, esp
<1>5. ASSUME NEW d \in BOOLEAN, NEW a \in BOOLEAN, RelaisHttp(d, a)
      PROVE TypeOK'
  BY <1>5 DEF RelaisHttp, TypeOK, counters, inputs, history
<1>6. CASE RebootESP
  BY <1>6 DEF RebootESP, TypeOK, counters, inputs, history
<1>7. CASE UNCHANGED vars
  BY <1>7 DEF vars, TypeOK, counters, inputs, esp, history
<1> QED
  BY <1>1, <1>2, <1>3, <1>4, <1>5, <1>6, <1>7
     DEF Next, Arduino, ESP, CallDone, CallFailed, AnswerLost

(* A counter and the seconds since the pin changed make up the minimal     *)
(* time, whichever of the branches a second takes.                         *)
LEMMA SecondCounts ==
  ASSUME RInv, NEW received \in BOOLEAN, Second(received)
  PROVE  /\ CounterInv'
         /\ pin /\ ~pin' /\ cause = "auto" /\ cause' = "auto" => since >= TOn
         /\ ~pin /\ pin' /\ cause = "auto" /\ cause' = "auto" => since >= TOff
<1>1. /\ TOn \in Nat /\ TOff \in Nat /\ onCnt \in Nat /\ offCnt \in Nat
      /\ since \in Nat /\ pin \in BOOLEAN /\ CounterInv /\ ext \in BOOLEAN
      /\ onCnt <= TOn /\ offCnt <= TOff
  BY TimesAreNat DEF RInv, TypeOK
<1>t. TOn \in Nat /\ TOff \in Nat /\ since \in Nat
  BY <1>1
<1>2. CASE relayMode = "AUTOM"
  <2>1. Remember("auto", 1)
    BY <1>2 DEF Second
  <2>2. CASE SwitchOn
    <3>1. ~pin /\ offCnt = 0 /\ offCnt' = 0 /\ onCnt' = TOn
      BY <2>2 DEF SwitchOn, Starts
    <3>2. CASE pin'
      <4>1. cause' = "auto" /\ since' = 0
        BY <2>1, <3>1, <3>2 DEF Remember
      <4>2. cause = "auto" => since >= TOff
        BY <1>1, <3>1 DEF CounterInv
      <4>3. onCnt' + since' >= TOn
        BY <1>1, <3>1, <4>1
      <4>4. CounterInv'
        BY <3>1, <3>2, <4>3 DEF CounterInv
      <4> QED
        BY <3>1, <3>2, <4>2, <4>4
    <3>3. CASE ~pin'
      <4>1. pin' = pin
        BY <1>1, <2>2, <3>1, <3>3 DEF SwitchOn
      <4>2. since' \in Nat /\ since' >= since
        BY <1>1, <2>1, <4>1 DEF Remember
      <4>c. cause' = cause
        BY <2>1, <4>1 DEF Remember
      <4>3. cause = "auto" => since >= TOff
        BY <1>1, <3>1 DEF CounterInv
      <4>4. ASSUME since >= TOff PROVE offCnt' + since' >= TOff
        <5>1. offCnt' \in Nat
          BY <3>1
        <5>2. since' >= TOff
          BY <1>t, <4>2, <4>4
        <5> QED
          BY <1>t, <4>2, <5>1, <5>2, SumAtLeast
      <4>5. CounterInv'
        BY <3>1, <3>3, <4>c, <4>3, <4>4 DEF CounterInv
      <4> QED
        BY <3>1, <3>3, <4>5
    <3> QED
      BY <3>2, <3>3
  <2>3. CASE HoldOn
    BY <1>1, <2>1, <2>3 DEF HoldOn, Remember, CounterInv
  <2>4. CASE SwitchOff
    <3>1. pin /\ onCnt = 0 /\ onCnt' = 0 /\ offCnt' = TOff
      BY <2>4 DEF SwitchOff, Stops
    <3>2. cause = "auto" => since >= TOn
      BY <1>1, <3>1 DEF CounterInv
    <3>3. CASE ~pin'
      <4>1. cause' = "auto" /\ since' = 0
        BY <2>1, <3>1, <3>3 DEF Remember
      <4>2. offCnt' + since' >= TOff
        BY <1>1, <3>1, <4>1
      <4>3. CounterInv'
        BY <3>1, <3>3, <4>2 DEF CounterInv
      <4> QED
        BY <3>1, <3>2, <3>3, <4>3
    <3>4. CASE pin'
      <4>1. pin' = pin
        BY <1>1, <2>4, <3>1, <3>4 DEF SwitchOff
      <4>2. since' \in Nat /\ since' >= since
        BY <1>1, <2>1, <4>1 DEF Remember
      <4>c. cause' = cause
        BY <2>1, <4>1 DEF Remember
      <4>3. ASSUME since >= TOn PROVE onCnt' + since' >= TOn
        <5>1. onCnt' \in Nat
          BY <3>1
        <5>2. since' >= TOn
          BY <1>t, <4>2, <4>3
        <5> QED
          BY <1>t, <4>2, <5>1, <5>2, SumAtLeast
      <4>4. CounterInv'
        BY <3>1, <3>2, <3>4, <4>c, <4>3 DEF CounterInv
      <4> QED
        BY <3>1, <3>4, <4>4
    <3> QED
      BY <3>3, <3>4
  <2>5. CASE HoldOff
    BY <1>1, <2>1, <2>5 DEF HoldOff, Remember, CounterInv
  <2> QED
    BY <1>2, <2>2, <2>3, <2>4, <2>5 DEF Second, Automaton, Forced
<1>3. CASE relayMode # "AUTOM"
  <2>1. Remember("mode", 1) /\ Forced
    BY <1>3 DEF Second, Automaton
  <2>2. cause' # "auto" /\ onCnt' = 0
    BY <2>1 DEF Remember, Forced
  <2> QED
    BY <2>2 DEF CounterInv
<1> QED
  BY <1>2, <1>3

(* The other steps leave the pin and the counters, or end the automaton's  *)
(* responsibility for the pin.                                             *)
LEMMA OthersCount ==
  ASSUME RInv, [Next]_vars, ~\E received \in BOOLEAN : Second(received)
  PROVE  /\ CounterInv' /\ (~running' => ~pin')
         /\ running /\ pin /\ ~pin' => cause' # "auto"
         /\ ~(~pin /\ pin')
<1>1. CASE StopPVR
  BY <1>1, TimesAreNat DEF StopPVR, Remember, RInv, TypeOK, CounterInv, counters
<1>2. CASE StartPVR
  BY <1>2 DEF StartPVR, RInv, CounterInv, counters, history
<1>3. CASE PowerCut
  BY <1>3 DEF PowerCut, CounterInv
<1>4. ASSUME UNCHANGED <<pin, counters, history, running>>
      PROVE /\ CounterInv' /\ (~running' => ~pin')
            /\ running /\ pin /\ ~pin' => cause' # "auto"
            /\ ~(~pin /\ pin')
  BY <1>4 DEF RInv, CounterInv, counters, history
<1>5. CASE SetRelay \/ SetExt \/ ConfigExt \/ RebootESP \/ UNCHANGED vars
  BY <1>4, <1>5 DEF SetRelay, SetExt, ConfigExt, RebootESP, vars
<1>6. CASE \E d, a \in BOOLEAN : RelaisHttp(d, a)
  BY <1>4, <1>6 DEF RelaisHttp
<1> QED
  BY <1>1, <1>2, <1>3, <1>5, <1>6
     DEF Next, Arduino, ESP, CallDone, CallFailed, AnswerLost

(* The inductive invariant. *)
LEMMA RelayInvariant == Spec => []RInv
<1>1. Init => RInv
  <2> SUFFICES ASSUME Init PROVE RInv
    OBVIOUS
  <2>1. onCnt \in 0..TOn /\ offCnt \in 0..TOff /\ since \in 0..(TOn + TOff + 1)
    BY TimesAreNat DEF Init
  <2>2. TypeOK
    BY <2>1 DEF Init, TypeOK, Modes
  <2>3. CounterInv /\ ~pin
    BY DEF Init, CounterInv
  <2> QED
    BY <2>2, <2>3 DEF RInv
<1>2. RInv /\ [Next]_vars => RInv'
  <2> SUFFICES ASSUME RInv, [Next]_vars PROVE RInv'
    OBVIOUS
  <2>1. TypeOK'
    BY RelayTyped DEF RInv
  <2>2. ASSUME NEW received \in BOOLEAN, Second(received)
        PROVE CounterInv' /\ (~running' => ~pin')
    BY <2>2, SecondCounts DEF Second
  <2> QED
    BY <2>1, <2>2, OthersCount DEF RInv
<1> QED
  BY <1>1, <1>2, PTL DEF Spec

(* Type correctness of the relay's two sides. *)
THEOREM RelayTyping == Spec => []TypeOK
<1>1. RInv => TypeOK
  BY DEF RInv
<1> QED
  BY <1>1, RelayInvariant, PTL

(* T_DIV2_ON is respected by the automaton. *)
THEOREM MinimalOnTime == Spec => MinimalOn
<1>1. RInv /\ [Next]_vars =>
        [running /\ pin /\ ~pin' /\ cause = "auto" /\ cause' = "auto"
           => since >= TOn]_vars
  BY SecondCounts, OthersCount
<1> QED
  BY <1>1, RelayInvariant, PTL DEF Spec, MinimalOn

(* T_DIV2_OFF is respected by the automaton, across restarts too. *)
THEOREM MinimalOffTime == Spec => MinimalOff
<1>1. RInv /\ [Next]_vars =>
        [~pin /\ pin' /\ cause = "auto" /\ cause' = "auto"
           => since >= TOff]_vars
  BY SecondCounts, OthersCount
<1> QED
  BY <1>1, RelayInvariant, PTL DEF Spec, MinimalOff
=============================================================================
