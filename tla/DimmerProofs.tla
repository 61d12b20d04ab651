---------------------------- MODULE DimmerProofs ----------------------------
(***************************************************************************)
(* Safety of the second router for every value of the constants: any power *)
(* of the dimmers, any readings of the meter, any network.                 *)
(***************************************************************************)
EXTENDS Dimmer, TLAPS

(* The tuples UNCHANGED is stated with.                                    *)
USE DEF counters, energy, history, vars

(* The constants one by one.                                               *)
LEMMA Positive ==
  /\ Sum \in Nat /\ Resistance \in Nat /\ Period \in Nat /\ Check \in Nat
  /\ Tries \in Nat /\ Wh \in Nat /\ Limit \in Nat /\ Wrap \in Nat
  /\ MaxBacklog \in Nat /\ MaxWraps \in Nat /\ Margin \in Nat /\ Low \in Nat /\ High \in Nat
  /\ Sum > 0 /\ Period > 0 /\ Wh > 0 /\ Wrap > 0 /\ MaxWraps > 0
  BY DimmerAssumption

(* The power that MaxPV keeps for the dimmers, and theirs, are bounded.    *)
LEMMA ClipRange ==
  \A p \in Int : Clip(p) \in 0..Sum /\ (p > 0 <=> Clip(p) > 0)
  BY Positive DEF Clip

(* Zero is in the ranges of what a reset clears.                           *)
LEMMA Zero ==
  /\ 0 \in 0..Sum /\ 0 \in 0..Check /\ 0 \in 0..Tries /\ 0 \in 0..(Wrap - 1)
  /\ 0 \in 0..MaxBacklog /\ 0 \in 0..(Limit + 1) /\ 0 \in 0..MaxWraps
  BY Positive

(* An order to the dimmers is an OFF exactly when it leaves no power, and  *)
(* the Arduino is told of one that switches them on.                       *)
LEMMA CallMade ==
  ASSUME NEW dpow \in Int, told \in BOOLEAN, dimmer_act \in BOOLEAN,
         dimmer_pow \in 0..Sum, CallDimmer(dpow)
  PROVE  /\ told' \in BOOLEAN /\ (told => told')
         /\ \/ call' = [url |-> "off", dpow |-> dpow] /\ dimmer_pow + dpow <= 0
            \/ /\ call' = [url |-> "power", dpow |-> dpow]
               /\ dimmer_pow + dpow > 0 /\ (dimmer_act \/ told')
  <1> DEFINE sum == dimmer_pow + dpow
  <1>1. sum \in Int /\ (sum > 0 <=> ~(sum <= 0))
    BY Positive
  <1>2. CASE sum > 0
    <2>1. call' = [url |-> "power", dpow |-> dpow]
      BY <1>1, <1>2 DEF CallDimmer
    <2>2. (~dimmer_act /\ told' = TRUE) \/ (dimmer_act /\ told' = told)
      BY <1>2 DEF CallDimmer, DimmerActEcoPV
    <2> QED BY <1>2, <2>1, <2>2
  <1>3. CASE sum <= 0
    <2>1. call' = [url |-> "off", dpow |-> dpow] /\ told' = told
      BY <1>1, <1>3 DEF CallDimmer
    <2> QED BY <1>3, <2>1
  <1> QED BY <1>1, <1>2, <1>3

(* What the regulation asks for is an order or nothing.                    *)
LEMMA RegulateCalls ==
  ASSUME NEW p \in Int, NEW routed \in Nat, NEW autom, dimmer_pow \in 0..Sum,
         Regulate(p, routed, autom)
  PROVE  NoCall \/ \E dpow \in Int : CallDimmer(dpow)
  <1>1. /\ \A x \in Int : Damped(x) \in Int
        /\ \A x, y \in Int : Least(x, y) \in Int
    BY Positive DEF Damped, Least
  <1>2. Sum \in Nat /\ Resistance \in Nat /\ Margin \in Nat
    BY Positive
  <1>3. CASE -p > Margin /\ dimmer_pow < Sum
    <2>1. Least(Damped(-p), Sum - dimmer_pow) \in Int BY <1>1, <1>2
    <2> QED BY <1>3, <2>1 DEF Regulate
  <1>4. CASE ~(-p > Margin /\ dimmer_pow < Sum) /\ p > Margin /\ dimmer_pow > 0
    <2> DEFINE cp == IF p > High THEN p \div 2 ELSE p
    <2>1. cp \in Int BY Positive
    <2>2. CallDimmer(IF dimmer_pow < cp THEN -Sum ELSE -cp)
      BY <1>4 DEF Regulate
    <2>3. (IF dimmer_pow < cp THEN -Sum ELSE -cp) \in Int BY <1>2, <2>1
    <2> QED BY <2>2, <2>3
  <1>5. CASE /\ ~(-p > Margin /\ dimmer_pow < Sum)
             /\ ~(p > Margin /\ dimmer_pow > 0)
    <2>1. -(Resistance - routed + Margin) \in Int BY <1>2
    <2> QED BY <1>5, <2>1 DEF Regulate
  <1> QED BY <1>3, <1>4, <1>5

(* In one second the engine makes an order, asks whether the dimmers are   *)
(* alive, or makes no call.                                                *)
LEMMA EngineCalls ==
  ASSUME dimmer_pow \in 0..Sum, Engine
  PROVE  NoCall \/ \E dpow \in Int : CallDimmer(dpow)
  <1>1. Sum \in Int /\ SwitchOff \in Int BY Positive DEF SwitchOff
  <1>2. ASSUME NEW p \in Readings, NEW routed \in Routed, NEW autom \in BOOLEAN,
               Automatic(p, routed, autom)
        PROVE  NoCall \/ \E dpow \in Int : CallDimmer(dpow)
    <2>1. p \in Int /\ routed \in Nat BY DimmerAssumption
    <2> QED BY <1>2, <2>1, RegulateCalls DEF Automatic
  <1> QED BY <1>1, <1>2 DEF Engine

----------------------------------------------------------------------------
(* Typing *)

(* The mode, the order of the second and its answer are typed.             *)
OrderTypeOK ==
  /\ dimmer_m \in Modes /\ dimmer_act \in BOOLEAN /\ dimmer_pow \in 0..Sum
  /\ call \in [url : {"none", "state", "init", "power", "off"}, dpow : Int]
  /\ device \in 0..Sum /\ told \in BOOLEAN
  /\ astray \in BOOLEAN /\ abandoned \in BOOLEAN /\ wraps \in 0..MaxWraps

(* The bytes that count seconds and failures, and the daily index.         *)
CountTypeOK ==
  /\ dimmer_count \in 0..Check /\ dimmer_compute \in 0..(Wrap - 1)
  /\ dimmer_try \in 0..Tries
  /\ dimmerwattsec \in 0..MaxBacklog /\ dimmer_indexJ \in 0..(Limit + 1)

(* Passing seconds and counted periods keep the history in its range.      *)
LEMMA WrapsTyping ==
  ASSUME wraps \in 0..MaxWraps,
         Wrapping \/ (\E ws \in Int : CountWh(ws)) \/ UNCHANGED wraps
  PROVE  wraps' \in 0..MaxWraps
  <1>1. Least(wraps + 1, MaxWraps) \in 0..MaxWraps BY Positive DEF Least
  <1>2. CASE Wrapping BY <1>1, <1>2 DEF Wrapping
  <1>3. CASE \E ws \in Int : CountWh(ws)
    <2>1. PICK ws \in Int : CountWh(ws) BY <1>3
    <2> QED BY <2>1, Zero DEF CountWh
  <1> QED BY <1>2, <1>3

LEMMA OrderTyping == OrderTypeOK /\ CountTypeOK /\ [Next]_vars => OrderTypeOK'
  <1> SUFFICES ASSUME OrderTypeOK, CountTypeOK, [Next]_vars PROVE OrderTypeOK'
    OBVIOUS
  <1> USE DEF OrderTypeOK
  <1>1. CASE DimmerEngine
    <2>1. CASE Ping
      BY <1>1, <2>1 DEF DimmerEngine, Ping
    <2>2. CASE Engine
      <3>1. wraps' \in 0..MaxWraps
        <4>1. CASE Passive BY <4>1, WrapsTyping DEF Passive
        <4>2. ASSUME NEW p \in Readings, NEW routed \in Routed,
                     NEW autom \in BOOLEAN, Automatic(p, routed, autom)
              PROVE  wraps' \in 0..MaxWraps
          <5>1. CASE Wrapping BY <5>1, WrapsTyping
          <5>2. CASE CountWh(Least(dimmerwattsec + dimmer_pow, MaxBacklog))
            <6>1. Least(dimmerwattsec + dimmer_pow, MaxBacklog) \in Int
              BY Positive DEF Least, CountTypeOK
            <6> QED BY <5>2, <6>1, WrapsTyping
          <5> QED BY <4>2, <5>1, <5>2 DEF Automatic
        <4> QED BY <2>2, <4>1, <4>2 DEF Engine
      <3>2. CASE NoCall
        BY <1>1, <3>1, <3>2 DEF DimmerEngine, NoCall
      <3>3. ASSUME NEW dpow \in Int, CallDimmer(dpow) PROVE OrderTypeOK'
        BY <1>1, <3>1, <3>3, CallMade DEF DimmerEngine
      <3> QED BY <2>2, <3>2, <3>3, EngineCalls
    <2> QED BY <1>1, <2>1, <2>2 DEF DimmerEngine
  <1>2. CASE CallAnswered
    <2>1. dimmer_pow + call.dpow \in Int /\ device + call.dpow \in Int
      BY Positive
    <2>2. /\ Clip(dimmer_pow + call.dpow) \in 0..Sum
          /\ Clip(device + call.dpow) \in 0..Sum
      BY <2>1, ClipRange
    <2>3. call' \in [url : {"none", "state", "init", "power", "off"}, dpow : Int]
      BY <1>2 DEF CallAnswered, None
    <2>4. device' \in 0..Sum /\ dimmer_pow' \in 0..Sum
      BY <1>2, <2>2, Zero DEF CallAnswered, Unlit
    <2>5. (dimmer_pow' > 0) \in BOOLEAN
      OBVIOUS
    <2>6. dimmer_act' \in BOOLEAN
      BY <1>2, <2>5 DEF CallAnswered
    <2>7. told' \in BOOLEAN
      BY <1>2 DEF CallAnswered, DimmerActEcoPV
    <2>8. dimmer_m' \in Modes /\ wraps' \in 0..MaxWraps
      BY <1>2 DEF CallAnswered
    <2>9. astray' \in BOOLEAN /\ abandoned' \in BOOLEAN
      BY <1>2 DEF CallAnswered, Unlit
    <2> QED BY <2>3, <2>4, <2>6, <2>7, <2>8, <2>9
  <1>3. CASE PingAnswered
    BY <1>3 DEF PingAnswered, None
  <1>4. CASE CallFailed
    <2>1. Clip(device + call.dpow) \in 0..Sum /\ 0 \in 0..Sum
      BY Positive, ClipRange
    <2> QED BY <1>4, <2>1 DEF CallFailed
  <1>5. CASE InitAnswered
    <2>1. dimmer_act' \in BOOLEAN /\ told' \in BOOLEAN
      BY <1>5 DEF InitAnswered, DimmerActEcoPV
    <2>2. astray' \in BOOLEAN /\ abandoned' \in BOOLEAN /\ wraps' \in 0..MaxWraps
      BY <1>5 DEF InitAnswered, Unlit
    <2>3. /\ dimmer_m' \in Modes /\ dimmer_pow' \in 0..Sum /\ device' \in 0..Sum
          /\ call' \in [url : {"none", "state", "init", "power", "off"}, dpow : Int]
      BY <1>5, Zero DEF InitAnswered, Unlit, None
    <2> QED BY <2>1, <2>2, <2>3
  <1>6. CASE InitFailed
    <2>1. (device' > 0) \in BOOLEAN
      OBVIOUS
    <2>2. CASE Failsafe
      <3>1. abandoned' \in BOOLEAN
        BY <2>1, <2>2 DEF Failsafe
      <3>2. dimmer_m' \in Modes /\ dimmer_act' \in BOOLEAN /\ told' \in BOOLEAN
        BY <2>2 DEF Failsafe, Modes, DimmerActEcoPV
      <3>3. dimmer_pow' \in 0..Sum /\ device' \in 0..Sum
        BY <1>6, <2>2, Zero DEF InitFailed, Failsafe
      <3>4. astray' \in BOOLEAN /\ wraps' \in 0..MaxWraps
        BY <1>6 DEF InitFailed
      <3>5. call' \in [url : {"none", "state", "init", "power", "off"}, dpow : Int]
        BY <1>6 DEF InitFailed, None
      <3> QED BY <3>1, <3>2, <3>3, <3>4, <3>5
    <2>3. CASE UNCHANGED <<dimmer_m, dimmer_act, dimmer_pow, told, abandoned>>
      BY <1>6, <2>3, Zero DEF InitFailed, None
    <2> QED BY <1>6, <2>2, <2>3 DEF InitFailed
  <1>7. CASE \E m \in Modes : SetMode(m)
    BY <1>7 DEF SetMode
  <1>8. CASE Midnight \/ IndexReset
    BY <1>8 DEF Midnight, IndexReset, NoIndex
  <1>9. CASE RebootESP
    <2>1. (device > 0) \in BOOLEAN
      OBVIOUS
    <2>2. abandoned' \in BOOLEAN
      BY <1>9, <2>1 DEF RebootESP
    <2>3. dimmer_act' \in BOOLEAN /\ told' \in BOOLEAN
      BY <1>9 DEF RebootESP, DimmerActEcoPV
    <2>4. /\ dimmer_m' \in Modes /\ dimmer_pow' \in 0..Sum /\ device' \in 0..Sum
          /\ call' \in [url : {"none", "state", "init", "power", "off"}, dpow : Int]
          /\ astray' \in BOOLEAN /\ wraps' \in 0..MaxWraps
      BY <1>9, Zero DEF RebootESP
    <2> QED BY <2>2, <2>3, <2>4
  <1>10. CASE UNCHANGED vars
    BY <1>10
  <1> QED
    BY <1>1, <1>2, <1>3, <1>4, <1>5, <1>6, <1>7, <1>8, <1>9, <1>10
       DEF Next, Answered, Failed

(* Under the byte that counts the seconds, the watt seconds: one watt hour *)
(* is taken from them when they hold it.                                   *)
LEMMA CountTyping == OrderTypeOK /\ CountTypeOK /\ [Next]_vars => CountTypeOK'
  <1> SUFFICES ASSUME OrderTypeOK, CountTypeOK, [Next]_vars PROVE CountTypeOK'
    OBVIOUS
  <1> USE DEF CountTypeOK
  <1>1. CASE DimmerEngine
    <2>1. dimmer_try' \in 0..Tries
      BY <1>1 DEF DimmerEngine
    <2>2. CASE Ping
      BY <1>1, <2>1, <2>2, Zero DEF DimmerEngine, Ping
    <2>3. CASE Engine /\ dimmer_count' = Least(dimmer_count + 1, Check)
      <3>1. dimmer_count' \in 0..Check
        BY <2>3, Positive DEF Least
      <3>2. CASE Passive
        <4>1. NextSecond \in 0..(Wrap - 1)
          BY Positive DEF NextSecond
        <4> QED BY <2>1, <3>1, <3>2, <4>1 DEF Passive
      <3>3. CASE /\ ~LimitReached /\ dimmer_m = "AUTOM"
                 /\ \E p \in Readings, routed \in Routed, autom \in BOOLEAN :
                      Automatic(p, routed, autom)
        <4> PICK p \in Readings, routed \in Routed, autom \in BOOLEAN :
                   Automatic(p, routed, autom)
          BY <3>3
        <4> DEFINE ws == Least(dimmerwattsec + dimmer_pow, MaxBacklog)
        <4>1. ws \in 0..MaxBacklog
          BY Positive DEF Least, OrderTypeOK
        <4>2. dimmer_indexJ + 1 \in 0..(Limit + 1)
          BY <3>3, Positive DEF LimitReached
        <4>3. NextSecond \in 0..(Wrap - 1)
          BY Positive DEF NextSecond
        <4>4. dimmer_compute' \in 0..(Wrap - 1)
          BY <4>3, Zero DEF Automatic
        <4>5. CASE CountWh(ws)
          BY <2>1, <3>1, <4>1, <4>2, <4>4, <4>5, Positive DEF CountWh
        <4>6. CASE dimmerwattsec' = ws /\ UNCHANGED dimmer_indexJ
          BY <2>1, <3>1, <4>1, <4>4, <4>6
        <4> QED BY <4>5, <4>6 DEF Automatic
      <3> QED BY <2>3, <3>2, <3>3 DEF Engine
    <2> QED BY <1>1, <2>2, <2>3 DEF DimmerEngine
  <1>2. CASE CallAnswered \/ InitAnswered
    BY <1>2, Zero DEF CallAnswered, InitAnswered
  <1>3. CASE PingAnswered \/ CallFailed
    BY <1>3 DEF PingAnswered, CallFailed
  <1>4. CASE InitFailed
    <2>1. dimmer_try' \in 0..Tries
      <3>1. dimmer_try + 1 > Tries \/ dimmer_try + 1 \in 0..Tries
        BY Positive
      <3> QED BY <1>4, <3>1, Zero DEF InitFailed, Failsafe
    <2> QED BY <1>4, <2>1 DEF InitFailed
  <1>5. CASE \E m \in Modes : SetMode(m)
    BY <1>5 DEF SetMode
  <1>6. CASE Midnight \/ IndexReset
    BY <1>6, Zero DEF Midnight, IndexReset, NoIndex
  <1>7. CASE RebootESP
    BY <1>7, Zero DEF RebootESP
  <1>8. CASE UNCHANGED vars
    BY <1>8
  <1> QED
    BY <1>1, <1>2, <1>3, <1>4, <1>5, <1>6, <1>7, <1>8
       DEF Next, Answered, Failed

(* Type correctness of the second router.                                  *)
THEOREM DimmerTyped == Spec => []TypeOK
  <1>1. Init => OrderTypeOK /\ CountTypeOK
    <2>1. Init => /\ dimmer_act \in BOOLEAN /\ told \in BOOLEAN
                  /\ astray \in BOOLEAN /\ abandoned \in BOOLEAN
      BY DEF Init
    <2>2. Init => /\ dimmer_m \in Modes /\ dimmer_pow \in 0..Sum
                  /\ call \in [url : {"none", "state", "init", "power", "off"},
                                dpow : Int]
                  /\ device \in 0..Sum /\ wraps \in 0..MaxWraps /\ CountTypeOK
      BY Zero DEF Init, CountTypeOK
    <2> QED BY <2>1, <2>2 DEF OrderTypeOK
  <1>2. OrderTypeOK /\ CountTypeOK /\ [Next]_vars
          => OrderTypeOK' /\ CountTypeOK'
    BY OrderTyping, CountTyping
  <1>3. OrderTypeOK /\ CountTypeOK => TypeOK
    BY DEF OrderTypeOK, CountTypeOK, TypeOK
  <1> QED BY <1>1, <1>2, <1>3, PTL DEF Spec

----------------------------------------------------------------------------
(* The Arduino is told, and the powers agree                               *)

(* An order in progress is an OFF that leaves no power, or an order that   *)
(* the Arduino has been told of before it left.                            *)
OrderInv ==
  /\ dimmer_act => told
  /\ call.url \in {"power", "state"} => told
  /\ call.url = "power" => dimmer_pow + call.dpow > 0
  /\ call.url = "off" => dimmer_pow + call.dpow <= 0

(* The steps that neither begin nor end an order.                          *)
LEMMA OrderKept ==
  ASSUME OrderInv, UNCHANGED <<dimmer_act, dimmer_pow, told, call>>
  PROVE  OrderInv'
  BY DEF OrderInv

LEMMA OrderStep == OrderTypeOK /\ OrderInv /\ [Next]_vars => OrderInv'
  <1> SUFFICES ASSUME OrderTypeOK, OrderInv, [Next]_vars PROVE OrderInv'
    OBVIOUS
  <1>1. CASE DimmerEngine
    <2>1. UNCHANGED <<dimmer_act, dimmer_pow>>
      BY <1>1 DEF DimmerEngine
    <2>2. CASE Ping
      BY <2>1, <2>2 DEF Ping, OrderInv
    <2>3. CASE NoCall
      BY <2>1, <2>3, OrderKept DEF NoCall
    <2>4. ASSUME NEW dpow \in Int, CallDimmer(dpow) PROVE OrderInv'
      <3>1. /\ told' \in BOOLEAN /\ (told => told')
            /\ \/ /\ call' = [url |-> "off", dpow |-> dpow]
                  /\ dimmer_pow + dpow <= 0
               \/ /\ call' = [url |-> "power", dpow |-> dpow]
                  /\ dimmer_pow + dpow > 0 /\ (dimmer_act \/ told')
        BY <2>4, CallMade DEF OrderTypeOK
      <3>2. dimmer_act => told
        BY DEF OrderInv
      <3>3. dimmer_act' => told'
        BY <2>1, <3>1, <3>2
      <3>4. CASE call' = [url |-> "off", dpow |-> dpow] /\ dimmer_pow + dpow <= 0
        BY <2>1, <3>3, <3>4 DEF OrderInv
      <3>5. CASE /\ call' = [url |-> "power", dpow |-> dpow]
                 /\ dimmer_pow + dpow > 0 /\ told'
        BY <2>1, <3>3, <3>5 DEF OrderInv
      <3> QED BY <3>1, <3>2, <3>4, <3>5
    <2>5. Ping \/ NoCall \/ \E dpow \in Int : CallDimmer(dpow)
      BY <1>1, EngineCalls DEF DimmerEngine, OrderTypeOK
    <2> QED BY <2>2, <2>3, <2>4, <2>5
  <1>2. CASE CallAnswered
    <2>1. call'.url = "none"
      BY <1>2 DEF CallAnswered, None
    <2>2. CASE call.url = "off"
      <3>1. dimmer_pow + call.dpow \in Int /\ ~(dimmer_pow + call.dpow > 0)
        BY <2>2, Positive DEF OrderInv, OrderTypeOK
      <3>2. ~(dimmer_pow' > 0)
        BY <1>2, <3>1, ClipRange DEF CallAnswered
      <3>3. ~dimmer_act'
        BY <1>2, <3>2 DEF CallAnswered
      <3> QED BY <2>1, <3>3 DEF OrderInv
    <2>3. CASE call.url = "power"
      <3>1. dimmer_pow + call.dpow \in Int /\ dimmer_pow + call.dpow > 0
        BY <2>3, Positive DEF OrderInv, OrderTypeOK
      <3>2. dimmer_pow' # 0
        BY <1>2, <3>1, ClipRange DEF CallAnswered
      <3>3. told' = told
        BY <1>2, <3>2 DEF CallAnswered
      <3> QED BY <2>1, <2>3, <3>3 DEF OrderInv
    <2> QED BY <1>2, <2>2, <2>3 DEF CallAnswered
  <1>3. CASE PingAnswered
    BY <1>3 DEF PingAnswered, OrderInv, None
  <1>4. CASE CallFailed
    BY <1>4 DEF CallFailed, OrderInv
  <1>5. CASE InitAnswered
    <2>1. call'.url = "none" /\ ~dimmer_act'
      BY <1>5 DEF InitAnswered, None
    <2> QED BY <2>1 DEF OrderInv
  <1>6. CASE InitFailed
    <2>1. call'.url = "none"
      BY <1>6 DEF InitFailed, None
    <2>2. ~dimmer_act' \/ (dimmer_act' = dimmer_act /\ told' = told)
      BY <1>6 DEF InitFailed, Failsafe
    <2> QED BY <2>1, <2>2 DEF OrderInv
  <1>7. CASE (\E m \in Modes : SetMode(m)) \/ Midnight \/ IndexReset
    BY <1>7, OrderKept DEF SetMode, Midnight, IndexReset, NoIndex
  <1>8. CASE RebootESP
    <2>1. call'.url = "init" /\ ~dimmer_act'
      BY <1>8 DEF RebootESP
    <2> QED BY <2>1 DEF OrderInv
  <1>9. CASE UNCHANGED vars
    BY <1>9, OrderKept
  <1> QED
    BY <1>1, <1>2, <1>3, <1>4, <1>5, <1>6, <1>7, <1>8, <1>9
       DEF Next, Answered, Failed

(* Whatever the calls do, dimmers that draw power are known to the Arduino *)
(* or given up.                                                            *)
LEMMA InterlockStep ==
  OrderTypeOK /\ OrderInv /\ Interlock /\ [Next]_vars => Interlock'
  <1> SUFFICES ASSUME OrderTypeOK, OrderInv, Interlock, [Next]_vars
               PROVE  Interlock'
    OBVIOUS
  <1>1. CASE DimmerEngine
    <2>1. UNCHANGED <<device, abandoned>>
      BY <1>1 DEF DimmerEngine
    <2>2. Ping \/ NoCall \/ \E dpow \in Int : CallDimmer(dpow)
      BY <1>1, EngineCalls DEF DimmerEngine, OrderTypeOK
    <2>3. told => told'
      <3>1. ASSUME NEW dpow \in Int, CallDimmer(dpow) PROVE told => told'
        BY <3>1, CallMade DEF OrderTypeOK
      <3> QED BY <2>2, <3>1 DEF Ping, NoCall
    <2> QED BY <2>1, <2>3 DEF Interlock
  <1>2. CASE CallAnswered
    <2>1. CASE call.url = "off"
      <3>1. device' = 0
        BY <1>2, <2>1 DEF CallAnswered, Unlit
      <3>2. ~(device' > 0)
        BY <3>1
      <3> QED BY <3>2 DEF Interlock
    <2>2. CASE call.url = "power"
      <3>1. dimmer_pow + call.dpow \in Int /\ dimmer_pow + call.dpow > 0
        BY <2>2, Positive DEF OrderInv, OrderTypeOK
      <3>2. dimmer_pow' # 0
        BY <1>2, <3>1, ClipRange DEF CallAnswered
      <3>3. told' = told
        BY <1>2, <3>2 DEF CallAnswered
      <3> QED BY <2>2, <3>3 DEF OrderInv, Interlock
    <2> QED BY <1>2, <2>1, <2>2 DEF CallAnswered
  <1>3. CASE CallFailed
    <2>1. UNCHANGED <<told, abandoned>>
      BY <1>3 DEF CallFailed
    <2>2. CASE call.url \in {"power", "state"}
      BY <2>1, <2>2 DEF OrderInv, Interlock
    <2>3. CASE call.url = "off"
      <3>1. device' = device \/ ~(device' > 0)
        BY <1>3, <2>3 DEF CallFailed
      <3> QED BY <2>1, <3>1 DEF Interlock
    <2> QED BY <1>3, <2>2, <2>3 DEF CallFailed
  <1>4. CASE InitAnswered
    <2>1. device' = 0
      BY <1>4 DEF InitAnswered, Unlit
    <2>2. ~(device' > 0)
      BY <2>1
    <2> QED BY <2>2 DEF Interlock
  <1>5. CASE InitFailed
    <2>1. CASE Failsafe
      BY <2>1 DEF Failsafe, Interlock
    <2>2. CASE UNCHANGED <<told, abandoned>>
      <3>1. device' = device \/ ~(device' > 0)
        BY <1>5 DEF InitFailed
      <3> QED BY <2>2, <3>1 DEF Interlock
    <2> QED BY <1>5, <2>1, <2>2 DEF InitFailed
  <1>6. CASE RebootESP
    BY <1>6 DEF RebootESP, Interlock
  <1>7. CASE UNCHANGED <<device, told, abandoned>>
    BY <1>7 DEF Interlock
  <1>8. CASE \/ PingAnswered \/ (\E m \in Modes : SetMode(m)) \/ Midnight
             \/ IndexReset \/ UNCHANGED vars
    BY <1>7, <1>8 DEF PingAnswered, SetMode, Midnight, IndexReset, NoIndex
  <1> QED
    BY <1>1, <1>2, <1>3, <1>4, <1>5, <1>6, <1>8 DEF Next, Answered, Failed

(* Only the OFF of dimmer_init is left to bring the two powers together.   *)
PowersInv == call.url # "init" => device = dimmer_pow \/ astray

LEMMA PowersStep ==
  OrderTypeOK /\ OrderInv /\ PowersInv /\ [Next]_vars => PowersInv'
  <1> SUFFICES ASSUME OrderTypeOK, OrderInv, PowersInv, [Next]_vars
               PROVE  PowersInv'
    OBVIOUS
  <1>1. CASE DimmerEngine
    <2>1. UNCHANGED <<device, dimmer_pow, astray>> /\ call.url # "init"
      BY <1>1 DEF DimmerEngine, None
    <2> QED BY <2>1 DEF PowersInv
  <1>2. CASE CallAnswered
    <2>1. CASE call.url = "off"
      <3>1. Clip(dimmer_pow + call.dpow) = 0
        BY <2>1, Positive, ClipRange DEF OrderInv, OrderTypeOK
      <3>2. device' = 0 /\ dimmer_pow' = 0
        BY <1>2, <2>1, <3>1 DEF CallAnswered, Unlit
      <3> QED BY <3>2 DEF PowersInv
    <2>2. CASE call.url = "power"
      BY <1>2, <2>2 DEF CallAnswered, PowersInv
    <2> QED BY <1>2, <2>1, <2>2 DEF CallAnswered
  <1>3. CASE PingAnswered
    BY <1>3 DEF PingAnswered, PowersInv
  <1>4. CASE CallFailed
    BY <1>4 DEF CallFailed, PowersInv
  <1>5. CASE InitAnswered
    BY <1>5 DEF InitAnswered, Unlit, PowersInv
  <1>6. CASE InitFailed
    BY <1>6 DEF InitFailed, PowersInv
  <1>7. CASE RebootESP
    BY <1>7 DEF RebootESP, PowersInv
  <1>8. CASE \/ (\E m \in Modes : SetMode(m)) \/ Midnight \/ IndexReset
             \/ UNCHANGED vars
    BY <1>8 DEF SetMode, Midnight, IndexReset, NoIndex, PowersInv
  <1> QED
    BY <1>1, <1>2, <1>3, <1>4, <1>5, <1>6, <1>7, <1>8
       DEF Next, Answered, Failed

(* The Arduino knows of every dimmer that draws power and is not given up, *)
(* whatever calls are lost, for any power and any time limits.             *)
THEOREM ArduinoTold == Spec => []Interlock
  <1>1. Init => OrderInv /\ Interlock
    <2>1. Init => ~(device > 0) /\ ~dimmer_act /\ call.url = "init"
      BY DEF Init
    <2> QED BY <2>1 DEF OrderInv, Interlock
  <1>2. TypeOK => OrderTypeOK
    BY DEF TypeOK, OrderTypeOK
  <1>3. OrderTypeOK /\ OrderInv /\ Interlock /\ [Next]_vars
          => OrderInv' /\ Interlock'
    BY OrderStep, InterlockStep
  <1> QED BY <1>1, <1>2, <1>3, DimmerTyped, PTL DEF Spec

(* MaxPV believes the power that the dimmers have, except after an OFF     *)
(* that was not answered.                                                  *)
THEOREM BeliefIsTrue == Spec => []PowersAgree
  <1>1. Init => OrderInv /\ PowersInv
    <2>1. Init => ~dimmer_act /\ call.url = "init"
      BY DEF Init
    <2> QED BY <2>1 DEF OrderInv, PowersInv
  <1>2. TypeOK => OrderTypeOK
    BY DEF TypeOK, OrderTypeOK
  <1>3. OrderTypeOK /\ OrderInv /\ PowersInv /\ [Next]_vars
          => OrderInv' /\ PowersInv'
    BY OrderStep, PowersStep
  <1>4. PowersInv => PowersAgree
    BY DEF PowersInv, PowersAgree, None
  <1> QED BY <1>1, <1>2, <1>3, <1>4, DimmerTyped, PTL DEF Spec

----------------------------------------------------------------------------
(* The daily index                                                         *)

(* The watt seconds that n seconds at full power add.                      *)
Lag(n) == Sum * Least(n, Period - 1)

(* What the index may be late by after w wraps of the byte.                *)
Late(w) == Wh + w * (Sum * Period)

(* What the watt seconds hold: less than a watt hour left by the last      *)
(* period, a period for each wrap, and what the seconds of this one added. *)
LagInv ==
  Sum * Period <= Wh /\ wraps < MaxWraps
    => dimmerwattsec <= Late(wraps) + Lag(dimmer_compute)

LEMMA LateBounds ==
  /\ Sum * Period \in Nat
  /\ \A w \in Nat : Late(w) \in Nat /\ Wh <= Late(w)
                    /\ Late(w + 1) = Late(w) + Sum * Period
  <1>1. Sum * Period \in Nat BY Positive
  <1>2. ASSUME NEW w \in Nat, NEW k \in Nat
        PROVE  w * k \in Nat /\ (w + 1) * k = w * k + k
    OBVIOUS
  <1> QED BY <1>1, <1>2, Positive DEF Late

LEMMA LagBounds ==
  /\ \A n \in Nat : Lag(n) \in Nat /\ Lag(n) <= Lag(n + 1)
                    /\ Lag(n) + Sum <= Sum * Period
  /\ \A n \in Nat : n + 1 < Period => Lag(n + 1) = Lag(n) + Sum
  <1>1. \A m \in Nat : Sum * (m + 1) = Sum * m + Sum /\ Sum * m \in Nat
    BY Positive
  <1>2. \A m, n \in Nat : m <= n => Sum * m <= Sum * n
    BY Positive
  <1>3. ASSUME NEW n \in Nat
        PROVE  /\ Lag(n) \in Nat /\ Lag(n) <= Lag(n + 1)
               /\ Lag(n) + Sum <= Sum * Period
               /\ n + 1 < Period => Lag(n + 1) = Lag(n) + Sum
    <2> DEFINE k == Least(n, Period - 1)   l == Least(n + 1, Period - 1)
    <2>1. k \in Nat /\ l \in Nat /\ k <= l /\ k + 1 <= Period
          /\ (n + 1 < Period => l = k + 1)
      BY Positive DEF Least
    <2>2. Sum * k \in Nat /\ Sum * (k + 1) = Sum * k + Sum
      BY <1>1, <2>1
    <2>3. Sum * k <= Sum * l /\ Sum * (k + 1) <= Sum * Period
      BY <1>2, <2>1, Positive
    <2>4. Lag(n) = Sum * k /\ Lag(n + 1) = Sum * l
      BY DEF Lag
    <2> HIDE DEF k, l
    <2>5. n + 1 < Period => Sum * l = Sum * k + Sum
      BY <2>1, <2>2
    <2> QED BY <2>2, <2>3, <2>4, <2>5
  <1> QED BY <1>3

(* The byte that counts the seconds grows by one, or wraps.                *)
LEMMA SecondPasses ==
  ASSUME CountTypeOK
  PROVE  \/ NextSecond = dimmer_compute + 1 /\ NextSecond # 0
         \/ NextSecond = 0 /\ dimmer_compute + 1 = Wrap
  <1>1. dimmer_compute + 1 \in Nat /\ dimmer_compute + 1 <= Wrap
    BY Positive DEF CountTypeOK
  <1>2. CASE dimmer_compute + 1 < Wrap
    <2>1. \A n \in Nat : n < Wrap => n % Wrap = n BY Positive
    <2>2. NextSecond = dimmer_compute + 1 BY <1>1, <1>2, <2>1 DEF NextSecond
    <2>3. dimmer_compute \in Nat BY DEF CountTypeOK
    <2> QED BY <2>2, <2>3
  <1>3. CASE dimmer_compute + 1 = Wrap
    <2>1. Wrap % Wrap = 0 BY Positive
    <2> QED BY <1>3, <2>1 DEF NextSecond
  <1> QED BY <1>1, <1>2, <1>3, Positive

(* The seconds counted so far, as numbers of Lag.                          *)
LEMMA LagNow ==
  ASSUME CountTypeOK
  PROVE  /\ dimmer_compute \in Nat /\ dimmerwattsec \in Nat
         /\ Lag(dimmer_compute) \in Nat /\ Lag(dimmer_compute + 1) \in Nat
         /\ Lag(dimmer_compute) <= Lag(dimmer_compute + 1)
         /\ Lag(dimmer_compute) + Sum <= Sum * Period
         /\ dimmer_compute + 1 < Period
              => Lag(dimmer_compute + 1) = Lag(dimmer_compute) + Sum
         /\ Lag(0) \in Nat
  <1>1. dimmer_compute \in Nat /\ dimmerwattsec \in Nat
    BY DEF CountTypeOK
  <1>2. dimmer_compute + 1 \in Nat BY <1>1
  <1> QED BY <1>1, <1>2, LagBounds

(* A second that ends no period: its energy is covered by the lag of the   *)
(* seconds counted, or by the period that a wrap costs.                    *)
LEMMA SecondStep ==
  ASSUME CountTypeOK, LagInv, Sum * Period <= Wh, wraps \in 0..MaxWraps,
         Wrapping, wraps' < MaxWraps, dimmer_compute' = NextSecond,
         NEW add \in 0..Sum, add = 0 \/ NextSecond < Period,
         dimmerwattsec' \in Nat, dimmerwattsec' <= dimmerwattsec + add
  PROVE  dimmerwattsec' <= Late(wraps') + Lag(dimmer_compute')
  <1>1. CASE NextSecond = dimmer_compute + 1 /\ NextSecond # 0
    <2>1. wraps' = wraps BY <1>1 DEF Wrapping
    <2>2. dimmerwattsec <= Late(wraps) + Lag(dimmer_compute)
      BY <2>1 DEF LagInv
    <2>3. Late(wraps) \in Nat BY LateBounds
    <2>4. Lag(dimmer_compute) + add <= Lag(dimmer_compute + 1)
      BY <1>1, LagNow, Positive
    <2> QED BY <1>1, <2>1, <2>2, <2>3, <2>4, LagNow, Positive
  <1>2. CASE NextSecond = 0
    <2>1. wraps' = wraps + 1 /\ wraps < MaxWraps
      BY <1>2, Positive DEF Wrapping, Least
    <2>2. dimmerwattsec <= Late(wraps) + Lag(dimmer_compute)
      BY <2>1 DEF LagInv
    <2>3. Late(wraps) \in Nat /\ Late(wraps') = Late(wraps) + Sum * Period
      BY <2>1, LateBounds
    <2>4. Lag(dimmer_compute') \in Nat BY <1>2, LagNow
    <2> QED BY <2>2, <2>3, <2>4, LagNow, LateBounds, Positive
  <1> QED BY <1>1, <1>2, SecondPasses

LEMMA LagStep ==
  OrderTypeOK /\ CountTypeOK /\ LagInv /\ [Next]_vars => LagInv'
  <1> SUFFICES ASSUME OrderTypeOK, CountTypeOK, LagInv, [Next]_vars,
                      Sum * Period <= Wh, wraps' < MaxWraps
               PROVE  dimmerwattsec' <= Late(wraps') + Lag(dimmer_compute')
    BY DEF LagInv, Lag, Late
  <1>1. ASSUME UNCHANGED <<dimmerwattsec, dimmer_compute, wraps>>
        PROVE  dimmerwattsec' <= Late(wraps') + Lag(dimmer_compute')
    BY <1>1 DEF LagInv
  <1>2. wraps \in 0..MaxWraps /\ dimmer_pow \in 0..Sum BY DEF OrderTypeOK
  <1>3. CASE DimmerEngine
    <2>1. CASE Ping
      BY <1>1, <2>1 DEF Ping
    <2>2. CASE Passive
      <3>1. Wrapping /\ dimmer_compute' = NextSecond
            /\ dimmerwattsec' = dimmerwattsec
        BY <2>2 DEF Passive
      <3>2. dimmerwattsec' \in Nat /\ dimmerwattsec' <= dimmerwattsec + 0
        BY <3>1, LagNow
      <3> QED BY <1>2, <3>1, <3>2, SecondStep, Zero
    <2>3. ASSUME NEW p \in Readings, NEW routed \in Routed, NEW autom \in BOOLEAN,
                 Automatic(p, routed, autom)
          PROVE  dimmerwattsec' <= Late(wraps') + Lag(dimmer_compute')
      <3> DEFINE ws == Least(dimmerwattsec + dimmer_pow, MaxBacklog)
      <3>1. ws \in Nat /\ ws <= dimmerwattsec + dimmer_pow
        BY <1>2, LagNow, Positive DEF Least
      <3>2. CASE NextSecond >= Period
        <4>1. dimmer_compute' = 0 /\ CountWh(ws)
          BY <2>3, <3>2 DEF Automatic
        <4> HIDE DEF ws
        <4>2. dimmerwattsec' \in Int
          BY <3>1, <4>1, Positive DEF CountWh
        <4>3. CASE dimmerwattsec' <= Wh
          <5>1. Late(wraps') \in Nat /\ Wh <= Late(wraps')
            BY <1>2, <4>1, LateBounds DEF CountWh
          <5>2. Lag(dimmer_compute') \in Nat
            BY <4>1, LagNow
          <5> QED BY <4>2, <4>3, <5>1, <5>2, Positive
        <4>4. CASE dimmerwattsec' > Wh
          <5>1. wraps' = wraps /\ dimmerwattsec' = ws - Wh
            BY <3>1, <4>1, <4>2, <4>4, Positive DEF CountWh
          <5>2. dimmerwattsec <= Late(wraps) + Lag(dimmer_compute)
            BY <5>1 DEF LagInv
          <5>3. Late(wraps) \in Nat BY <1>2, LateBounds
          <5>4. Lag(dimmer_compute') \in Nat BY <4>1, LagNow
          <5>5. ws <= Late(wraps) + Sum * Period
            BY <1>2, <3>1, <5>2, <5>3, LagNow, LateBounds, Positive
          <5> QED BY <3>1, <5>1, <5>3, <5>4, <5>5, LateBounds, Positive
        <4> QED BY <4>2, <4>3, <4>4, Positive
      <3>3. CASE NextSecond < Period
        <4>1. /\ ~(NextSecond >= Period)
          BY <3>3, SecondPasses, LagNow, Positive
        <4>2. dimmer_compute' = NextSecond /\ dimmerwattsec' = ws /\ Wrapping
          BY <2>3, <4>1 DEF Automatic
        <4> HIDE DEF ws
        <4>3. dimmerwattsec' \in Nat /\ dimmerwattsec' <= dimmerwattsec + dimmer_pow
          BY <3>1, <4>2
        <4> QED BY <1>2, <3>3, <4>2, <4>3, SecondStep
      <3> QED BY <3>2, <3>3, SecondPasses, LagNow, Positive
    <2> QED BY <1>3, <2>1, <2>2, <2>3 DEF DimmerEngine, Engine
  <1>4. CASE RebootESP
    <2>1. dimmerwattsec' = 0 /\ dimmer_compute' = 0 /\ wraps' = 0
      BY <1>4 DEF RebootESP
    <2>2. Late(0) \in Nat /\ Lag(0) \in Nat BY LateBounds, LagBounds
    <2> QED BY <2>1, <2>2
  <1>5. CASE \/ Answered \/ Failed \/ (\E m \in Modes : SetMode(m)) \/ Midnight
             \/ IndexReset \/ UNCHANGED vars
    <2>1. UNCHANGED <<dimmerwattsec, dimmer_compute, wraps>>
      BY <1>5 DEF Answered, CallAnswered, PingAnswered, InitAnswered, Failed,
         CallFailed, InitFailed, SetMode, Midnight, IndexReset, NoIndex
    <2> QED BY <1>1, <2>1
  <1> QED BY <1>3, <1>4, <1>5 DEF Next

(* When a period at full power is no more than a watt hour, the daily      *)
(* index of the dimmers is late by one watt hour and one period at most,   *)
(* and one period for each wrap of the byte that counts the seconds until  *)
(* it is up to date again, for any power, any period and any limit.        *)
THEOREM IndexPrompt == Spec => []IndexInTime
  <1>1. Init => LagInv
    <2>1. Lag(0) \in Nat /\ Late(0) \in Nat BY LagBounds, LateBounds
    <2>2. Init => dimmerwattsec = 0 /\ dimmer_compute = 0 /\ wraps = 0 BY DEF Init
    <2> QED BY <2>1, <2>2, Positive DEF LagInv
  <1>2. TypeOK => OrderTypeOK /\ CountTypeOK
    BY DEF TypeOK, OrderTypeOK, CountTypeOK
  <1>3. OrderTypeOK /\ CountTypeOK /\ LagInv /\ [Next]_vars => LagInv'
    BY LagStep
  <1>4. OrderTypeOK /\ CountTypeOK /\ LagInv => IndexInTime
    <2> SUFFICES ASSUME OrderTypeOK, CountTypeOK, LagInv, Sum * Period <= Wh,
                        wraps < MaxWraps
                 PROVE  dimmerwattsec <= Wh + (wraps + 1) * (Sum * Period)
      BY DEF IndexInTime
    <2>1. wraps \in Nat BY DEF OrderTypeOK
    <2>2. dimmerwattsec <= Late(wraps) + Lag(dimmer_compute)
      BY DEF LagInv
    <2>3. Late(wraps + 1) = Late(wraps) + Sum * Period /\ Late(wraps) \in Nat
      BY <2>1, LateBounds
    <2>4. dimmerwattsec <= Late(wraps + 1)
      BY <2>2, <2>3, LagNow, LateBounds, Positive
    <2> QED BY <2>4 DEF Late
  <1> QED BY <1>1, <1>2, <1>3, <1>4, DimmerTyped, PTL DEF Spec
=============================================================================
