----------------------------- MODULE EspProofs ------------------------------
(***************************************************************************)
(* What the tasks of MaxPV keep (module Esp), for any length of the        *)
(* minute, any period of the minute task and any time that one pass of     *)
(* loop blocks; and who decides the mode of the triac (module Boost), for  *)
(* every length of the bursts, every duration of a boost and every receive *)
(* buffer.                                                                 *)
(***************************************************************************)
EXTENDS Esp, Boost, TLAPS

(* The tuples UNCHANGED is stated with.                                    *)
USE DEF clock, busy, refs, runs, net, flags, config, vars

(* The constants one by one.                                               *)
LEMMA Positive ==
  /\ Minute \in Nat /\ Period \in Nat /\ Block \in Nat /\ Day \in Nat
  /\ Minute > 0 /\ Period > 0 /\ Block > 0 /\ Day > 1 /\ Period <= Minute
  /\ MaxIndex \in Nat
  BY EspAssumption

----------------------------------------------------------------------------
(* The clock                                                               *)

(* The units of the current minute that have passed.                       *)
Passed(t) == t - Minute * MinuteOf(t)

(* Division by the length of the minute.                                   *)
LEMMA Division ==
  \A t \in Nat : MinuteOf(t) \in Nat /\ Minute * MinuteOf(t) \in Nat
                 /\ Passed(t) \in 0..(Minute - 1)
  <1>1. ASSUME NEW m \in Nat, m > 0, NEW t \in Nat
        PROVE  t \div m \in Nat /\ m * (t \div m) \in Nat
               /\ t - m * (t \div m) \in 0..(m - 1)
    <2>1. t \div m \in Nat
      BY <1>1
    <2>2. m * (t \div m) <= t /\ t < m * (t \div m) + m
      BY <1>1
    <2>3. m * (t \div m) \in Nat
      BY <1>1, <2>1
    <2> QED BY <2>1, <2>2, <2>3
  <1> QED BY <1>1, Positive DEF MinuteOf, Passed

(* A quotient is the only one with its remainder in range.                 *)
LEMMA Quotient ==
  ASSUME NEW q \in Nat, NEW r \in 0..(Minute - 1)
  PROVE  MinuteOf(Minute * q + r) = q
  <1> DEFINE t == Minute * q + r   d == MinuteOf(t)
  <1>1. t \in Nat /\ Minute * q \in Nat
    BY Positive
  <1>2. d \in Nat /\ Minute * d \in Nat /\ t - Minute * d \in 0..(Minute - 1)
    BY <1>1, Division DEF Passed
  <1> HIDE DEF d
  <1>3. \A a, b \in Nat : a < b => Minute * a + Minute <= Minute * b
    <2>1. ASSUME NEW a \in Nat, NEW b \in Nat, a < b
          PROVE  Minute * a + Minute <= Minute * b
      <3>1. a + 1 <= b /\ Minute * (a + 1) = Minute * a + Minute
        BY <2>1, Positive
      <3>2. Minute * (a + 1) <= Minute * b
        BY <2>1, <3>1, Positive
      <3> QED BY <3>1, <3>2
    <2> QED BY <2>1
  <1>4. CASE d < q
    <2>1. Minute * d + Minute <= Minute * q
      BY <1>2, <1>3, <1>4
    <2> QED BY <1>1, <1>2, <2>1, Positive
  <1>5. CASE q < d
    <2>1. Minute * q + Minute <= Minute * d
      BY <1>2, <1>3, <1>5
    <2> QED BY <1>1, <1>2, <2>1, Positive
  <1> QED BY <1>2, <1>4, <1>5 DEF d

(* A unit later it is the same minute, or the first unit of the next one.  *)
LEMMA NextUnit ==
  ASSUME now \in 0..(Day * Minute - 1), now' = (now + 1) % (Day * Minute)
  PROVE  /\ now' \in 0..(Day * Minute - 1) /\ Now \in 0..(Day - 1)
         /\ \/ Now' = Now /\ Passed(now') = Passed(now) + 1
            \/ /\ Now' # Now /\ Now' \in {0, Now + 1}
               /\ Passed(now) = Minute - 1 /\ Passed(now') = 0
  <1> DEFINE q == MinuteOf(now)   r == Passed(now)
  <1>1. Day * Minute \in Nat /\ Day * Minute > 0 /\ Day * Minute = Minute * Day
    BY Positive
  <1>2. now \in Nat
    BY <1>1
  <1>3. q \in Nat /\ Minute * q \in Nat /\ r \in 0..(Minute - 1)
    BY <1>2, Division
  <1>4. now = Minute * q + r
    BY <1>2, <1>3 DEF Passed
  <1> HIDE DEF q, r
  <1>5. Minute * (q + 1) = Minute * q + Minute
    BY <1>3, Positive
  <1>6. q <= Day - 1
    <2> SUFFICES ASSUME q >= Day PROVE FALSE
      BY <1>3, Positive
    <2>1. Minute * Day <= Minute * q
      BY <1>3, Positive
    <2> QED BY <1>1, <1>3, <1>4, <2>1, Positive
  <1>7. CASE r + 1 < Minute
    <2>1. Minute * (q + 1) <= Minute * Day
      BY <1>3, <1>6, Positive
    <2>2. now + 1 < Day * Minute
      BY <1>1, <1>3, <1>4, <1>5, <1>7, <2>1, Positive
    <2>3. now' = now + 1
      BY <1>1, <1>2, <2>2
    <2>4. r + 1 \in 0..(Minute - 1) /\ now' = Minute * q + (r + 1)
      BY <1>3, <1>4, <1>7, <2>3, Positive
    <2>5. MinuteOf(now') = q
      BY <1>3, <2>4, Quotient
    <2>6. Passed(now') = r + 1
      BY <1>3, <2>4, <2>5 DEF Passed
    <2> QED BY <1>1, <1>2, <1>3, <1>6, <2>2, <2>3, <2>5, <2>6, Positive
            DEF Now, q, r
  <1>8. CASE r + 1 = Minute /\ q + 1 < Day
    <2>1. Minute * (q + 2) <= Minute * Day /\ Minute * (q + 2) = Minute * (q + 1) + Minute
      BY <1>3, <1>8, Positive
    <2>2. now + 1 = Minute * (q + 1) /\ now + 1 < Day * Minute
      BY <1>1, <1>3, <1>4, <1>5, <1>8, <2>1, Positive
    <2>3. now' = Minute * (q + 1) + 0 /\ q + 1 \in Nat /\ 0 \in 0..(Minute - 1)
      BY <1>1, <1>2, <1>3, <2>2, Positive
    <2>4. MinuteOf(now') = q + 1
      BY <2>3, Quotient
    <2>5. Passed(now') = 0
      BY <1>3, <1>5, <2>3, <2>4, Positive DEF Passed
    <2>6. q # q + 1 /\ r = Minute - 1 /\ q \in 0..(Day - 1)
      BY <1>3, <1>6, <1>8, Positive
    <2>7. now' \in 0..(Day * Minute - 1)
      BY <1>1, <1>2, <2>2, <2>3, <1>5, Positive
    <2> QED BY <2>4, <2>5, <2>6, <2>7 DEF Now, q, r
  <1>9. CASE r + 1 = Minute /\ q + 1 = Day
    <2>1. now + 1 = Day * Minute
      BY <1>1, <1>3, <1>4, <1>5, <1>9, Positive
    <2>2. (Day * Minute) % (Day * Minute) = 0
      BY <1>1
    <2>3. now' = 0
      BY <2>1, <2>2
    <2>4. Minute * 0 + 0 = 0 /\ 0 \in 0..(Minute - 1)
      BY Positive
    <2>5. MinuteOf(now') = 0
      BY <2>3, <2>4, Quotient
    <2>6. Passed(now') = 0
      BY <2>3, <2>4, <2>5, Positive DEF Passed
    <2> QED BY <1>1, <1>3, <1>6, <1>9, <2>3, <2>5, <2>6, Positive DEF Now, q, r
  <1>10. r + 1 < Minute \/ (r + 1 = Minute /\ (q + 1 < Day \/ q + 1 = Day))
    BY <1>3, <1>6, Positive
  <1> QED BY <1>7, <1>8, <1>9, <1>10

----------------------------------------------------------------------------
(* Typing of what the invariants below rest on                             *)

TimeTypeOK ==
  /\ now \in 0..(Day * Minute - 1) /\ tick \in 1..Period /\ asked \in BOOLEAN
  /\ blocked \in 0..Block /\ missed \in 0..2
  /\ ran \in BOOLEAN /\ late \in BOOLEAN /\ portal \in BOOLEAN

LEMMA InitTyped == Init => TimeTypeOK
  <1>1. Period \in 1..Period /\ 0 \in 0..Block /\ 0 \in 0..2
    BY Positive
  <1>2. Init => /\ now \in 0..(Day * Minute - 1) /\ tick \in 1..Period
                /\ blocked \in 0..Block /\ missed \in 0..2
    BY <1>1 DEF Init
  <1>3. Init => /\ asked \in BOOLEAN /\ ran \in BOOLEAN /\ late \in BOOLEAN
                /\ portal \in BOOLEAN
    BY DEF Init
  <1> QED BY <1>2, <1>3 DEF TimeTypeOK

LEMMA TimeTyping == TimeTypeOK /\ [Next]_vars => TimeTypeOK'
  <1> SUFFICES ASSUME TimeTypeOK, [Next]_vars PROVE TimeTypeOK'
    OBVIOUS
  <1> USE DEF TimeTypeOK
  <1>0. 0 \in 0..Block /\ Block \in 0..Block /\ Period \in 1..Period
    BY Positive
  <1>1. CASE Tick
    <2>1. now' \in 0..(Day * Minute - 1)
      BY <1>1, NextUnit DEF Tick
    <2>2. tick' \in 1..Period
      <3>1. tick = 1 \/ tick - 1 \in 1..Period
        BY Positive
      <3> QED BY <1>0, <1>1, <3>1 DEF Tick, Timer
    <2>6. asked' \in BOOLEAN
      BY <1>1 DEF Tick, Timer
    <2>3. blocked' \in 0..Block
      BY <1>0, <1>1, Positive DEF Tick
    <2>4. missed' \in 0..2
      <3>1. 0 \in 0..2 /\ 2 \in 0..2 /\ (missed < 2 => missed + 1 \in 0..2)
        OBVIOUS
      <3> QED BY <1>1, <3>1 DEF Tick, NewMinute
    <2>7. ran' \in BOOLEAN
      BY <1>1 DEF Tick, NewMinute
    <2>5. late' \in BOOLEAN /\ portal' \in BOOLEAN
      BY <1>1 DEF Tick
    <2> QED BY <2>1, <2>2, <2>3, <2>4, <2>5, <2>6, <2>7
  <1>2. CASE Work
    <2>1. blocked' \in 0..Block
      BY <1>2, Positive DEF Work
    <2> QED BY <1>2, <2>1 DEF Work
  <1>3. CASE TimeScheduler
    BY <1>3 DEF TimeScheduler
  <1>4. CASE OneSecond
    BY <1>4 DEF OneSecond
  <1>5. CASE WatchDogWifi
    BY <1>5 DEF WatchDogWifi
  <1>6. CASE WifiBack \/ LoopMqtt
    BY <1>0, <1>6 DEF WifiBack, LoopMqtt, StartMqtt
  <1>7. CASE ConfigRead \/ JoinNetwork \/ SetupEnds
    BY <1>0, <1>7 DEF ConfigRead, JoinNetwork, SetupEnds
  <1>8. CASE RestartESP
    BY <1>0, <1>8 DEF RestartESP
  <1>9. CASE \/ OnMqttConnect \/ OnMqttDisconnect \/ Reconnect \/ WifiChanges
             \/ ResetIndex \/ ArduinoCut
             \/ EraseConfig \/ \E v \in Settings : ConfigMaxPV(v)
    BY <1>9 DEF OnMqttConnect, OnMqttDisconnect, Reconnect, WifiChanges,
       EraseConfig, ResetIndex, ArduinoCut, IndexFalls, ConfigMaxPV
  <1>10. CASE UNCHANGED vars
    BY <1>10
  <1> QED
    BY <1>1, <1>2, <1>3, <1>4, <1>5, <1>6, <1>7, <1>8, <1>9, <1>10
       DEF Next, Loop

(* The time of day is in one of its minutes.                               *)
LEMMA NowInDay ==
  ASSUME now \in 0..(Day * Minute - 1)
  PROVE  Now <= Day - 1
  <1>1. Day * Minute \in Nat /\ Day * Minute = Minute * Day /\ now < Minute * Day
    BY Positive
  <1>2. now \in Nat
    BY <1>1
  <1>3. Now \in Nat /\ Minute * Now \in Nat /\ Minute * Now <= now
    BY <1>2, Division DEF Now, Passed
  <1> SUFFICES ASSUME Now >= Day PROVE FALSE
    BY <1>3, Positive
  <1>4. \A n \in Nat : n >= Day => Minute * Day <= Minute * n
    BY Positive
  <1>5. Minute * Day <= Minute * Now
    BY <1>3, <1>4
  <1> QED BY <1>1, <1>2, <1>3, <1>5

(* No more energy than a unit for each minute of the day so far, and for   *)
(* the one before midnight.                                                *)
EnergyTypeOK ==
  /\ index \in 0..MaxIndex /\ ref \in 0..MaxIndex
  /\ since \in Nat /\ since <= Now + 1
  /\ apart \in Nat /\ reference \in References

LEMMA EnergyTyping ==
  TimeTypeOK /\ EnergyTypeOK /\ [Next]_vars => EnergyTypeOK'
  <1> SUFFICES ASSUME TimeTypeOK, EnergyTypeOK, [Next]_vars
               PROVE  EnergyTypeOK'
    OBVIOUS
  <1>1. Now \in Nat /\ now \in 0..(Day * Minute - 1)
    <2>1. Day * Minute \in Nat
      BY Positive
    <2> QED BY <2>1, Division DEF TimeTypeOK, Now
  <1>2. 0 \in 0..MaxIndex /\ {"taken", "missed", "nothing"} \subseteq References
    BY Positive DEF References
  <1>3. CASE Tick
    <2>1. \/ Now' = Now
          \/ Now' # Now /\ Now' \in {0, Now + 1}
      BY <1>1, <1>3, NextUnit DEF Tick
    <2>2. CASE Now' = Now
      <3>1. UNCHANGED refs
        BY <1>3, <2>2 DEF Tick, Now
      <3> QED BY <2>2, <3>1 DEF EnergyTypeOK
    <2>3. CASE Now' # Now /\ Now' \in {0, Now + 1}
      <3>1. NewMinute
        BY <1>3, <2>3 DEF Tick, Now
      <3>2. PICK e \in {0, 1} :
              /\ index + e <= MaxIndex /\ index' = index + e
              /\ since' = IF Now' = 0 THEN e ELSE since + e
        BY <3>1 DEF NewMinute, Now
      <3>3. index' \in 0..MaxIndex /\ ref' \in 0..MaxIndex
        BY <3>1, <3>2, Positive DEF EnergyTypeOK, NewMinute
      <3>4. apart' \in Nat /\ reference' \in References
        BY <1>2, <3>1 DEF EnergyTypeOK, NewMinute
      <3>5. since' \in Nat /\ since' <= Now' + 1
        <4>1. since \in Nat /\ since <= Now + 1
          BY DEF EnergyTypeOK
        <4>2. CASE Now' = 0
          <5>1. since' = e
            BY <3>2, <4>2
          <5> QED BY <4>2, <5>1
        <4>3. CASE Now' # 0 /\ Now' = Now + 1
          <5>1. since' = since + e
            BY <3>2, <4>3
          <5> QED BY <1>1, <4>1, <4>3, <5>1
        <4> QED BY <2>3, <4>2, <4>3
      <3> QED BY <3>3, <3>4, <3>5 DEF EnergyTypeOK
    <2> QED BY <2>1, <2>2, <2>3
  <1>4. CASE UNCHANGED <<now, refs>>
    BY <1>4 DEF EnergyTypeOK, Now
  <1>5. CASE TimeScheduler
    <2>1. /\ since' = since /\ now' = now /\ index' = index
          /\ \/ ref' = index /\ apart' = 0 /\ reference' = "taken"
             \/ UNCHANGED <<ref, apart, reference>>
      BY <1>5 DEF TimeScheduler, SetRefIndexJour
    <2> QED BY <1>2, <2>1 DEF EnergyTypeOK, Now
  <1>6. CASE SetupEnds \/ RestartESP
    <2>1. /\ since' = since /\ now' = now /\ index' = index
          /\ ref' \in {0, index} /\ apart' \in {0, since}
          /\ reference' \in {"taken", "nothing"}
      BY <1>6 DEF SetupEnds, RestartESP
    <2> QED BY <1>2, <2>1 DEF EnergyTypeOK, Now
  <1>7. ASSUME NEW i \in 0..index, IndexFalls(i) PROVE EnergyTypeOK'
    <2>1. i \in 0..MaxIndex /\ index - i \in Nat
      BY Positive DEF EnergyTypeOK
    <2>2. apart + (index - i) \in Nat
      BY <2>1 DEF EnergyTypeOK
    <2> QED BY <1>7, <2>1, <2>2 DEF IndexFalls, EnergyTypeOK, Now
  <1>8. CASE ResetIndex \/ ArduinoCut
    <2>1. 0 \in 0..index
      BY Positive DEF EnergyTypeOK
    <2> QED BY <1>7, <1>8, <2>1 DEF ResetIndex, ArduinoCut
  <1>9. \/ Tick \/ TimeScheduler \/ SetupEnds \/ RestartESP \/ ResetIndex
        \/ ArduinoCut \/ UNCHANGED <<now, refs>>
    BY DEF Next, Loop, OneSecond, WatchDogWifi, WifiBack, LoopMqtt, Work,
       ConfigRead, JoinNetwork, OnMqttConnect, OnMqttDisconnect, Reconnect,
       WifiChanges, EraseConfig, ConfigMaxPV
  <1> QED BY <1>3, <1>4, <1>5, <1>6, <1>8, <1>9

(* The network, the flags and the file.                                    *)
NetTypeOK ==
  /\ step \in Steps /\ mqtt \in {"idle", "connecting", "connected"}
  /\ file \in Settings \cup {"none", "cut"}
  /\ chosen \in Settings \cup {"none"}

SwitchesOK ==
  /\ wifi \in BOOLEAN /\ timer \in BOOLEAN /\ mqttActive \in BOOLEAN
  /\ shouldCheckWifi \in BOOLEAN /\ shouldCheckMQTT \in BOOLEAN

LEMMA NetTyping ==
  NetTypeOK /\ SwitchesOK /\ [Next]_vars => NetTypeOK' /\ SwitchesOK'
  <1> SUFFICES ASSUME NetTypeOK, SwitchesOK, [Next]_vars
               PROVE  NetTypeOK' /\ SwitchesOK'
    OBVIOUS
  <1> USE DEF NetTypeOK, SwitchesOK, Steps, Settings
  <1>1. CASE Tick \/ Work \/ TimeScheduler
    BY <1>1 DEF Tick, Work, TimeScheduler
  <1>2. CASE OneSecond \/ WifiChanges
    <2>1. NetTypeOK'
      BY <1>2 DEF OneSecond, WifiChanges
    <2>2. SwitchesOK'
      BY <1>2, Zenon DEF OneSecond, WifiChanges
    <2> QED BY <2>1, <2>2
  <1>3. CASE WatchDogWifi
    <2>1. /\ step' = step /\ file' = file /\ chosen' = chosen
          /\ wifi' = wifi /\ mqttActive' = mqttActive
          /\ shouldCheckWifi' = shouldCheckWifi
          /\ shouldCheckMQTT' = shouldCheckMQTT
      BY <1>3 DEF WatchDogWifi
    <2>2. mqtt' \in {mqtt, "idle"} /\ timer' \in {timer, TRUE}
      BY <1>3 DEF WatchDogWifi
    <2>3. NetTypeOK'
      BY <2>1, <2>2
    <2>4. SwitchesOK'
      BY <2>1, <2>2, Zenon
    <2> QED BY <2>3, <2>4
  <1>4. CASE WifiBack \/ LoopMqtt
    <2>1. /\ step' = step /\ file' = file /\ chosen' = chosen
          /\ wifi' = wifi /\ mqttActive' = mqttActive /\ timer' = timer
          /\ shouldCheckWifi' \in {shouldCheckWifi, FALSE}
          /\ shouldCheckMQTT' = FALSE
      BY <1>4 DEF WifiBack, LoopMqtt, StartMqtt
    <2>2. mqtt' = mqtt \/ mqtt' = "connecting"
      BY <1>4 DEF WifiBack, LoopMqtt, StartMqtt
    <2>3. NetTypeOK'
      BY <2>1, <2>2
    <2>4. SwitchesOK'
      BY <2>1, Zenon
    <2> QED BY <2>3, <2>4
  <1>5. CASE ConfigRead
    BY <1>5 DEF ConfigRead
  <1>6. CASE JoinNetwork \/ SetupEnds
    BY <1>6 DEF JoinNetwork, WriteFirst, SetupEnds
  <1>7. CASE RestartESP
    BY <1>7 DEF RestartESP
  <1>8. CASE OnMqttConnect \/ OnMqttDisconnect \/ Reconnect
    <2>1. NetTypeOK'
      BY <1>8 DEF OnMqttConnect, OnMqttDisconnect, Reconnect
    <2>2. SwitchesOK'
      BY <1>8, Zenon DEF OnMqttConnect, OnMqttDisconnect, Reconnect
    <2> QED BY <2>1, <2>2
  <1>9. CASE EraseConfig \/ \E v \in Settings : ConfigMaxPV(v)
    <2>1. CASE EraseConfig
      BY <2>1 DEF EraseConfig
    <2>2. CASE \E v \in Settings : ConfigMaxPV(v)
      BY <2>2 DEF ConfigMaxPV, ConfigWrite
    <2> QED BY <1>9, <2>1, <2>2
  <1>10. CASE ResetIndex \/ ArduinoCut \/ UNCHANGED vars
    BY <1>10 DEF ResetIndex, ArduinoCut, IndexFalls
  <1> QED
    BY <1>1, <1>2, <1>3, <1>4, <1>5, <1>6, <1>7, <1>8, <1>9, <1>10
       DEF Next, Loop

(* The clock and the energy, as the later theorems use them.               *)
LEMMA EspEnergy == Spec => [](TimeTypeOK /\ EnergyTypeOK)
  <1>1. Init => EnergyTypeOK
    <2> SUFFICES ASSUME Init PROVE EnergyTypeOK
      OBVIOUS
    <2>1. /\ now \in Nat /\ index \in 0..MaxIndex /\ ref = 0 /\ since = 0
          /\ apart = 0 /\ reference = "taken"
      <3>1. Day * Minute \in Nat
        BY Positive
      <3> QED BY <3>1 DEF Init
    <2> QED BY <2>1, Division, Positive DEF EnergyTypeOK, Now, References
  <1> QED BY <1>1, InitTyped, TimeTyping, EnergyTyping, PTL DEF Spec

(* Every variable keeps its type; the energy of a day is no more than its  *)
(* minutes (the clock of timeClient, the Tasks, the flags of the watchdog, *)
(* config.json).                                                           *)
THEOREM EspTyping == Spec => []TypeOK
  <1>1. Init => NetTypeOK /\ SwitchesOK
    BY DEF Init, NetTypeOK, SwitchesOK, Steps, Settings
  <1>2. TimeTypeOK /\ EnergyTypeOK /\ NetTypeOK /\ SwitchesOK => TypeOK
    <2> SUFFICES ASSUME TimeTypeOK, EnergyTypeOK, NetTypeOK, SwitchesOK
                 PROVE  TypeOK
      OBVIOUS
    <2>1. Now <= Day - 1
      <3>1. Day * Minute \in Nat
        BY Positive
      <3> QED BY <3>1, NowInDay DEF TimeTypeOK
    <2>2. since \in 0..Day
      <3>1. Now \in Int /\ Day \in Nat
        <4>1. Day * Minute \in Nat
          BY Positive
        <4> QED BY <4>1, Division, Positive DEF TimeTypeOK, Now
      <3> QED BY <2>1, <3>1 DEF EnergyTypeOK
    <2> QED
      BY <2>2, Zenon
      DEF TimeTypeOK, EnergyTypeOK, NetTypeOK, SwitchesOK, TypeOK
  <1> QED BY <1>1, <1>2, EspEnergy, NetTyping, PTL DEF Spec

----------------------------------------------------------------------------
(* The minutes                                                             *)

(* Units to the next call of the minute task, at most: when it is due only *)
(* the block delays it, else loop may be blocked just before it is.        *)
Remaining == IF asked THEN blocked ELSE tick + Block - 1

(* Units without a call, as far as the history tells.                      *)
Silence == missed * Minute + Passed(now)

(* Setup and autoConnect make the history late, and only a call of the     *)
(* minute task ends that; from a call to the next there is no more than a  *)
(* period and a block.                                                     *)
MinuteInv ==
  /\ step # "done" \/ portal => late
  /\ ~late /\ ~ran => Silence + Remaining <= Period + Block - 1

LEMMA MinuteStep ==
  TimeTypeOK /\ MinuteInv /\ missed < 2 /\ Period + Block < 2 * Minute
    /\ [Next]_vars => MinuteInv' /\ missed' < 2
  <1> SUFFICES ASSUME TimeTypeOK, MinuteInv, missed < 2,
                      Period + Block < 2 * Minute, [Next]_vars
               PROVE  MinuteInv' /\ missed' < 2
    OBVIOUS
  <1>0. /\ now \in Nat /\ Passed(now) \in 0..(Minute - 1)
        /\ tick \in 1..Period /\ blocked \in 0..Block /\ missed \in {0, 1}
        /\ missed * Minute \in Nat
    <2>1. Day * Minute \in Nat BY Positive
    <2>2. now \in Nat BY <2>1 DEF TimeTypeOK
    <2>3. missed = 0 \/ missed = 1 BY DEF TimeTypeOK
    <2>4. missed * Minute \in Nat BY <2>3, Positive
    <2> QED BY <2>2, <2>3, <2>4, Division DEF TimeTypeOK
  <1>1. ASSUME UNCHANGED <<now, tick, asked, blocked, step, portal, ran, missed, late>>
        PROVE  MinuteInv' /\ missed' < 2
    BY <1>1 DEF MinuteInv, Silence, Remaining, Passed, MinuteOf
  <1>2. CASE Tick
    <2>1. /\ step' = step /\ portal' = portal
          /\ late' = (late \/ Setup \/ portal)
      BY <1>2 DEF Tick
    <2>2. step' # "done" \/ portal' => late'
      BY <2>1 DEF Setup
    <2>3. ~late' => ~late /\ ~Setup /\ ~portal
      BY <2>1
    <2>4. ~late' => Remaining' + 1 <= Remaining /\ Remaining' \in Nat
      <3> SUFFICES ASSUME ~late, ~Setup, ~portal
                   PROVE  Remaining' + 1 <= Remaining /\ Remaining' \in Nat
        BY <2>3
      <3>1. blocked > 0 \/ ~asked
        BY <1>2 DEF Tick, Idle, Setup
      <3>2. blocked' = IF blocked > 0 THEN blocked - 1 ELSE 0
        BY <1>2 DEF Tick
      <3>3. IF tick = 1 THEN tick' = Period /\ asked' = TRUE
            ELSE tick' = tick - 1 /\ asked' = asked
        BY <1>2 DEF Tick, Timer
      <3>4. CASE asked
        <4>1. asked'
          BY <3>3, <3>4
        <4> QED BY <1>0, <3>1, <3>2, <3>4, <4>1, Positive DEF Remaining
      <3>5. CASE ~asked /\ tick = 1
        <4>1. asked'
          BY <3>3, <3>5
        <4> QED BY <1>0, <3>2, <3>5, <4>1, Positive DEF Remaining
      <3>6. CASE ~asked /\ tick # 1
        <4>1. ~asked' /\ tick' = tick - 1
          BY <3>3, <3>6
        <4> QED BY <1>0, <3>6, <4>1, Positive DEF Remaining
      <3> QED BY <3>4, <3>5, <3>6
    <2>5. \/ Now' = Now /\ Passed(now') = Passed(now) + 1
          \/ Now' # Now /\ Passed(now) = Minute - 1 /\ Passed(now') = 0
      BY <1>2, NextUnit DEF Tick, TimeTypeOK
    <2>6. CASE Now' = Now /\ Passed(now') = Passed(now) + 1
      <3>1. ran' = ran /\ missed' = missed
        BY <1>2, <2>6 DEF Tick, Now
      <3>2. ~late' /\ ~ran' => Silence' + Remaining' <= Period + Block - 1
        <4> SUFFICES ASSUME ~late', ~ran'
                     PROVE  Silence' + Remaining' <= Period + Block - 1
          OBVIOUS
        <4>1. Silence' = Silence + 1 /\ Silence \in Nat
          BY <1>0, <2>6, <3>1, Positive DEF Silence, Passed
        <4>2. Silence + Remaining <= Period + Block - 1
          BY <2>3, <3>1 DEF MinuteInv
        <4>3. Remaining \in Int
          BY <1>0, Positive DEF Remaining
        <4> QED BY <2>4, <4>1, <4>2, <4>3, Positive
      <3> QED BY <2>2, <3>1, <3>2 DEF MinuteInv
    <2>7. CASE Now' # Now /\ Passed(now) = Minute - 1 /\ Passed(now') = 0
      <3>1. /\ ~ran'
            /\ missed' = IF ran \/ late THEN 0
                         ELSE IF missed < 2 THEN missed + 1 ELSE 2
        BY <1>2, <2>7 DEF Tick, NewMinute, Now
      <3>2. Silence' = missed' * Minute
        <4>1. missed' \in {0, 1, 2}
          BY <1>0, <3>1
        <4>2. missed' * Minute \in Nat
          <5>1. 0 * Minute \in Nat /\ 1 * Minute \in Nat /\ 2 * Minute \in Nat
            BY Positive
          <5> QED BY <4>1, <5>1
        <4> QED BY <2>7, <4>2 DEF Silence, Passed
      <3>3. CASE ran \/ late
        <4>1. missed' = 0 /\ Silence' = 0
          BY <3>1, <3>2, <3>3, Positive
        <4>2. ~late' => Remaining' <= Period + Block - 1
          <5>1. ~late' => Remaining <= Period + Block
            BY <1>0, Positive DEF Remaining
          <5>2. Remaining \in Int
            BY <1>0, Positive DEF Remaining
          <5> QED BY <2>4, <5>1, <5>2, Positive
        <4>3. ~late' => Silence' + Remaining' <= Period + Block - 1
          BY <2>4, <4>1, <4>2
        <4> QED BY <2>2, <4>1, <4>3 DEF MinuteInv
      <3>4. CASE ~ran /\ ~late
        <4>1. missed' = missed + 1
          BY <1>0, <3>1, <3>4
        <4>2. (missed + 1) * Minute = missed * Minute + Minute
          BY <1>0, Positive
        <4>3. Silence' = Silence + 1
          BY <1>0, <2>7, <3>2, <4>1, <4>2, Positive DEF Silence
        <4>4. Silence + Remaining <= Period + Block - 1
          BY <3>4 DEF MinuteInv
        <4>5. Remaining \in Nat /\ Silence \in Nat
          BY <1>0, Positive DEF Remaining, Silence
        <4>6. ~late' => Silence' + Remaining' <= Period + Block - 1
          BY <2>4, <4>3, <4>4, <4>5, Positive
        <4>7. missed = 0
          <5> SUFFICES ASSUME missed = 1 PROVE FALSE
            BY <1>0
          <5>1. Silence = Minute + (Minute - 1)
            BY <1>0, <2>7, Positive DEF Silence
          <5>2. Remaining >= 1
            <6>1. Tick => blocked > 0 \/ Setup \/ portal \/ ~asked
              BY DEF Tick, Idle
            <6>2. ~Setup /\ ~portal
              BY <3>4 DEF MinuteInv, Setup
            <6> QED BY <1>0, <1>2, <6>1, <6>2, Positive DEF Remaining
          <5> QED BY <4>4, <4>5, <5>1, <5>2, Positive
        <4> QED BY <2>2, <4>1, <4>6, <4>7 DEF MinuteInv
      <3> QED BY <3>3, <3>4
    <2> QED BY <2>5, <2>6, <2>7
  <1>3. CASE Work
    <2>1. /\ ~asked /\ blocked' \in 1..Block
          /\ UNCHANGED <<now, tick, asked, step, portal, ran, missed, late>>
      BY <1>3 DEF Work, Idle
    <2>2. Remaining' = Remaining
      BY <2>1 DEF Remaining
    <2> QED BY <2>1, <2>2 DEF MinuteInv, Silence, Passed, MinuteOf
  <1>4. CASE LoopMqtt
    <2>1. /\ ~asked
          /\ UNCHANGED <<now, tick, asked, step, portal, ran, missed, late>>
      BY <1>4 DEF LoopMqtt
    <2>2. Remaining' = Remaining
      BY <2>1 DEF Remaining
    <2> QED BY <2>1, <2>2 DEF MinuteInv, Silence, Passed, MinuteOf
  <1>5. CASE TimeScheduler
    BY <1>5 DEF TimeScheduler, Free, MinuteInv
  <1>6. CASE WatchDogWifi
    BY <1>6 DEF WatchDogWifi, MinuteInv
  <1>7. CASE WifiBack
    BY <1>7 DEF WifiBack, MinuteInv
  <1>8. CASE ConfigRead
    BY <1>1, <1>8 DEF ConfigRead, MinuteInv
  <1>9. CASE JoinNetwork \/ SetupEnds
    BY <1>9 DEF JoinNetwork, SetupEnds, MinuteInv
  <1>10. CASE RestartESP
    BY <1>10 DEF RestartESP, MinuteInv
  <1>11. CASE OneSecond
    BY <1>1, <1>11 DEF OneSecond
  <1>12. CASE \/ OnMqttConnect \/ OnMqttDisconnect \/ Reconnect \/ WifiChanges
              \/ ResetIndex \/ ArduinoCut
              \/ EraseConfig \/ (\E v \in Settings : ConfigMaxPV(v))
              \/ UNCHANGED vars
    BY <1>1, <1>12 DEF OnMqttConnect, OnMqttDisconnect, Reconnect, WifiChanges,
       EraseConfig, ResetIndex, ArduinoCut, IndexFalls, ConfigMaxPV
  <1> QED
    BY <1>2, <1>3, <1>4, <1>5, <1>6, <1>7, <1>8, <1>9, <1>10, <1>11, <1>12
       DEF Next, Loop

(* When a period of the minute task and the longest block make less than   *)
(* two minutes, no two minutes in a row are missed, once the ESP runs.     *)
THEOREM MinutesSeen == Spec => []NeverTwoMissed
  <1>1. CASE Period + Block < 2 * Minute
    <2>1. Init => TimeTypeOK /\ MinuteInv /\ missed < 2
      <3>1. Init => late /\ missed < 2
        BY DEF Init
      <3> QED BY <3>1, InitTyped DEF MinuteInv
    <2>2. TimeTypeOK /\ MinuteInv /\ missed < 2 /\ [Next]_vars
            => TimeTypeOK' /\ MinuteInv' /\ (missed < 2)'
      BY <1>1, TimeTyping, MinuteStep
    <2>3. missed < 2 => NeverTwoMissed
      BY DEF NeverTwoMissed
    <2> QED BY <2>1, <2>2, <2>3, PTL DEF Spec
  <1>2. CASE ~(Period + Block < 2 * Minute)
    <2>1. NeverTwoMissed
      BY <1>2 DEF NeverTwoMissed
    <2> QED BY <2>1, PTL
  <1> QED BY <1>1, <1>2

----------------------------------------------------------------------------
(* The day                                                                 *)

(* What the day holds, once setup has taken a reference and, in the first  *)
(* minute, the minute task as well.                                        *)
DayInv ==
  ~Setup /\ reference = "taken" /\ (Now # 0 \/ ran)
    => since - apart - DayEnergy \in {0, 1}

(* The steps that the counts do not see.                                   *)
LEMMA DayKept ==
  ASSUME DayInv, UNCHANGED <<now, ran, index, ref, since, apart, reference>>,
         Setup => Setup'
  PROVE  DayInv'
  BY DEF DayInv, DayEnergy, Now, MinuteOf, Setup

LEMMA DayStep ==
  TimeTypeOK /\ EnergyTypeOK /\ DayInv /\ [Next]_vars => DayInv'
  <1> SUFFICES ASSUME TimeTypeOK, EnergyTypeOK, DayInv, [Next]_vars,
                      ~Setup', reference' = "taken", (Now # 0 \/ ran)'
               PROVE  since' - apart' - (index' - ref') \in {0, 1}
    BY DEF DayInv, DayEnergy
  <1>0. index \in Int /\ ref \in Int /\ since \in Int /\ apart \in Int
    BY Positive DEF EnergyTypeOK
  <1>1. CASE Tick
    <2>1. /\ step' = step
          /\ \/ Now' = Now \/ (Now' # Now /\ Now' \in {0, Now + 1})
      BY <1>1, NextUnit DEF Tick, TimeTypeOK
    <2>2. CASE Now' = Now
      <3>1. UNCHANGED <<ran, refs>>
        BY <1>1, <2>2 DEF Tick, Now
      <3> QED BY <2>1, <2>2, <3>1 DEF DayInv, DayEnergy, Setup
    <2>3. CASE Now' # Now /\ Now' \in {0, Now + 1}
      <3>1. NewMinute
        BY <1>1, <2>3 DEF Tick, Now
      <3> PICK e \in {0, 1} :
            /\ index' = index + e
            /\ since' = IF Now' = 0 THEN e ELSE since + e
        BY <3>1 DEF NewMinute, Now
      <3>2. ~ran' /\ reference' = (IF Now = 0 /\ ~ran THEN "missed" ELSE reference)
            /\ apart' = (IF reference' = "taken" THEN apart ELSE 0) /\ ref' = ref
        BY <3>1 DEF NewMinute
      <3>3. Now' # 0 /\ reference = "taken" /\ (Now # 0 \/ ran) /\ apart' = apart
        BY <3>2
      <3>4. since - apart - (index - ref) \in {0, 1}
        BY <2>1, <3>3 DEF DayInv, DayEnergy, Setup
      <3>5. since' = since + e
        BY <3>3
      <3> QED BY <1>0, <3>2, <3>3, <3>4, <3>5
    <2> QED BY <2>1, <2>2, <2>3
  <1>2. CASE TimeScheduler
    <2>1. /\ step' = step /\ Now' = Now /\ since' = since /\ index' = index
          /\ IF Now = 0 THEN ref' = index /\ apart' = 0
             ELSE UNCHANGED <<ref, apart, reference>>
      BY <1>2 DEF TimeScheduler, SetRefIndexJour, Now
    <2>2. CASE Now = 0
      <3>1. since \in {0, 1}
        BY <2>2 DEF EnergyTypeOK
      <3> QED BY <1>0, <2>1, <2>2, <3>1
    <2>3. CASE Now # 0
      BY <2>1, <2>3 DEF DayInv, DayEnergy, Setup
    <2> QED BY <2>2, <2>3
  <1>3. CASE SetupEnds
    <2>1. since' = since /\ index' = index /\ ref' = index /\ apart' = since
      BY <1>3 DEF SetupEnds
    <2> QED BY <1>0, <2>1
  <1>4. CASE RestartESP
    <2>1. Setup' BY <1>4 DEF RestartESP, Setup
    <2> QED BY <2>1
  <1>5. ASSUME NEW i \in 0..index, IndexFalls(i)
        PROVE  since' - apart' - (index' - ref') \in {0, 1}
    <2>1. /\ ~Setup /\ reference = "taken" /\ (Now # 0 \/ ran)
          /\ since' = since /\ index' = i /\ ref' = ref
      BY <1>5 DEF IndexFalls, Setup, Now
    <2>2. apart' = apart + (index - i)
      BY <1>5, <2>1 DEF IndexFalls
    <2>3. since - apart - (index - ref) \in {0, 1}
      BY <2>1 DEF DayInv, DayEnergy
    <2>4. i \in Int BY <1>0
    <2> QED BY <1>0, <2>1, <2>2, <2>3, <2>4
  <1>6. CASE ResetIndex \/ ArduinoCut
    <2>1. 0 \in 0..index
      BY Positive DEF EnergyTypeOK
    <2> QED BY <1>5, <1>6, <2>1 DEF ResetIndex, ArduinoCut
  <1>7. ASSUME UNCHANGED <<now, ran, index, ref, since, apart, reference>>,
               Setup => Setup'
        PROVE  since' - apart' - (index' - ref') \in {0, 1}
    BY <1>7, DayKept DEF DayInv, DayEnergy
  <1>8. CASE Work \/ OneSecond \/ WatchDogWifi \/ WifiBack \/ LoopMqtt
    BY <1>7, <1>8
       DEF Work, OneSecond, WatchDogWifi, WifiBack, LoopMqtt, Setup
  <1>9. CASE ConfigRead \/ JoinNetwork
    BY <1>7, <1>9 DEF ConfigRead, JoinNetwork, Setup
  <1>10. CASE \/ OnMqttConnect \/ OnMqttDisconnect \/ Reconnect \/ WifiChanges
              \/ EraseConfig \/ (\E v \in Settings : ConfigMaxPV(v))
              \/ UNCHANGED vars
    BY <1>7, <1>10 DEF OnMqttConnect, OnMqttDisconnect, Reconnect, WifiChanges,
       EraseConfig, ConfigMaxPV, Setup
  <1> QED BY <1>1, <1>2, <1>3, <1>4, <1>6, <1>8, <1>9, <1>10 DEF Next, Loop

(* The energy of the day counts from midnight, whatever blocks loop.       *)
THEOREM DayCounted == Spec => []DayFromMidnight
  <1>1. Init => DayInv
    BY DEF Init, DayInv, Setup
  <1>2. TimeTypeOK /\ EnergyTypeOK /\ DayInv /\ [Next]_vars => DayInv'
    BY DayStep
  <1>3. DayInv => DayFromMidnight
    BY DEF DayInv, DayFromMidnight
  <1> QED BY <1>1, <1>2, <1>3, EspEnergy, PTL DEF Spec

----------------------------------------------------------------------------
(* The settings                                                            *)

(* The file holds the setting of the user; from the moment that setup has  *)
(* read it the memory holds what it does, FALSE when there is none.        *)
SettingsInv ==
  /\ chosen \in Settings \cup {"none"} /\ mqttActive \in BOOLEAN
  /\ chosen # "none" => file = chosen
  /\ step = "files" \/ (step = "network" /\ file = "none") => ~mqttActive
  /\ step # "files" /\ chosen # "none" => mqttActive = (chosen = "TRUE")

LEMMA SettingsStep == SettingsInv /\ [Next]_vars => SettingsInv'
  <1> SUFFICES ASSUME SettingsInv, [Next]_vars PROVE SettingsInv'
    OBVIOUS
  <1>1. CASE UNCHANGED <<step, config>>
    BY <1>1 DEF SettingsInv
  <1>2. CASE ConfigRead
    <2>1. /\ step = "files" /\ ~mqttActive /\ chosen' = chosen
          /\ chosen \in Settings \cup {"none"} /\ (chosen # "none" => file = chosen)
      BY <1>2 DEF ConfigRead, SettingsInv
    <2>2. CASE file = "cut" /\ file' = "none" /\ UNCHANGED <<step, mqttActive>>
      BY <2>1, <2>2 DEF SettingsInv, Settings
    <2>3. CASE file = "none" /\ step' = "network" /\ UNCHANGED <<file, mqttActive>>
      BY <2>1, <2>3 DEF SettingsInv, Settings
    <2>4. CASE /\ file \in Settings /\ step' = "network"
               /\ mqttActive' = (file = "TRUE") /\ UNCHANGED file
      <3>1. mqttActive' \in BOOLEAN /\ file # "none"
        BY <2>4 DEF Settings
      <3>2. chosen # "none" => mqttActive' = (chosen = "TRUE")
        BY <2>1, <2>4
      <3> QED BY <2>1, <2>4, <3>1, <3>2 DEF SettingsInv
    <2> QED BY <1>2, <2>2, <2>3, <2>4 DEF ConfigRead
  <1>3. CASE JoinNetwork
    BY <1>3 DEF JoinNetwork, WriteFirst, SettingsInv, Settings
  <1>4. CASE SetupEnds
    BY <1>4 DEF SetupEnds, SettingsInv
  <1>5. ASSUME NEW v \in Settings, ConfigMaxPV(v) PROVE SettingsInv'
    BY <1>5 DEF ConfigMaxPV, ConfigWrite, Served, SettingsInv, Settings
  <1>6. CASE EraseConfig
    BY <1>6 DEF EraseConfig, Served, SettingsInv
  <1>7. CASE RestartESP
    BY <1>7 DEF RestartESP, SettingsInv
  <1>8. CASE Tick \/ Work \/ TimeScheduler \/ OneSecond \/ WatchDogWifi
             \/ WifiBack \/ LoopMqtt
    BY <1>1, <1>8 DEF Tick, Work, TimeScheduler, OneSecond, WatchDogWifi,
       WifiBack, LoopMqtt
  <1>9. CASE \/ OnMqttConnect \/ OnMqttDisconnect \/ Reconnect \/ WifiChanges
             \/ ResetIndex \/ ArduinoCut \/ UNCHANGED vars
    BY <1>1, <1>9 DEF OnMqttConnect, OnMqttDisconnect, Reconnect, WifiChanges,
       ResetIndex, ArduinoCut, IndexFalls
  <1> QED
    BY <1>2, <1>3, <1>4, <1>5, <1>6, <1>7, <1>8, <1>9 DEF Next, Loop

(* A restart, a power cut in any step of setup, a portal left half way:    *)
(* the settings in use are those of the user.                              *)
THEOREM SettingsSafe == Spec => []SettingsKept
  <1>1. Init => SettingsInv
    BY DEF Init, SettingsInv, Settings
  <1>2. SettingsInv => SettingsKept
    BY DEF SettingsInv, SettingsKept, Served
  <1> QED BY <1>1, <1>2, SettingsStep, PTL DEF Spec

----------------------------------------------------------------------------
(* The mode of the triac                                                   *)

USE DEF arduino, memory, esp

(* The first command of the line is one, and what may follow it a line.    *)
LEMMA LineTyped ==
  ASSUME BoostTypeOK, cmds # <<>>
  PROVE  /\ Head(cmds) \in Commands
         /\ \A s \in After : s \in Seq(Commands) /\ Len(s) <= MaxCmds
<1>1. cmds \in Seq(Commands) /\ Len(cmds) \in Nat /\ Len(cmds) <= MaxCmds /\ MaxCmds \in Nat
  BY BoostAssumption DEF BoostTypeOK
<1>2. Head(cmds) \in Commands /\ Tail(cmds) \in Seq(Commands)
  BY <1>1
<1>3. Len(Tail(cmds)) = Len(cmds) - 1
  BY <1>1
<1>4. CASE Len(cmds) > 1
  <2>1. /\ SubSeq(cmds, 3, Len(cmds)) \in Seq(Commands)
        /\ Len(SubSeq(cmds, 3, Len(cmds))) <= MaxCmds
    BY <1>1, <1>4
  <2> QED
    BY <1>1, <1>2, <1>3, <1>4, <2>1 DEF After
<1>5. CASE ~(Len(cmds) > 1)
  <2>1. <<>> \in Seq(Commands) /\ Len(<<>>) <= MaxCmds
    BY BoostAssumption
  <2> QED
    BY <1>1, <1>2, <1>3, <1>5, <2>1 DEF After
<1> QED
  BY <1>4, <1>5

(* Sending keeps to commands and to the size of the buffer. *)
LEMMA SendTyped ==
  ASSUME BoostTypeOK, NEW c \in Commands, Send(c)
  PROVE  cmds' \in Seq(Commands) /\ Len(cmds') <= MaxCmds
  BY BoostAssumption DEF BoostTypeOK, Send

(* The orders that boostON and boostOFF send. *)
LEMMA BoostSent ==
  ASSUME BoostTypeOK, NEW time \in Durations \cup {0}, SetBoostEcoPV(time)
  PROVE  cmds' \in Seq(Commands) /\ Len(cmds') <= MaxCmds
<1>1. PICK t \in Thresholds :
        Send([op |-> "SETBOOST", time |-> time, threshold |-> t])
  BY DEF SetBoostEcoPV
<1>2. [op |-> "SETBOOST", time |-> time, threshold |-> t] \in Commands
  BY DEF Commands
<1> QED
  BY <1>1, <1>2, SendTyped

(* The seconds of a boost are counted in Nat, those of boostOFF too.       *)
LEMMA TimesTyped == \A t \in Durations \cup {0} : t \in Nat
<1>1. Durations \subseteq Nat
  BY BoostAssumption
<1> QED
  BY <1>1

(* What the fields of the commands are. *)
LEMMA CommandFields ==
  ASSUME NEW c \in Commands
  PROVE  /\ c.op = "SETSSR" => c.mode \in Orders
         /\ c.op = "SETPARAM" => c.mode \in Others
         /\ c.op = "SETBOOST" => c.time \in Nat /\ c.threshold \in Thresholds
<1>1. CASE c \in [op : {"SETSSR"}, mode : Orders]
  BY <1>1
<1>2. CASE c \in [op : {"SETBOOST"}, time : Durations \cup {0},
                 threshold : Thresholds]
  <2>1. c.op = "SETBOOST" /\ c.time \in Durations \cup {0}
        /\ c.threshold \in Thresholds
    BY <1>2
  <2>2. c.time \in Nat
    BY <2>1, TimesTyped
  <2> QED
    BY <2>1, <2>2
<1>3. CASE c \in [op : {"SETPARAM"}, mode : Others]
  BY <1>3
<1>4. CASE c \in [op : {"RSTP", "RESET", "SAVECFG", "LOADCFG"}]
  BY <1>4
<1> QED
  BY <1>1, <1>2, <1>3, <1>4 DEF Commands

(* An empty line is a line of commands.                                    *)
LEMMA EmptyLine == <<>> \in Seq(Commands) /\ Len(<<>>) <= MaxCmds
  BY BoostAssumption

(* The count starts in the range of the burst.                             *)
LEMMA FirstSecond == 0 \in 0..(BurstPeriod - 1)
  BY BoostAssumption

(* Whatever is read, whole or garbled, is one of seven things, with        *)
(* arguments of their types.                                               *)
LEMMA Requests ==
  ASSUME BoostTypeOK, SerialRequest \/ GarbledRequest
  PROVE  \E a \in BOOLEAN :
           \/ \E m \in Kept : SetSSR(a, m)
           \/ \E time \in Nat : \E threshold \in 0..BurstPeriod :
                SetBoost(a, time, threshold)
           \/ \E m \in Kept : SetParam(a, m)
           \/ ResetDay(a) \/ Reset(a) \/ Config(a) \/ Ignored(a)
<1>1. /\ Orders \subseteq Kept /\ Others \subseteq Kept /\ triacMode \in Kept
      /\ Thresholds \subseteq 0..BurstPeriod /\ BurstPeriod \in 0..BurstPeriod
  BY BoostAssumption DEF Kept, BoostTypeOK
<1>2. ASSUME NEW a \in BOOLEAN, SetSSR(a, Head(cmds).mode)
      PROVE  \E m \in Kept : SetSSR(a, m)
  <2>1. Head(cmds).mode \in Kept
    BY <1>1, <1>2, LineTyped, CommandFields DEF SetSSR, Read
  <2> QED
    BY <1>2, <2>1
<1>3. ASSUME NEW a \in BOOLEAN, SetBoost(a, Head(cmds).time, Head(cmds).threshold)
      PROVE  \E time \in Nat : \E threshold \in 0..BurstPeriod :
               SetBoost(a, time, threshold)
  <2>1. Head(cmds).time \in Nat /\ Head(cmds).threshold \in 0..BurstPeriod
    BY <1>1, <1>3, LineTyped, CommandFields DEF SetBoost, Read
  <2> QED
    BY <1>3, <2>1
<1>4. ASSUME NEW a \in BOOLEAN, SetParam(a, Head(cmds).mode)
      PROVE  \E m \in Kept : SetParam(a, m)
  <2>1. Head(cmds).mode \in Kept
    BY <1>1, <1>4, LineTyped, CommandFields DEF SetParam, Read
  <2> QED
    BY <1>4, <2>1
<1>5. CASE SerialRequest
  BY <1>2, <1>3, <1>4, <1>5 DEF SerialRequest
<1>6. CASE GarbledRequest
  <2>1. PICK a \in BOOLEAN : Garbled(a)
    BY <1>6 DEF GarbledRequest
  <2>2. CASE \E m \in Orders \cup {triacMode} : SetSSR(a, m)
    BY <1>1, <2>2
  <2>3. CASE \E time \in Durations \cup {0}, threshold \in Thresholds \cup {BurstPeriod} :
               SetBoost(a, time, threshold)
    BY <1>1, <2>3, TimesTyped
  <2>4. CASE \E m \in Others : SetParam(a, m)
    BY <1>1, <2>4
  <2>5. CASE Ignored(a)
    BY <2>5
  <2> QED
    BY <2>1, <2>2, <2>3, <2>4, <2>5 DEF Garbled
<1> QED
  BY <1>5, <1>6

(* No step takes a variable out of its type.                               *)
LEMMA BoostTyped == BoostTypeOK /\ [BoostNext]_boostVars => BoostTypeOK'
<1> SUFFICES ASSUME BoostTypeOK, [BoostNext]_boostVars PROVE BoostTypeOK'
  OBVIOUS
<1>1. ASSUME NEW stats \in BOOLEAN, NEW report \in BOOLEAN,
             Second(stats, report)
      PROVE  BoostTypeOK'
  <2>2. outputfull' \in Full
    BY <1>1 DEF Second, CheckTank, BoostTypeOK, Full
  <2>3. /\ triacMode' \in Kept /\ boostTime' \in Nat \cup {-1}
        /\ burstCnt' \in 0..(BurstPeriod - 1) /\ glued' \in BOOLEAN
    <3>1. NextBurst \in 0..(BurstPeriod - 1)
      BY BoostAssumption DEF NextBurst, BoostTypeOK
    <3>2. CASE boostTime > 0
      <4>1. boostTime' = boostTime - 1 /\ boostTime \in Nat
        BY <1>1, <3>2 DEF Second, BoostStep, BoostTypeOK
      <4>2. /\ triacMode' \in {"FORCE", "STOP"} /\ burstCnt' = NextBurst
            /\ glued' = FALSE
        BY <1>1, <3>2 DEF Second, BoostStep, BoostTypeOK
      <4>3. boostTime' \in Nat \cup {-1}
        BY <3>2, <4>1
      <4>4. triacMode' \in Kept /\ glued' \in BOOLEAN
        BY <4>2 DEF Kept, Modes
      <4> QED
        BY <3>1, <4>2, <4>3, <4>4
    <3>3. CASE ~(boostTime > 0)
      BY <1>1, <3>3 DEF Second, BoostStep, BoostTypeOK, Kept, Modes
    <3> QED
      BY <3>2, <3>3
  <2>4. espBoost' \in Nat \cup {-1} /\ espFull' \in Full
    BY <1>1 DEF Second, Frames, Report, BoostTypeOK
  <2> QED
    BY <1>1, <2>2, <2>3, <2>4 DEF Second, BoostTypeOK
<1>2. ASSUME NEW a \in BOOLEAN, NEW over, Answer(a, over)
      PROVE  espBoost' \in Nat \cup {-1} /\ glued' \in BOOLEAN /\ espFull' \in Full
  BY <1>2 DEF Answer, BoostTypeOK
<1>3. ASSUME cmds # <<>>, cmds' \in After
      PROVE  cmds' \in Seq(Commands) /\ Len(cmds') <= MaxCmds
  BY <1>3, LineTyped
<1>5. ASSUME NEW a \in BOOLEAN, NEW m \in Kept, SetSSR(a, m)
      PROVE  BoostTypeOK'
  <2>1. espBoost' \in Nat \cup {-1} /\ glued' \in BOOLEAN /\ espFull' \in Full
    BY <1>2, <1>5 DEF SetSSR
  <2>2. cmds' \in Seq(Commands) /\ Len(cmds') <= MaxCmds
    BY <1>3, <1>5 DEF SetSSR, Read
  <2>3. boostTime' \in Nat \cup {-1}
    BY <1>5 DEF SetSSR
  <2> QED
    BY <1>5, <2>1, <2>2, <2>3 DEF SetSSR, BoostTypeOK
<1>6. ASSUME NEW a \in BOOLEAN, NEW time \in Nat,
             NEW threshold \in 0..BurstPeriod, SetBoost(a, time, threshold)
      PROVE  BoostTypeOK'
  <2>1. boostTime' \in Nat \cup {-1}
    BY <1>6 DEF SetBoost, BoostTypeOK
  <2>2. order' \in Kept \cup {"boost"} /\ burstCnt' \in 0..(BurstPeriod - 1)
    BY <1>6, FirstSecond DEF SetBoost, BoostTypeOK
  <2> QED
    BY <1>2, <1>3, <1>6, <2>1, <2>2 DEF SetBoost, Read, BoostTypeOK
<1>7. ASSUME NEW a \in BOOLEAN, ResetDay(a) \/ Ignored(a)
      PROVE  BoostTypeOK'
  BY <1>2, <1>3, <1>7 DEF ResetDay, Ignored, Read, BoostTypeOK, Full
<1>8. ASSUME NEW a \in BOOLEAN, Reset(a) PROVE BoostTypeOK'
  <2>1. cmds' \in Seq(Commands) /\ Len(cmds') <= MaxCmds
    BY <1>3, <1>8, EmptyLine DEF Reset
  <2> QED
    BY <1>2, <1>8, <2>1 DEF Reset, Restart, BoostTypeOK
<1>9. ASSUME NEW a \in BOOLEAN, NEW m \in Kept, SetParam(a, m)
      PROVE  BoostTypeOK'
  BY <1>2, <1>3, <1>9 DEF SetParam, Read, BoostTypeOK
<1>10. ASSUME NEW a \in BOOLEAN, Config(a) PROVE BoostTypeOK'
  BY <1>2, <1>3, <1>10 DEF Config, Read, BoostTypeOK
<1>11. CASE FatalError
  BY <1>11 DEF FatalError, Restart, BoostTypeOK
<1>12. CASE PowerCut
  <2>1. cmds' \in Seq(Commands) /\ Len(cmds') <= MaxCmds
    BY <1>12, EmptyLine DEF PowerCut
  <2>2. burstCnt' \in 0..(BurstPeriod - 1) /\ burstThreshold' \in 0..BurstPeriod
    BY <1>12, FirstSecond, BoostAssumption DEF PowerCut
  <2>3. boostTime' \in Nat \cup {-1}
    BY <1>12 DEF PowerCut
  <2> QED
    BY <1>12, <2>1, <2>2, <2>3 DEF PowerCut, BoostTypeOK, Full
<1>13. ASSUME NEW d \in Durations, BoostON(d) PROVE BoostTypeOK'
  <2>1. cmds' \in Seq(Commands) /\ Len(cmds') <= MaxCmds
    BY <1>13, BoostSent DEF BoostON
  <2> QED
    BY <1>13, <2>1, BoostAssumption DEF BoostON, SetBoostEcoPV, Unmoved, BoostTypeOK
<1>14. CASE BoostOFF
  <2>1. cmds' \in Seq(Commands) /\ Len(cmds') <= MaxCmds
    BY <1>14, BoostSent DEF BoostOFF
  <2> QED
    BY <1>14, <2>1 DEF BoostOFF, SetBoostEcoPV, Unmoved, BoostTypeOK
<1>15. CASE EspSecond
  <2>1. CASE TempActive /\ espFull = "hot"
    <3>1. cmds' \in Seq(Commands) /\ Len(cmds') <= MaxCmds
      BY <1>15, <2>1, BoostSent DEF EspSecond
    <3> QED
      BY <1>15, <2>1, <3>1 DEF EspSecond, SetBoostEcoPV, Unmoved, BoostTypeOK
  <2>2. CASE ~(TempActive /\ espFull = "hot")
    BY <1>15, <2>2 DEF EspSecond, Unmoved, BoostTypeOK
  <2> QED
    BY <2>1, <2>2
<1>16. ASSUME NEW c \in Commands, Sent(c) PROVE BoostTypeOK'
  BY <1>16, SendTyped DEF Sent, Unmoved, BoostTypeOK
<1>17. ASSUME NEW m \in Orders, SSRMode(m) PROVE BoostTypeOK'
  <2>1. [op |-> "SETSSR", mode |-> m] \in Commands
    BY DEF Commands
  <2> QED
    BY <1>16, <1>17, <2>1 DEF SSRMode
<1>18. ASSUME NEW m \in Others, SetParamEcoPV(m) PROVE BoostTypeOK'
  <2>1. [op |-> "SETPARAM", mode |-> m] \in Commands
    BY DEF Commands
  <2> QED
    BY <1>16, <1>18, <2>1 DEF SetParamEcoPV
<1>19. \A op \in {"RSTP", "RESET", "SAVECFG", "LOADCFG"} : [op |-> op] \in Commands
  BY DEF Commands
<1>20. CASE Midnight \/ RestartEcoPV \/ SaveConfigEcoPV \/ LoadConfigEcoPV
  BY <1>16, <1>19, <1>20 DEF Midnight, RestartEcoPV, SaveConfigEcoPV, LoadConfigEcoPV
<1>21. CASE RebootESP
  <2>1. cmds' \in Seq(Commands) /\ Len(cmds') <= MaxCmds
    BY <1>19, <1>21, SendTyped DEF RebootESP
  <2> QED
    BY <1>21, <2>1 DEF RebootESP, Unmoved, BoostTypeOK, Full
<1>22. CASE UNCHANGED boostVars
  BY <1>22 DEF boostVars, BoostTypeOK
<1>23. CASE SerialRequest \/ GarbledRequest
  BY <1>5, <1>6, <1>7, <1>8, <1>9, <1>10, <1>23, Requests
<1>24. CASE EcoPV
  BY <1>1, <1>11, <1>12, <1>23, <1>24 DEF EcoPV
<1>25. CASE User
  BY <1>13, <1>14, <1>17, <1>18, <1>20, <1>25 DEF User, BoostOrder
<1>26. CASE MaxPV
  BY <1>13, <1>15, <1>20, <1>21, <1>26 DEF MaxPV, TimerBoost
<1> QED
  BY <1>22, <1>24, <1>25, <1>26 DEF BoostNext

(* Every variable keeps its type, the commands on the line included. *)
THEOREM BoostTyping == BoostSpec => []BoostTypeOK
<1>1. BoostInit => BoostTypeOK
  <2> SUFFICES ASSUME BoostInit PROVE BoostTypeOK
    OBVIOUS
  <2>1. boostTime \in Nat \cup {-1} /\ espBoost \in Nat \cup {-1}
    BY DEF BoostInit
  <2>2. burstThreshold \in 0..BurstPeriod /\ "AUTOM" \in Kept
    BY BoostAssumption DEF BoostInit, Kept, Modes
  <2> QED
    BY <2>1, <2>2, EmptyLine, FirstSecond DEF BoostInit, BoostTypeOK, Full
<1> QED
  BY <1>1, BoostTyped, PTL DEF BoostSpec

(* OrderHolds is inductive: only SETSSR, SETBOOST, a restart and the       *)
(* seconds of a boost touch the mode, and each says so in order.           *)
LEMMA OrderStep == BoostTypeOK /\ OrderHolds /\ [BoostNext]_boostVars => OrderHolds'
<1> SUFFICES ASSUME BoostTypeOK, OrderHolds, [BoostNext]_boostVars PROVE OrderHolds'
  OBVIOUS
<1>0. "boost" \notin Kept
  BY BoostAssumption DEF Kept, Modes
<1>1. ASSUME NEW stats \in BOOLEAN, NEW report \in BOOLEAN,
             Second(stats, report)
      PROVE  OrderHolds'
  <2>1. order' = order
    BY <1>1 DEF Second
  <2>2. CASE boostTime = 0
    <3>1. boostTime' = -1 /\ triacMode' = "AUTOM" /\ order = "boost"
      BY <1>1, <2>2 DEF Second, BoostStep, OrderHolds
    <3> QED
      BY <2>1, <3>1 DEF OrderHolds
  <2>3. CASE boostTime > 0
    <3>1. boostTime' # -1 /\ order = "boost"
      BY <1>1, <2>3 DEF Second, BoostStep, OrderHolds, BoostTypeOK
    <3> QED
      BY <2>1, <3>1 DEF OrderHolds
  <2>4. CASE boostTime = -1
    <3>1. boostTime' = boostTime /\ triacMode' = triacMode
      BY <1>1, <2>4 DEF Second, BoostStep
    <3> QED
      BY <2>1, <3>1 DEF OrderHolds
  <2> QED
    BY <2>2, <2>3, <2>4 DEF BoostTypeOK
<1>2. ASSUME NEW a \in BOOLEAN, NEW m \in Kept, SetSSR(a, m) PROVE OrderHolds'
  BY <1>0, <1>2 DEF SetSSR, OrderHolds
<1>3. ASSUME NEW a \in BOOLEAN, NEW time \in Nat, NEW threshold \in 0..BurstPeriod,
             SetBoost(a, time, threshold)
      PROVE  OrderHolds'
  <2>1. CASE time # 0 \/ boostTime # -1
    <3>1. boostTime' # -1 /\ order' = "boost"
      BY <1>3, <2>1 DEF SetBoost, Accepts
    <3> QED
      BY <3>1 DEF OrderHolds
  <2>2. CASE ~(time # 0 \/ boostTime # -1)
    <3>1. UNCHANGED <<boostTime, order, triacMode>>
      BY <1>3, <2>2 DEF SetBoost, Accepts
    <3> QED
      BY <3>1 DEF OrderHolds
  <2> QED
    BY <2>1, <2>2
<1>4. ASSUME Restart PROVE OrderHolds'
  BY <1>0, <1>4 DEF Restart, OrderHolds, BoostTypeOK
<1>5. CASE PowerCut
  BY <1>0, <1>5 DEF PowerCut, OrderHolds, BoostTypeOK
<1>6. ASSUME UNCHANGED <<triacMode, boostTime, order>> PROVE OrderHolds'
  BY <1>6 DEF OrderHolds
<1>7. CASE SerialRequest \/ GarbledRequest
  <2>1. PICK a \in BOOLEAN :
           \/ \E m \in Kept : SetSSR(a, m)
           \/ \E time \in Nat : \E threshold \in 0..BurstPeriod :
                SetBoost(a, time, threshold)
           \/ \E m \in Kept : SetParam(a, m)
           \/ ResetDay(a) \/ Reset(a) \/ Config(a) \/ Ignored(a)
    BY <1>7, Requests
  <2>2. CASE \E m \in Kept : SetSSR(a, m)
    BY <1>2, <2>2
  <2>3. CASE \E time \in Nat : \E threshold \in 0..BurstPeriod :
                SetBoost(a, time, threshold)
    BY <1>3, <2>3
  <2>4. CASE \/ \E m \in Kept : SetParam(a, m)
             \/ ResetDay(a) \/ Config(a) \/ Ignored(a)
    <3>1. UNCHANGED <<triacMode, boostTime, order>>
      BY <2>4 DEF SetParam, ResetDay, Config, Ignored
    <3> QED
      BY <1>6, <3>1
  <2>5. CASE Reset(a)
    BY <1>4, <2>5 DEF Reset
  <2> QED
    BY <2>1, <2>2, <2>3, <2>4, <2>5
<1>8. CASE User \/ MaxPV \/ UNCHANGED boostVars
  <2>1. UNCHANGED <<triacMode, boostTime, order>>
    BY <1>8 DEF User, MaxPV, BoostOrder, TimerBoost, BoostON, BoostOFF,
         SetBoostEcoPV, EspSecond, SSRMode, SetParamEcoPV, SaveConfigEcoPV,
         LoadConfigEcoPV, Midnight, RestartEcoPV, Sent, RebootESP, Unmoved,
         boostVars
  <2> QED
    BY <1>6, <2>1
<1>9. CASE EcoPV
  BY <1>1, <1>4, <1>5, <1>7, <1>9 DEF EcoPV, FatalError
<1> QED
  BY <1>8, <1>9 DEF BoostNext

(* The user's order has priority over the boost, and holds until the next  *)
(* one: that of a garbled SETSSR is the mode in use, also of a burst.      *)
THEOREM OrdersHold == BoostSpec => []OrderHolds
<1>1. BoostInit => OrderHolds
  BY DEF BoostInit, OrderHolds
<1> QED
  BY <1>1, OrderStep, BoostTyping, PTL DEF BoostSpec
=============================================================================
