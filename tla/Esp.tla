-------------------------------- MODULE Esp --------------------------------
(***************************************************************************)
(* The tasks of MaxPV (MaxPV3/MaxPV3.ino): one loop runs what the timers   *)
(* have asked for, then the recovery of WiFi and MQTT, which block it for  *)
(* seconds.  Every minute it must find midnight and the timer of the       *)
(* boost; the daily references rest on that.  MaxPV3/mqtt.h holds the      *)
(* reactions to the MQTT client.                                           *)
(*                                                                         *)
(* Time is in units; a day has a few minutes.  Energy is counted as one    *)
(* unit in a minute at most; the index that counts it is the Arduino's,    *)
(* read every second, and falls when it is reset or the Arduino is cut     *)
(* off, since the EEPROM holds an older one.  The other tasks (telnet,     *)
(* FTP, DNS, NTP, publication) only take time.                             *)
(***************************************************************************)
EXTENDS Integers

CONSTANTS
  Minute,       \* units in a minute
  Period,       \* units between two calls of the minute task
  Block,        \* the longest that one pass of loop blocks, WiFi excepted
  Day,          \* minutes in a day
  MaxIndex      \* bound on the index

ASSUME EspAssumption ==
  /\ {Minute, Period, Block, Day} \subseteq Nat \ {0}
  /\ Period <= Minute /\ Day > 1 /\ MaxIndex \in Nat

VARIABLES
  now,          \* the time of day
  tick, asked,  \* units to the next call of the minute task; call due
  blocked,      \* units that loop is still blocked
  step, portal, \* of setup; loop is in wifiManager.autoConnect
  index, ref,   \* INDEX_ROUTED, INDEX_ROUTED_J
  since,        \* history: energy routed since midnight
  apart,        \* history: of that, what a start of the ESP left out and
                \* what the index has fallen by
  reference,    \* history: "taken", of a midnight that was "missed", or
                \* "nothing" since setup ended on a frame other than STATS
  ran,          \* history: the minute task has run in this minute
  missed,       \* history: minutes without a call, the last ones
  late,         \* history: loop has been blocked beyond Block
  wifi, mqtt,   \* the network; "idle", "connecting" or "connected"
  timer,        \* mqttReconnectTimer is armed
  shouldCheckWifi, shouldCheckMQTT,
  mqttActive,   \* a setting of the page
  file,         \* config.json: a setting, "none" (absent), "cut"
  chosen        \* history: the setting of the user, or "none"

clock == <<now, tick, asked>>
busy  == <<blocked, step, portal>>
refs  == <<index, ref, since, apart, reference>>
runs  == <<ran, missed, late>>
net   == <<wifi, mqtt, timer>>
flags == <<shouldCheckWifi, shouldCheckMQTT>>
config == <<mqttActive, file, chosen>>
vars  == <<clock, busy, refs, runs, net, flags, config>>

Settings == {"TRUE", "FALSE"}
Steps    == {"files", "network", "services", "done"}
Setup    == step # "done"
References == {"taken", "missed", "nothing"}

MinuteOf(t) == t \div Minute
Now == MinuteOf(now)

Init ==
  /\ now \in 0..(Day * Minute - 1) /\ tick = Period /\ asked = FALSE
  /\ blocked = 0 /\ step = "files" /\ portal = FALSE
  /\ index \in 0..MaxIndex /\ ref = 0 /\ since = 0 /\ apart = 0
  /\ reference = "taken"
  /\ ran = FALSE /\ missed = 0 /\ late = TRUE
  /\ wifi = TRUE /\ mqtt = "idle" /\ timer = FALSE
  /\ shouldCheckWifi = FALSE /\ shouldCheckMQTT = FALSE
  /\ mqttActive = FALSE /\ file \in Settings \cup {"none"} /\ chosen = file

----------------------------------------------------------------------------
(* Time passes while loop has nothing to run, or is blocked.               *)
Idle == ~asked /\ ~shouldCheckWifi /\ ~shouldCheckMQTT

SkipMutant ==   \* a call that is due while loop is blocked is dropped
  IF Setup THEN UNCHANGED <<tick, asked>>
  ELSE IF tick = 1 THEN tick' = Period /\ asked' = (blocked = 0)
  ELSE tick' = tick - 1 /\ UNCHANGED asked

(* The timer of the minute task asks for a call; two are one.              *)
Timer ==
  IF Setup THEN UNCHANGED <<tick, asked>>
  ELSE IF tick = 1 THEN tick' = Period /\ asked' = TRUE
  ELSE tick' = tick - 1 /\ UNCHANGED asked

NewMinute ==
  /\ ran' = FALSE
  /\ missed' = IF ran \/ late THEN 0 ELSE IF missed < 2 THEN missed + 1 ELSE 2
  /\ \E e \in {0, 1} :
       /\ index + e <= MaxIndex /\ index' = index + e
       /\ since' = IF MinuteOf(now') = 0 THEN e ELSE since + e
  /\ reference' = IF Now = 0 /\ ~ran THEN "missed" ELSE reference
  /\ apart' = IF reference' = "taken" THEN apart ELSE 0
  /\ UNCHANGED ref

Tick ==
  /\ blocked > 0 \/ Setup \/ portal \/ Idle
  /\ now' = (now + 1) % (Day * Minute)
  /\ Timer
  /\ blocked' = IF blocked > 0 THEN blocked - 1 ELSE 0
  /\ IF MinuteOf(now') # Now THEN NewMinute ELSE UNCHANGED <<ran, missed, refs>>
  /\ late' = (late \/ Setup \/ portal)
  /\ UNCHANGED <<step, portal, net, flags, config>>

(* A call of a relay or a dimmer, a transmission.                          *)
Free == step = "done" /\ ~portal /\ blocked = 0

Work ==
  /\ Free /\ Idle
  /\ blocked' \in 1..Block
  /\ UNCHANGED <<clock, step, portal, refs, runs, net, flags, config>>

----------------------------------------------------------------------------
(* timeScheduler, "appelé chaque minute".                                  *)

(* setRefIndexJour: today's references are the readings of this moment.    *)
SetRefMutant ==   \* the references are left
  /\ apart' = 0 /\ reference' = "taken"
  /\ UNCHANGED <<index, ref, since>>
SetRefIndexJour ==
  /\ ref' = index /\ apart' = 0 /\ reference' = "taken"
  /\ UNCHANGED <<index, since>>

(* The timer of the boost is the other thing it looks for (module Boost).  *)
TimeScheduler ==
  /\ Free /\ asked /\ asked' = FALSE
  /\ IF Now = 0 THEN SetRefIndexJour ELSE UNCHANGED refs
  /\ ran' = TRUE /\ late' = FALSE /\ UNCHANGED missed
  /\ UNCHANGED <<now, tick, busy, net, flags, config>>

(* The one-second task.                                                    *)
OneSecond ==
  /\ Free /\ ~asked
  /\ shouldCheckWifi' = (shouldCheckWifi \/ ~wifi)
  /\ shouldCheckMQTT' = (shouldCheckMQTT \/ mqtt # "connected")
  /\ UNCHANGED <<clock, busy, refs, runs, net, config>>

----------------------------------------------------------------------------
(* setup, in three steps.                                                  *)

(* configRead, if there is a file; one that cannot be read is removed, and *)
(* the ESP restarts.                                                       *)
ConfigRead ==
  /\ step = "files"
  /\ \/ /\ file = "cut" /\ file' = "none" /\ UNCHANGED <<step, mqttActive>>
     \/ /\ file = "none" /\ step' = "network" /\ UNCHANGED <<file, mqttActive>>
     \/ /\ file \in Settings /\ step' = "network"
        /\ mqttActive' = (file = "TRUE") /\ UNCHANGED file
  /\ UNCHANGED <<clock, blocked, portal, refs, runs, net, flags, chosen>>

(* autoConnect: the last network, or without a file the portal, whose user *)
(* has the configuration written.                                          *)
WriteFirst ==
  IF file = "none" THEN file' = "FALSE" /\ chosen' = "FALSE"
  ELSE UNCHANGED <<file, chosen>>
JoinNetwork ==
  /\ step = "network" /\ wifi /\ step' = "services"
  /\ WriteFirst
  /\ mqtt' = IF mqttActive THEN "connecting" ELSE mqtt
  /\ UNCHANGED <<clock, blocked, portal, refs, runs, wifi, timer, flags, mqttActive>>

(* The Arduino is heard.  The references are the readings of this moment,  *)
(* or nothing if the frame that ended the wait was not STATS.              *)
SetupEnds ==
  /\ step = "services" /\ step' = "done"
  /\ tick' = Period /\ asked' = FALSE
  /\ \/ ref' = index /\ apart' = since /\ reference' = "taken"
     \/ ref' = 0 /\ apart' = 0 /\ reference' = "nothing"
  /\ UNCHANGED <<now, blocked, portal, index, since, runs, net, flags, config>>

----------------------------------------------------------------------------
(* The settings, served from the step of the services on.                  *)
Served == step \in {"services", "done"}

(* The file is written whole, from the settings in use.                    *)
ConfigMutant == UNCHANGED file   \* forgotten
ConfigWrite  == file' = IF mqttActive' THEN "TRUE" ELSE "FALSE"

(* configmaxpv; a setting that is not in the page's message is kept.       *)
ConfigMaxPV(v) ==
  /\ Served /\ mqttActive' = (v = "TRUE") /\ chosen' = v
  /\ ConfigWrite
  /\ UNCHANGED <<clock, busy, refs, runs, net, flags>>

(* The index falls: the references are kept.                               *)
IndexFalls(i) ==
  /\ index' = i
  /\ apart' = IF reference = "taken" /\ ~Setup THEN apart + (index - i) ELSE 0
  /\ UNCHANGED <<clock, busy, ref, since, reference, runs, net, flags, config>>

(* resetindex, "reset tous les index": INDX0.                              *)
ResetIndex == Served /\ IndexFalls(0)

(* The Arduino is cut off, and starts with the index of its EEPROM.        *)
ArduinoCut == \E i \in 0..index : IndexFalls(i)

EraseConfig ==
  /\ Served /\ file' = "none" /\ chosen' = "none"
  /\ UNCHANGED <<clock, busy, refs, runs, net, flags, mqttActive>>

----------------------------------------------------------------------------
(* WiFi and MQTT.                                                          *)

(* startMqtt: connect, then delay(3000).                                   *)
StartMutant ==   \* the client is set up and does not connect
  blocked' = Block /\ UNCHANGED <<mqtt, timer>>
StartMqtt ==
  /\ mqtt' = IF mqtt = "idle" THEN "connecting" ELSE mqtt
  /\ blocked' = Block /\ UNCHANGED timer

LoopMqtt ==
  /\ Free /\ ~asked /\ ~shouldCheckWifi /\ shouldCheckMQTT
  /\ StartMqtt /\ shouldCheckMQTT' = FALSE
  /\ UNCHANGED <<clock, step, portal, refs, runs, wifi, shouldCheckWifi, config>>

(* watchDogWifi, up to autoConnect, which lasts as long as it takes.       *)
WatchDogWifi ==
  /\ Free /\ ~asked /\ shouldCheckWifi
  /\ portal' = TRUE /\ late' = TRUE
  /\ IF mqtt = "connected" THEN mqtt' = "idle" /\ timer' = TRUE
     ELSE UNCHANGED <<mqtt, timer>>
  /\ UNCHANGED <<clock, blocked, step, refs, ran, missed, wifi, flags, config>>

(* From there on.  "Demarrage du client MQTT si configuré".                *)
WifiBack ==
  /\ portal /\ wifi /\ portal' = FALSE
  /\ IF mqttActive THEN StartMqtt ELSE UNCHANGED <<blocked, mqtt, timer>>
  /\ shouldCheckWifi' = FALSE /\ shouldCheckMQTT' = FALSE
  /\ UNCHANGED <<clock, step, refs, runs, wifi, config>>

(* autoConnect gives up and the ESP restarts; or the page orders it; or    *)
(* the power fails, maybe while configWrite has its file open.             *)
RestartESP ==
  /\ step' = "files" /\ portal' = FALSE /\ blocked' = 0
  /\ mqtt' = "idle" /\ timer' = FALSE /\ asked' = FALSE
  /\ shouldCheckWifi' = FALSE /\ shouldCheckMQTT' = FALSE
  /\ ref' = 0 /\ apart' = 0 /\ reference' = "taken" /\ late' = TRUE
  /\ mqttActive' = FALSE
  /\ \/ UNCHANGED <<file, chosen>>
     \/ Served /\ file' = "cut" /\ chosen' = "none"
  /\ UNCHANGED <<now, tick, index, since, ran, missed, wifi>>

(* onMqttConnect, onMqttDisconnect: callbacks of the client.               *)
OnMqttConnect ==
  /\ mqtt = "connecting" /\ wifi /\ mqtt' = "connected"
  /\ UNCHANGED <<clock, busy, refs, runs, wifi, timer, flags, config>>

OnMqttDisconnect ==
  /\ mqtt \in {"connecting", "connected"}
  /\ mqtt' = "idle" /\ timer' = TRUE
  /\ UNCHANGED <<clock, busy, refs, runs, wifi, flags, config>>

(* mqttConnect, five seconds later.                                        *)
Reconnect ==
  /\ timer /\ timer' = FALSE
  /\ mqtt' = IF mqtt = "idle" THEN "connecting" ELSE mqtt
  /\ UNCHANGED <<clock, busy, refs, runs, wifi, flags, config>>

WifiChanges ==
  /\ wifi' = ~wifi
  /\ UNCHANGED <<clock, busy, refs, runs, mqtt, timer, flags, config>>

Loop == TimeScheduler \/ OneSecond \/ WatchDogWifi \/ WifiBack \/ LoopMqtt
          \/ Work

Next == \/ Tick \/ Loop \/ ConfigRead \/ JoinNetwork \/ SetupEnds \/ RestartESP
        \/ OnMqttConnect \/ OnMqttDisconnect \/ Reconnect \/ WifiChanges
        \/ ResetIndex \/ ArduinoCut \/ EraseConfig \/ \E v \in Settings : ConfigMaxPV(v)

(* Time passes, loop runs, setup ends; the broker may refuse or drop the   *)
(* connection, but not each time.                                          *)
Fairness ==
  /\ WF_vars(Tick) /\ WF_vars(TimeScheduler) /\ SF_vars(OneSecond)
  /\ WF_vars(WatchDogWifi) /\ WF_vars(WifiBack) /\ WF_vars(LoopMqtt) /\ WF_vars(ConfigRead)
  /\ WF_vars(JoinNetwork) /\ WF_vars(SetupEnds)
  /\ SF_vars(OnMqttConnect) /\ WF_vars(Reconnect)

Spec     == Init /\ [][Next]_vars
FairSpec == Spec /\ Fairness

----------------------------------------------------------------------------
(* Properties *)

TypeOK ==
  /\ now \in 0..(Day * Minute - 1) /\ tick \in 1..Period /\ asked \in BOOLEAN
  /\ blocked \in 0..Block /\ step \in Steps /\ portal \in BOOLEAN
  /\ index \in 0..MaxIndex /\ ref \in 0..MaxIndex
  /\ since \in 0..Day /\ apart \in Nat
  /\ reference \in References
  /\ ran \in BOOLEAN /\ missed \in 0..2 /\ late \in BOOLEAN
  /\ wifi \in BOOLEAN /\ mqtt \in {"idle", "connecting", "connected"}
  /\ timer \in BOOLEAN
  /\ shouldCheckWifi \in BOOLEAN /\ shouldCheckMQTT \in BOOLEAN
  /\ mqttActive \in BOOLEAN /\ file \in Settings \cup {"none", "cut"}
  /\ chosen \in Settings \cup {"none"}

(* "La périodicité est légèrement inférieure à la minute pour être sûr de  *)
(* ne pas rater de minute": a minute may be missed, since startMqtt alone  *)
(* blocks for 3 seconds and the period leaves 346 ms; never two of them,   *)
(* once the ESP runs and has the network.                                  *)
NeverTwoMissed == Period + Block < 2 * Minute => missed < 2

(* The energy of the day that the pages show and the boost deducts.        *)
DayEnergy == index - ref

(* It is what has been routed since midnight, short of what the first      *)
(* minute brought at most (the references may be taken twice in it), of    *)
(* what was routed before the ESP last started and of what the index has   *)
(* fallen by: whatever blocks loop, and wherever restarts and resets fall. *)
(* Excepted are the days whose first minute was missed, or whose setup     *)
(* ended on a frame other than STATS: then the day is the whole index.     *)
(* As INDX0 leaves the references, the energy of the day may be negative.  *)
DayFromMidnight ==
  ~Setup /\ Now # 0 /\ reference = "taken" => since - apart - DayEnergy \in {0, 1}

(* When the network stays and the ESP is not restarted, MQTT comes back    *)
(* again and again, though one flag serves the timer and the watchdog.     *)
MqttComesBack == []<>~wifi \/ []<>Setup \/ []<>(mqtt = "connected")

(* A restart leaves the settings as they were, unless the file was erased  *)
(* or cut.                                                                 *)
SettingsKept == Served /\ chosen # "none" => mqttActive = (chosen = "TRUE")
=============================================================================
