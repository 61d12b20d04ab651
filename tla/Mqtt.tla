-------------------------------- MODULE Mqtt --------------------------------
(***************************************************************************)
(* MaxPV at the MQTT broker (MaxPV3/mqtt.h): on each connection it         *)
(* subscribes to its commands and announces its entities to Home           *)
(* Assistant, then publishes their states; a command goes to EcoPV over    *)
(* the serial line or acts on MaxPV, and comes back as a state.  The page  *)
(* (/api/set, /api/get) orders and shows the same.                         *)
(*                                                                         *)
(* Everything is sent with QoS 0 and retained.  The broker and the client  *)
(* library are external: messages arrive in order and are lost only with   *)
(* the connection.  Devices do not meet, so a behaviour follows one.  Data *)
(* left out: what a sensor measures, the presentation of an entity.  The   *)
(* specification has names of its own: ConnectionProofs extends it with    *)
(* module Connection, the client below.                                    *)
(***************************************************************************)
EXTENDS Naturals, Sequences, SequencesExt

CONSTANTS
  MaxCmds,      \* commands that the receive buffer of the Arduino holds
  Loses         \* the serial line may lose a command

ASSUME MqttAssumption == MaxCmds \in Nat \ {0} /\ Loses \in BOOLEAN

Arduino == {"relay", "ssr"}
Devices == Arduino \cup {"dimmer", "boost"}

\* STOP, FORCE and AUTOM as STATS prints them; boostTime, the time left as "n".
Values(d) == IF d = "boost" THEN {"-1", "0", "n"} ELSE {"0", "1", "9"}

VARIABLES
  dev,          \* the device that is followed
  mode,         \* its mode, where it is decided
  line,         \* commands sent to the Arduino and not read
  stats,        \* the mode that MaxPV knows, "" before the first STATS
  mqttActive,   \* "Activation MQTT", "Envoi données détaillées": settings
  mqttDet,
  client,       \* "idle", "connecting", "accepted" by the broker, "connected"
  session,      \* the broker has a session, and will publish its will
  link,         \* what is sent in it arrives
  subscribed,   \* the topics that it forwards in this session
  configs,      \* the entities announced, retained
  state, shown, \* MQTT_STATE and the topic of the device, retained
  fed           \* history: topics of the transmissions of this session

net      == <<client, session, link>>
broker   == <<subscribed, configs, state, shown, fed>>
device   == <<dev, mode, line, stats>>
settings == <<mqttActive, mqttDet>>
mqttVars == <<device, settings, net, broker>>

----------------------------------------------------------------------------
(* What is announced: topics by their names in mqtt.h.                     *)

StateTopic == [relay |-> "RELAY_MODE", ssr |-> "TRIAC_MODE",
               dimmer |-> "DIMMER_MODE", boost |-> "BOOST_MODE"]
SetTopic   == [relay |-> "SET_RELAY_MODE", ssr |-> "SET_TRIAC_MODE",
               dimmer |-> "SET_DIMMER_MODE", boost |-> "SET_BOOST_MODE"]

Sensor(t)  == [stat_t |-> t, cmd_t |-> "none"]
Control(d) == [stat_t |-> StateTopic[d], cmd_t |-> SetTopic[d]]

Detailed == {"V_RMS", "I_RMS", "P_APP", "COS_PHI"}
Measured == {"P_ACT", "P_EXPORT", "P_ROUTED", "P_ROUTED2", "P_IMPULSION",
             "INDEX_ROUTED", "INDEX_ROUTED2", "INDEX_IMPORT", "INDEX_EXPORT",
             "INDEX_IMPULSION", "TEMP"}

DetailedSensors == {Sensor(t) : t \in Detailed}
Sensors  == {Sensor(t) : t \in Measured}
Controls == {Control(d) : d \in Devices}

Announced == DetailedSensors \cup Sensors \cup Controls

Commands == {SetTopic[d] : d \in Devices} \cup {"SET_TEMP"}

----------------------------------------------------------------------------
(* How a mode is shown.  MaxPV's own are known at once.                    *)
Known == IF dev \in Arduino THEN stats ELSE mode

Name(d, v) ==
  CASE d = "boost" -> IF v = "-1" THEN "off" ELSE "on"
    [] v = "0" -> "stop"
    [] v = "1" -> "force"
    [] OTHER   -> "auto"

(* /api/get and the telnet page, but for "MAX", "ON" or "OFF", which say   *)
(* what the automaton does.  No string is read as 0.                       *)
Page(d, v) ==
  CASE d = "boost" -> Name(d, v)
    [] v \in {"", "0"} -> "stop"
    [] v = "1" -> "force"
    [] v = "9" -> "auto"

----------------------------------------------------------------------------
(* Messages sent one after the other: those before the cut arrive.         *)
Part(what, set) == [what |-> what, set |-> set]

Arrived(parts, k, what) ==
  UNION {parts[i].set : i \in {j \in 1..k : parts[j].what = what}}

PublishParts(parts) ==
  \E k \in 0..Len(parts) :
    LET got(what) == Arrived(parts, k, what) IN
    /\ link' = (link /\ k = Len(parts))
    /\ IF link
       THEN /\ subscribed' = subscribed \cup got("subscribe")
            /\ configs' = configs \cup got("config")
            /\ state' = IF got("state") = {} THEN state ELSE "connected"
            /\ shown' = IF got("shown") = {} THEN shown
                        ELSE CHOOSE v \in got("shown") : TRUE
            /\ fed' = fed \cup got("fed")
       ELSE UNCHANGED broker

(* "if (mqttClient.connected ())"                                          *)
PublishShown(v) ==
  IF client = "connected" THEN PublishParts(<<Part("shown", {v})>>)
  ELSE UNCHANGED <<link, broker>>

NoPublish == UNCHANGED <<link, broker>>

MqttInit ==
  /\ dev \in Devices /\ mode \in Values(dev)
  /\ line = <<>> /\ stats = ""
  /\ mqttActive \in BOOLEAN /\ mqttDet \in BOOLEAN
  /\ client = "idle" /\ session = FALSE /\ link = FALSE
  /\ subscribed = {} /\ configs = {} /\ state = "none" /\ shown = "none"
  /\ fed = {}

----------------------------------------------------------------------------
(* The connection.                                                         *)

(* startMqtt or mqttConnect (module Esp says when): the one-second task    *)
(* has it started when the client is not connected, MQTT active or not.    *)
MqttConnect ==
  /\ client = "idle" /\ client' = "connecting"
  /\ UNCHANGED <<device, settings, session, link, broker>>

(* The broker lets the connection in; a session that it still had with the *)
(* same client ends, and its will is published.                            *)
BrokerAccepts ==
  /\ client = "connecting" /\ client' = "accepted" /\ link' = TRUE
  /\ session' = TRUE /\ subscribed' = {} /\ fed' = {}
  /\ state' = IF session THEN "disconnected" ELSE state
  /\ UNCHANGED <<device, settings, configs, shown>>

LateMutant ==   \* announced before the commands are subscribed
  <<Part("state", {"connected"})>>
    \o (IF mqttDet THEN <<Part("config", DetailedSensors)>> ELSE <<>>)
    \o <<Part("config", Sensors), Part("config", Controls),
         Part("subscribe", Commands)>>

Greeting ==
  <<Part("subscribe", Commands), Part("state", {"connected"})>>
    \o (IF mqttDet THEN <<Part("config", DetailedSensors)>> ELSE <<>>)
    \o <<Part("config", Sensors), Part("config", Controls)>>

OnMqttConnect ==
  /\ client = "accepted" /\ link /\ client' = "connected"
  /\ PublishParts(Greeting)
  /\ UNCHANGED <<device, settings, session>>

LinkBreaks ==
  /\ link /\ link' = FALSE
  /\ UNCHANGED <<device, settings, client, session, broker>>

(* The client gives up: no answer, or the network is lost (watchDogWifi    *)
(* closes without a DISCONNECT).                                           *)
OnMqttDisconnect ==
  /\ client # "idle" /\ client' = "idle" /\ link' = FALSE
  /\ UNCHANGED <<device, settings, session, broker>>

(* The broker does, and publishes the will that startMqtt has set.         *)
WillMutant == UNCHANGED state
Will == state' = "disconnected"
SessionEnds ==
  /\ session /\ ~link /\ session' = FALSE
  /\ Will /\ subscribed' = {} /\ fed' = {}
  /\ UNCHANGED <<device, settings, client, link, configs, shown>>

(* A broker that comes back empty.                                         *)
BrokerRestarts ==
  /\ session' = FALSE /\ link' = FALSE
  /\ subscribed' = {} /\ configs' = {} /\ fed' = {}
  /\ state' = "none" /\ shown' = "none"
  /\ UNCHANGED <<device, settings, client>>

----------------------------------------------------------------------------
(* States.                                                                 *)

(* mqttTransmit.  Production is published if there is any: at worst never. *)
MayBeSilent == {"P_IMPULSION", "INDEX_IMPULSION"}

TransmissionMutant ==   \* the detailed values forgotten
  <<Part("fed", (Measured \ MayBeSilent) \cup Range(StateTopic)),
    Part("shown", {Name(dev, Known)})>>

Transmission ==
  (IF mqttDet THEN <<Part("fed", Detailed \cup {"STATUS_BYTE"})>> ELSE <<>>)
    \o <<Part("fed", (Measured \ MayBeSilent) \cup Range(StateTopic)),
         Part("shown", {Name(dev, Known)})>>

MqttTransmit ==
  /\ mqttActive /\ client = "connected" /\ PublishParts(Transmission)
  /\ UNCHANGED <<device, settings, client, session>>

(* The one-second task: a boost of no time is shown "off".                 *)
BoostAtZero ==
  /\ dev = "boost" /\ mode = "0" /\ PublishShown("off")
  /\ UNCHANGED <<device, settings, client, session>>

(* STATS, BOOSTTIME.                                                       *)
StatsMutant == UNCHANGED stats
NewStats    == stats' = mode
Stats ==
  /\ dev \in Arduino /\ NewStats
  /\ UNCHANGED <<dev, mode, line, settings, client, session>> /\ NoPublish

BoostTime(v) ==
  /\ dev = "boost" /\ mode' = v
  /\ UNCHANGED <<dev, line, stats, settings, client, session>> /\ NoPublish

----------------------------------------------------------------------------
(* Orders.                                                                 *)

SendEcoPV(v) ==
  \/ line' = IF Len(line) < MaxCmds THEN Append(line, v) ELSE line
  \/ Loses /\ UNCHANGED line

(* The digit of the mode is published, not its name.                       *)
RelayModeEcoPV(v) == SendEcoPV(v) /\ PublishShown(v) /\ UNCHANGED mode

SSRModeEcoPV(v) == SendEcoPV(v) /\ PublishShown(Name("ssr", v)) /\ UNCHANGED mode

DimmerMode(v) == mode' = v /\ UNCHANGED line

(* boostON takes "0" if the energy is there, or does nothing at 0 %.       *)
BoostON ==
  \/ /\ mode' \in {"0", "n"} /\ PublishShown("on") /\ UNCHANGED line
  \/ UNCHANGED <<mode, line>> /\ NoPublish
BoostOFF == mode' = "-1" /\ PublishShown("off") /\ UNCHANGED line

Orders == {"0", "1", "9"}

(* onMqttMessage.  Of the dimmers' mode the state is published whatever is *)
(* received.                                                               *)
OnMqttMessage ==
  /\ client = "connected" /\ link /\ SetTopic[dev] \in subscribed
  /\ \/ \E v \in Orders : \/ dev = "relay" /\ RelayModeEcoPV(v)
                          \/ dev = "ssr" /\ SSRModeEcoPV(v)
                          \/ dev = "dimmer" /\ DimmerMode(v)
                               /\ PublishShown(Name("dimmer", v))
     \/ dev = "dimmer" /\ PublishShown(Name(dev, mode)) /\ UNCHANGED <<mode, line>>
     \/ dev = "boost" /\ (BoostON \/ BoostOFF)
  /\ UNCHANGED <<dev, stats, settings, client, session>>

(* /api/set, /api/action, the timer and the stop of the boost.             *)
PageOrders ==
  /\ \/ \E v \in Orders : \/ dev = "relay" /\ RelayModeEcoPV(v)
                          \/ dev = "ssr" /\ SSRModeEcoPV(v)
                          \/ dev = "dimmer" /\ DimmerMode(v) /\ NoPublish
     \/ dev = "boost" /\ (BoostON \/ BoostOFF)
  /\ UNCHANGED <<dev, stats, settings, client, session>>

ConfigMaxPV ==
  /\ mqttActive' \in BOOLEAN /\ mqttDet' \in BOOLEAN
  /\ UNCHANGED <<device, client, session>> /\ NoPublish

(* EcoPV reads a command; or its mode changes by itself (boost, restart).  *)
SerialRequest ==
  /\ line # <<>> /\ line' = Tail(line) /\ mode' = Head(line)
  /\ UNCHANGED <<dev, stats, settings, client, session>> /\ NoPublish

ModeChanges ==
  /\ dev \in Arduino /\ mode' \in Values(dev)
  /\ UNCHANGED <<dev, line, stats, settings, client, session>> /\ NoPublish

(* The ESP restarts: the dimmers' mode is the saved one.                   *)
RestartESP ==
  /\ client' = "idle" /\ link' = FALSE /\ stats' = ""
  /\ mode' \in CASE dev \in Arduino -> {mode}
                 [] dev = "dimmer" -> Values(dev)
                 [] dev = "boost" -> {"-1"}
  /\ UNCHANGED <<dev, line, settings, session, broker>>

Link == BrokerAccepts \/ OnMqttConnect \/ SessionEnds

MqttNext ==
  \/ MqttConnect \/ Link \/ LinkBreaks \/ OnMqttDisconnect \/ BrokerRestarts
  \/ MqttTransmit \/ BoostAtZero \/ Stats \/ SerialRequest
  \/ OnMqttMessage \/ PageOrders \/ ConfigMaxPV \/ ModeChanges
  \/ RestartESP \/ \E v \in Values("boost") : BoostTime(v)

(* The periodic tasks run; who closes a connection, its end is noticed.    *)
MqttFairness ==
  /\ WF_mqttVars(MqttTransmit) /\ WF_mqttVars(Stats) /\ WF_mqttVars(SerialRequest)
  /\ WF_mqttVars(SessionEnds)

MqttSpec     == MqttInit /\ [][MqttNext]_mqttVars
MqttFairSpec == MqttSpec /\ MqttFairness

----------------------------------------------------------------------------
(* Properties *)

MqttTypeOK ==
  /\ dev \in Devices /\ mode \in Values(dev)
  /\ line \in BoundedSeq(Orders, MaxCmds)
  /\ stats \in {""} \cup Values(dev)
  /\ mqttActive \in BOOLEAN /\ mqttDet \in BOOLEAN
  /\ client \in {"idle", "connecting", "accepted", "connected"}
  /\ session \in BOOLEAN /\ link \in BOOLEAN
  /\ subscribed \subseteq Commands /\ configs \subseteq Announced
  /\ state \in {"none", "connected", "disconnected"}
  /\ shown \in {"none", "stop", "force", "auto", "on", "off"} \cup Orders

(* The availability topic of every entity ("avty_t") is true: the broker   *)
(* says "connected" in a session only, and does while MaxPV hears it,      *)
(* though the will of a session that was lost comes late, and messages     *)
(* are lost anywhere.                                                      *)
Availability ==
  /\ state = "connected" => session
  /\ client = "connected" /\ link => state = "connected"

(* What Home Assistant shows can be commanded: while the entities are      *)
(* available, every command topic announced, in this session or an older   *)
(* one, is one that the broker forwards.                                   *)
Commandable ==
  state = "connected" =>
    \A c \in configs : c.cmd_t = "none" \/ c.cmd_t \in subscribed

(* Every state announced is published in every session that lasts, but     *)
(* production if there is none; the detailed ones while the setting is on. *)
(* While MQTT is active: the publication task tests it, and the tasks that *)
(* connect and announce do not.                                            *)
Promised(det) ==
  {c.stat_t : c \in IF det THEN Announced ELSE Announced \ DetailedSensors}
    \ MayBeSilent
Lasting == client = "connected" /\ link /\ mqttActive
Fed ==
  \A det \in BOOLEAN :
    <>[](Lasting /\ mqttDet = det) => <>(Promised(det) \subseteq fed)

(* When a mode lasts, and the connection does with MQTT active, Home       *)
(* Assistant and the page show it again and again, whatever was ordered,   *)
(* lost or shown before; a boost of no time, shown "on" and "off" in turn, *)
(* excepted.                                                               *)
Shown(v) == shown = Name(dev, v) /\ Page(dev, Known) = Name(dev, v)
ShownInTheEnd ==
  \A v \in UNION {Values(d) : d \in Devices} :
    <>[](Lasting /\ mode = v) => []<>(Shown(v) \/ (dev = "boost" /\ v = "0"))
=============================================================================
