------------------------------- MODULE Relay -------------------------------
(***************************************************************************)
(* The secondary relay.  Each second loop (EcoPV3/EcoPV3.ino) drives the   *)
(* relay pin by an automaton with minimal on and off times and reports its *)
(* state in the status byte of the STATS frame; relais_http                *)
(* (MaxPV3/MaxPV3.ino) makes a relay on the network follow that bit.       *)
(*                                                                         *)
(* Data left out: the filtered powers, of which only the two comparisons   *)
(* remain; the other bits of the status byte (read as a decimal number, it *)
(* keeps its three low bits); minutes, which are TOn and TOff seconds.     *)
(***************************************************************************)
EXTENDS Integers

CONSTANTS
  TOn, TOff,    \* 60 * T_DIV2_ON, 60 * T_DIV2_OFF
  ExtChanges,   \* the external relay module is switched on and off
  Restarts,     \* the Arduino is stopped and restarted
  Unreliable    \* an answer of the relay may be lost, the ESP may reboot

ASSUME RelayAssumption ==
  /\ TOn \in Nat /\ TOff \in Nat
  /\ ExtChanges \in BOOLEAN /\ Restarts \in BOOLEAN /\ Unreliable \in BOOLEAN

Modes == {"STOP", "FORCE", "AUTOM", "other"}   \* S_Relay accepts 0..10

VARIABLES
  running,           \* between startPVR and stopPVR
  relayMode, ext,    \* relayMode, A_DIV2_EXT
  pin,               \* level of relayPin
  onCnt, offCnt,     \* Div2_On_cnt, Div2_Off_cnt
  surplus, import,   \* Psurplus >= P_DIV2_ACTIVE, Pact >= P_DIV2_IDLE
  tick,              \* PVRClock: alternates each second
  bit,               \* bit 2 of the status byte
  espExt, seen,      \* the ESP's a_div2_ext, the bit in its STATUS_BYTE
  etatrelais,        \* the ESP's idea of the relay on the network
  httpRelay,         \* the state of that relay
  cause, since,      \* who last changed the pin, how many seconds ago
  lost               \* an answer was lost or the ESP restarted

counters == <<onCnt, offCnt>>
inputs   == <<surplus, import, tick>>
history  == <<cause, since>>
esp      == <<espExt, seen, etatrelais, httpRelay, lost>>
vars == <<running, relayMode, ext, pin, counters, inputs, bit, esp, history>>

Init ==
  /\ running = TRUE /\ relayMode = "AUTOM" /\ ext = FALSE /\ pin = FALSE
  /\ onCnt = 0 /\ offCnt = 0
  /\ surplus = FALSE /\ import = FALSE /\ tick = FALSE /\ bit = FALSE
  /\ espExt \in BOOLEAN /\ seen = FALSE
  /\ etatrelais = FALSE /\ httpRelay = FALSE /\ lost = FALSE
  /\ cause = "restart" /\ since = TOn + TOff + 1   \* off for long

----------------------------------------------------------------------------
(* The pin and the counters in mode AUTOM, at surplus' and import'.        *)
Starts == surplus' /\ offCnt = 0 /\ ~pin
Stops  == import' /\ pin

SwitchOn ==
  /\ Starts
  /\ pin' = ~ext
  /\ onCnt' = TOn /\ UNCHANGED offCnt

HoldOn ==
  /\ ~Starts /\ onCnt > 0
  /\ onCnt' = onCnt - 1
  /\ UNCHANGED <<pin, offCnt>>

(* The import looked at before the minimal time; the off time not started; *)
(* the level copied from SwitchOn.                                         *)
EarlyMutant ==
  /\ ~Starts /\ Stops
  /\ pin' = ext
  /\ offCnt' = TOff /\ UNCHANGED onCnt

NoTimeMutant ==
  /\ ~Starts /\ onCnt = 0 /\ Stops
  /\ pin' = ext
  /\ UNCHANGED counters

LevelMutant ==
  /\ ~Starts /\ onCnt = 0 /\ Stops
  /\ pin' = ~ext
  /\ offCnt' = TOff /\ UNCHANGED onCnt

SwitchOff ==
  /\ ~Starts /\ onCnt = 0 /\ Stops
  /\ pin' = ext
  /\ offCnt' = TOff /\ UNCHANGED onCnt

HoldOff ==
  /\ ~Starts /\ onCnt = 0 /\ ~Stops
  /\ offCnt' = IF offCnt > 0 THEN offCnt - 1 ELSE 0
  /\ UNCHANGED <<pin, onCnt>>

Automaton ==
  /\ relayMode = "AUTOM"
  /\ SwitchOn \/ HoldOn \/ SwitchOff \/ HoldOff

(* digitalWrite (relayPin, relayMode): any value but 0 is ON. *)
Forced ==
  /\ relayMode # "AUTOM"
  /\ pin' = (relayMode # "STOP")
  /\ onCnt' = 0 /\ offCnt' = 0

(* Who changed the pin, and when, is remembered for the properties.        *)
Remember(who, seconds) ==
  IF pin' # pin \/ (who = "mode" /\ cause # "mode")
  THEN cause' = who /\ since' = 0
  ELSE /\ UNCHANGED cause
       /\ since' = IF since > TOn + TOff THEN since ELSE since + seconds

Status == bit' = (~ext /\ pin')

(* One second of loop; its STATS frame reaches the ESP or is lost. *)
Second(received) ==
  /\ running
  /\ surplus' \in BOOLEAN /\ import' \in BOOLEAN /\ tick' = ~tick
  /\ Automaton \/ Forced
  /\ Remember(IF relayMode = "AUTOM" THEN "auto" ELSE "mode", 1)
  /\ Status
  /\ seen' = IF received THEN bit' ELSE seen
  /\ UNCHANGED <<running, relayMode, ext, espExt, etatrelais, httpRelay,
                 lost>>

(* SETRELAY. *)
SetRelay ==
  /\ running
  /\ relayMode' \in {relayMode, "STOP", "FORCE", "AUTOM"}
  /\ UNCHANGED <<running, ext, pin, counters, inputs, bit, esp, history>>

(* SETPARAM,15 *)
SetExt ==
  /\ ExtChanges /\ running
  /\ ext' \in BOOLEAN
  /\ UNCHANGED <<running, relayMode, pin, counters, inputs, bit, esp, history>>

(* The page of MaxPV: both sides are told, the Arduino's may miss it. *)
ConfigExt ==
  /\ ExtChanges
  /\ espExt' \in BOOLEAN
  /\ ext' = espExt' \/ UNCHANGED ext
  /\ UNCHANGED <<running, relayMode, pin, counters, inputs, bit, seen,
                 etatrelais, httpRelay, lost, history>>

(* stopPVR and startPVR open the relay; the counters are static locals of  *)
(* loop and keep their values.  S_Relay is any mode.                       *)
StopPVR ==
  /\ Restarts /\ running /\ running' = FALSE
  /\ pin' = FALSE /\ Remember("restart", 0)
  /\ UNCHANGED <<relayMode, ext, counters, inputs, bit, esp>>

StartPVR ==
  /\ ~running /\ running' = TRUE
  /\ pin' = FALSE
  /\ relayMode' \in Modes
  /\ UNCHANGED <<ext, counters, inputs, bit, esp, history>>

(* A power cut: the counters are lost too. *)
PowerCut ==
  /\ Restarts /\ running' = FALSE
  /\ pin' = FALSE /\ onCnt' = 0 /\ offCnt' = 0
  /\ IF pin THEN since' = 0 ELSE UNCHANGED since
  /\ cause' = "restart"
  /\ UNCHANGED <<relayMode, ext, inputs, bit, esp>>

----------------------------------------------------------------------------
(* The answer of the call not looked at. *)
AnsweredMutant(delivered, answered) ==
  /\ espExt /\ seen # etatrelais
  /\ httpRelay' = IF delivered THEN seen ELSE httpRelay
  /\ etatrelais' = seen /\ lost' = (lost \/ delivered # answered)
  /\ UNCHANGED <<running, relayMode, ext, pin, counters, inputs, bit, espExt,
                 seen, history>>

(* relais_http, once per second: a call is made when the bit and the ESP's *)
(* idea differ, and is repeated until it is answered.                      *)
RelaisHttp(delivered, answered) ==
  /\ espExt /\ seen # etatrelais
  /\ httpRelay' = IF delivered THEN seen ELSE httpRelay
  /\ etatrelais' = IF answered THEN seen ELSE etatrelais
  /\ lost' = (lost \/ delivered # answered)
  /\ UNCHANGED <<running, relayMode, ext, pin, counters, inputs, bit, espExt,
                 seen, history>>

CallDone   == RelaisHttp(TRUE, TRUE)
CallFailed == RelaisHttp(FALSE, FALSE)
AnswerLost == Unreliable /\ RelaisHttp(TRUE, FALSE)

(* The ESP restarts believing that the relay is off. *)
RebootESP ==
  /\ Unreliable
  /\ etatrelais' = FALSE /\ seen' = FALSE /\ lost' = TRUE
  /\ UNCHANGED <<running, relayMode, ext, pin, counters, inputs, bit, espExt,
                 httpRelay, history>>

Arduino == \/ \E received \in BOOLEAN : Second(received)
           \/ SetRelay \/ SetExt \/ StopPVR \/ StartPVR \/ PowerCut
ESP     == ConfigExt \/ CallDone \/ CallFailed \/ AnswerLost \/ RebootESP

Next == Arduino \/ ESP

Spec == Init /\ [][Next]_vars

----------------------------------------------------------------------------
(* Properties *)

TypeOK ==
  /\ running \in BOOLEAN /\ relayMode \in Modes /\ ext \in BOOLEAN
  /\ pin \in BOOLEAN /\ onCnt \in 0..TOn /\ offCnt \in 0..TOff
  /\ surplus \in BOOLEAN /\ import \in BOOLEAN /\ tick \in BOOLEAN
  /\ bit \in BOOLEAN /\ espExt \in BOOLEAN /\ seen \in BOOLEAN
  /\ etatrelais \in BOOLEAN /\ httpRelay \in BOOLEAN /\ lost \in BOOLEAN
  /\ cause \in {"auto", "mode", "restart"} /\ since \in 0..(TOn + TOff + 1)

(* "Durée minimale d'activation": the relay that the automaton switched on *)
(* is not switched off by it before TOn further seconds, whatever was      *)
(* ordered in between without lasting a second.                            *)
MinimalOn ==
  [][running /\ pin /\ ~pin' /\ cause = "auto" /\ cause' = "auto"
       => since >= TOn]_vars

(* The relay that the automaton switched off is not switched on again by   *)
(* it before TOff further seconds, also when the router was restarted in   *)
(* between (its counters survive stopPVR).                                 *)
MinimalOff ==
  [][~pin /\ pin' /\ cause = "auto" /\ cause' = "auto" => since >= TOff]_vars

(* Frames arrive and calls are answered again and again; startPVR ends.    *)
Fairness ==
  /\ WF_vars(\E received \in BOOLEAN : Second(received))
  /\ SF_vars(Second(TRUE)) /\ SF_vars(CallDone) /\ WF_vars(StartPVR)

FairSpec == Spec /\ Fairness

(* "Puissance active importée qui désactive le relais": an import that     *)
(* lasts, without a surplus, opens the relay for good, unless the external *)
(* module was switched on (the pin is then left as it is).                 *)
ImportOpensRelay ==
  <>[](relayMode = "AUTOM" /\ ~ext /\ import /\ ~surplus) => <>[](~pin)

(* The relay on the network ends up in the state that EcoPV reports, as    *)
(* long as each call that is carried out is also answered and the ESP,     *)
(* which forgets the relay's state, does not restart.                      *)
HttpRelayFollowsAnswers ==
  \A on \in BOOLEAN :
    [](~lost) /\ <>[](bit = on /\ espExt) => <>[](httpRelay = on)

----------------------------------------------------------------------------
(* The invariant behind MinimalOn and MinimalOff: at most one of the two   *)
(* counters runs, and each knows how long ago the pin changed.             *)
CounterInv ==
  /\ onCnt = 0 \/ offCnt = 0
  /\ cause = "auto" /\ pin => onCnt + since >= TOn
  /\ cause = "auto" /\ ~pin => offCnt + since >= TOff
=============================================================================
