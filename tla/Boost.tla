------------------------------- MODULE Boost -------------------------------
(***************************************************************************)
(* The modes of the triac: the user's orders, the boost that MaxPV asks    *)
(* for and EcoPV carries out second by second, the full tank.  The two     *)
(* sides (MaxPV3/MaxPV3.ino, EcoPV3/EcoPV3.ino) talk over a serial line    *)
(* whose frames end with '#'; bytes are lost on it, so that a piece of a   *)
(* command may be executed with a piece of the next one.                   *)
(*                                                                         *)
(* Data left out: temperatures and energies, of which only remains that    *)
(* they may fill the tank (module Energy has the limit); FORCE2, which     *)
(* nothing sends; the frames that change neither side; the EEPROM that is  *)
(* erased or torn (module Params).                                         *)
(***************************************************************************)
EXTENDS Integers, Sequences

CONSTANTS
  Orders,       \* the modes SETSSR asks for
  Others,       \* what SETPARAM leaves in S_SSR, 0 to 10
  Reasons,      \* why the tank is full: "hot" (2), "limit" (4)
  BurstPeriod,  \* BOOST_BURST_PERIOD, seconds
  Durations,    \* the seconds that boostON asks for
  Thresholds,   \* the burstThreshold of the ratios asked for
  TempActive,   \* tempactive
  MaxCmds       \* commands that the receive buffer of the Arduino holds

Modes == {"STOP", "FORCE", "AUTOM"}
Kept  == Modes \cup Others
Full  == {"OFF"} \cup Reasons        \* outputfull

ASSUME BoostAssumption ==
  /\ Orders \subseteq Modes /\ "boost" \notin Others
  /\ Reasons \subseteq {"hot", "limit"}
  /\ BurstPeriod \in Nat \ {0} /\ MaxCmds \in Nat \ {0}
  /\ Durations \subseteq Nat /\ Thresholds \subseteq 0..BurstPeriod
  /\ TempActive \in BOOLEAN

Commands == [op : {"SETSSR"}, mode : Orders]
              \cup [op : {"SETBOOST"}, time : Durations \cup {0},
                    threshold : Thresholds]
              \cup [op : {"SETPARAM"}, mode : Others]
              \cup [op : {"RSTP", "RESET", "SAVECFG", "LOADCFG"}]

VARIABLES
  triacMode, S_SSR, saved,                \* saved: S_SSR in the EEPROM
  boostTime, burstCnt, burstThreshold,    \* boostTime = -1: no boost
  outputfull,               \* the tank is full, and why
  cmds, glued,              \* sent and not read; a frame begun without '#'
  espBoost, espFull,        \* the ESP's boostTime, its OUTPUTFULL
  order                     \* the last decision: a mode, or "boost"

memory  == <<S_SSR, saved>>
arduino == <<triacMode, memory, boostTime, burstCnt, burstThreshold>>
esp     == <<espBoost, espFull>>
boostVars == <<arduino, outputfull, cmds, glued, esp, order>>

BoostInit ==
  /\ saved = "AUTOM" /\ S_SSR = saved /\ triacMode = saved /\ order = saved
  /\ boostTime = -1 /\ burstCnt = 0 /\ burstThreshold \in Thresholds
  /\ outputfull = "OFF"
  /\ cmds = <<>> /\ glued = FALSE
  /\ espBoost = -1 /\ espFull = "OFF"

----------------------------------------------------------------------------
(* One second of loop.                                                     *)

(* "Vérification CE chargé": the index of the day and the sensor decide.   *)
CheckTank ==
  outputfull' \in IF triacMode # "AUTOM" \/ outputfull # "OFF"
                  THEN {outputfull} ELSE Full

NextBurst == (burstCnt + 1) % BurstPeriod

(* The end of a boost is announced by a frame without '#': it becomes one  *)
(* with the frame that follows.                                            *)
StepMutant ==
  /\ triacMode' = IF boostTime < 1 THEN triacMode ELSE "FORCE"
  /\ boostTime' = IF boostTime < 1 THEN boostTime ELSE boostTime - 1
  /\ glued' = FALSE /\ UNCHANGED burstCnt

BoostStep ==
  \/ /\ boostTime = 0
     /\ boostTime' = -1 /\ triacMode' = "AUTOM" /\ glued' = TRUE
     /\ UNCHANGED burstCnt
  \/ /\ boostTime > 0
     /\ triacMode' = IF burstCnt <= burstThreshold THEN "FORCE" ELSE "STOP"
     /\ boostTime' = boostTime - 1 /\ burstCnt' = NextBurst
     /\ glued' = FALSE
  \/ /\ boostTime < 0 /\ glued' = FALSE
     /\ UNCHANGED <<triacMode, boostTime, burstCnt>>

(* Every 30 seconds the time left, printed before the step of the boost.   *)
Report == espBoost' = boostTime

(* The STATS frame, printed before all that; it may end an announcement.   *)
Frames(stats, report) ==
  /\ espFull' = IF stats /\ ~glued THEN outputfull ELSE espFull
  /\ IF report THEN Report
     ELSE espBoost' = IF stats /\ glued THEN -1 ELSE espBoost

Second(stats, report) ==
  /\ CheckTank /\ BoostStep /\ Frames(stats, report)
  /\ UNCHANGED <<memory, burstThreshold, cmds, order>>

----------------------------------------------------------------------------
(* serialRequest: the first command is read, alone or with the next that   *)
(* has run into it, and answered by a frame.                               *)

After    == {Tail(cmds), IF Len(cmds) > 1 THEN SubSeq(cmds, 3, Len(cmds)) ELSE <<>>}
Read(op) == cmds # <<>> /\ Head(cmds).op = op /\ cmds' \in After

(* The announcement it ends, or its own: the boost is over.                *)
Answer(answered, over) ==
  /\ espBoost' = IF answered /\ (glued \/ over) THEN -1 ELSE espBoost
  /\ glued' = FALSE /\ UNCHANGED espFull

(* The mode in use is the one ordered and is saved.  Of a garbled SETSSR   *)
(* it is any mode, or the one in use, that of half a burst included.       *)
SetSSR(answered, m) ==
  /\ Read("SETSSR")
  /\ triacMode' = m /\ S_SSR' = m /\ saved' = m
  /\ order' = m /\ boostTime' = -1
  /\ Answer(answered, boostTime >= 0)
  /\ UNCHANGED <<burstCnt, burstThreshold, outputfull>>

(* An order to stop a boost that does not run is not to start one of 0 s.  *)
AcceptMutant(time) == TRUE
Accepts(time) == time # 0 \/ boostTime # -1

SetBoost(answered, time, threshold) ==
  /\ Read("SETBOOST")
  /\ IF Accepts(time) THEN boostTime' = time ELSE UNCHANGED boostTime
  /\ order' = IF time # 0 \/ boostTime # -1 THEN "boost" ELSE order
  /\ burstThreshold' = threshold /\ burstCnt' = 0
  /\ Answer(answered, FALSE)
  /\ UNCHANGED <<triacMode, memory, outputfull>>

ResetDay(answered) ==
  /\ Read("RSTP")
  /\ outputfull' = "OFF"
  /\ Answer(answered, FALSE)
  /\ UNCHANGED <<arduino, order>>

(* stopPVR and startPVR: the mode of S_SSR; a boost goes on after it.      *)
Restart ==
  /\ triacMode' = S_SSR
  /\ order' = IF boostTime = -1 THEN S_SSR ELSE "boost"
  /\ UNCHANGED <<memory, boostTime, burstCnt, burstThreshold, outputfull>>

(* What was received meanwhile is read in the same loop or thrown away.    *)
Reset(answered) ==
  /\ cmds # <<>> /\ Head(cmds).op = "RESET" /\ cmds' \in After \cup {<<>>}
  /\ Restart /\ Answer(answered, FALSE)

(* The restart after a serious error, which nobody asks for.               *)
FatalError == Restart /\ UNCHANGED <<cmds, glued, esp>>

(* S_SSR is a parameter like the others: no mode changes before a restart. *)
SetParam(answered, m) ==
  /\ Read("SETPARAM") /\ S_SSR' = m
  /\ Answer(answered, FALSE)
  /\ UNCHANGED <<triacMode, saved, boostTime, burstCnt, burstThreshold, outputfull,
                 order>>

(* All parameters are saved, or read again.                                *)
Config(answered) ==
  /\ \/ Read("SAVECFG") /\ saved' = S_SSR /\ UNCHANGED S_SSR
     \/ Read("LOADCFG") /\ S_SSR' = saved /\ UNCHANGED saved
  /\ Answer(answered, FALSE)
  /\ UNCHANGED <<triacMode, boostTime, burstCnt, burstThreshold, outputfull, order>>

(* Not a command any more: "ERROR?", "UNKNOWN COMMAND".                    *)
Ignored(answered) ==
  /\ cmds # <<>> /\ cmds' \in After /\ Answer(answered, FALSE)
  /\ UNCHANGED <<arduino, outputfull, order>>

(* Pieces of two commands that still end with END: other arguments, or     *)
(* nothing that is known.  A SETSSR of no known mode keeps the mode in use *)
(* and saves it; a SETBOOST without a ratio has all of it.                 *)
Garbled(answered) ==
  \/ \E m \in Orders \cup {triacMode} : SetSSR(answered, m)
  \/ \E time \in Durations \cup {0}, threshold \in Thresholds \cup {BurstPeriod} :
       SetBoost(answered, time, threshold)
  \/ \E m \in Others : SetParam(answered, m)
  \/ Ignored(answered)

SerialRequest ==
  \E answered \in BOOLEAN :
    \/ SetSSR(answered, Head(cmds).mode)
    \/ SetBoost(answered, Head(cmds).time, Head(cmds).threshold)
    \/ SetParam(answered, Head(cmds).mode)
    \/ ResetDay(answered) \/ Reset(answered) \/ Config(answered)

GarbledRequest == \E answered \in BOOLEAN : Garbled(answered)

PowerCut ==
  /\ triacMode' = saved /\ S_SSR' = saved /\ order' = saved
  /\ boostTime' = -1 /\ burstCnt' = 0 /\ burstThreshold' \in Thresholds
  /\ outputfull' = "OFF"
  /\ cmds' = <<>> /\ glued' = FALSE
  /\ UNCHANGED <<saved, esp>>

----------------------------------------------------------------------------
(* MaxPV.  A command that finds the receive buffer full is lost.           *)
Send(c) == cmds' = IF Len(cmds) < MaxCmds THEN Append(cmds, c) ELSE cmds

Unmoved == UNCHANGED <<arduino, outputfull, glued, order>>

SetBoostEcoPV(time) ==
  /\ \E t \in Thresholds :
       Send([op |-> "SETBOOST", time |-> time, threshold |-> t])
  /\ Unmoved

(* The page, MQTT. *)
BoostON(time) ==
  /\ espBoost' = time /\ SetBoostEcoPV(time)
  /\ UNCHANGED espFull

(* The timer: "Déclenchement si output (CE) non chargé". *)
TimerBoost(time) == espFull = "OFF" /\ BoostON(time)

BoostOFF ==
  /\ espBoost' = -1 /\ SetBoostEcoPV(0)
  /\ UNCHANGED espFull

(* The one-second task: "si output chargé -> on stoppe". *)
EspSecond ==
  /\ IF TempActive /\ espFull = "hot"
     THEN espBoost' = -1 /\ SetBoostEcoPV(0)
     ELSE UNCHANGED <<espBoost, cmds>> /\ Unmoved
  /\ UNCHANGED espFull

Sent(c) == Send(c) /\ Unmoved /\ UNCHANGED esp

SSRMode(m)       == Sent([op |-> "SETSSR", mode |-> m])
SetParamEcoPV(m) == Sent([op |-> "SETPARAM", mode |-> m])   \* S_SSR
SaveConfigEcoPV  == Sent([op |-> "SAVECFG"])
LoadConfigEcoPV  == Sent([op |-> "LOADCFG"])

(* setRefIndexJour at midnight; the restart ordered by the page.           *)
Midnight     == Sent([op |-> "RSTP"])
RestartEcoPV == Sent([op |-> "RESET"])

(* A restart of the ESP begins with setRefIndexJour, whatever the hour.    *)
RebootESP ==
  /\ espBoost' = -1 /\ espFull' = "OFF"
  /\ Send([op |-> "RSTP"])
  /\ Unmoved

BoostOrder == \E d \in Durations : BoostON(d)

User == \/ BoostOrder \/ BoostOFF \/ RestartEcoPV
        \/ SaveConfigEcoPV \/ LoadConfigEcoPV
        \/ \E m \in Orders : SSRMode(m)
        \/ \E m \in Others : SetParamEcoPV(m)

EcoPV == \/ \E stats, report \in BOOLEAN : Second(stats, report)
         \/ SerialRequest \/ GarbledRequest \/ FatalError \/ PowerCut

MaxPV == \/ \E d \in Durations : TimerBoost(d)
         \/ EspSecond \/ Midnight \/ RebootESP

BoostNext == User \/ EcoPV \/ MaxPV

BoostSpec == BoostInit /\ [][BoostNext]_boostVars

----------------------------------------------------------------------------
(* Properties *)

BoostTypeOK ==
  /\ triacMode \in Kept /\ S_SSR \in Kept /\ saved \in Kept
  /\ boostTime \in Nat \cup {-1} /\ burstCnt \in 0..(BurstPeriod - 1)
  /\ burstThreshold \in 0..BurstPeriod
  /\ outputfull \in Full
  /\ cmds \in Seq(Commands) /\ Len(cmds) <= MaxCmds /\ glued \in BOOLEAN
  /\ espBoost \in Nat \cup {-1} /\ espFull \in Full
  /\ order \in Kept \cup {"boost"}

(* "Arrêt du mode BOOST si il est en cours pour donner la priorité au      *)
(* changement de mode SSR": between an order of the user and the next      *)
(* boost the mode is the one ordered, or that of S_SSR after a restart;    *)
(* and what a boost leaves at its end is AUTOM.  An order whose mode was   *)
(* garbled is one of the mode in use: it ends a boost in the mode of that  *)
(* half of the burst, FORCE or STOP, and saves it.                         *)
OrderHolds ==
  IF order = "boost" THEN boostTime = -1 => triacMode = "AUTOM"
  ELSE boostTime = -1 /\ triacMode = order

(* Seconds pass and reports arrive; the Arduino reads what it receives.    *)
BoostFairness ==
  /\ WF_boostVars(\E stats, report \in BOOLEAN : Second(stats, report))
  /\ SF_boostVars(\E stats \in BOOLEAN : Second(stats, TRUE))
  /\ WF_boostVars(SerialRequest)

BoostFairSpec == BoostSpec /\ BoostFairness

(* Unless boosts are asked for, or commands garbled, again and again, the  *)
(* boost ends on both sides, whatever was lost, restarted or announced in  *)
(* a frame of two.                                                         *)
BoostSettles ==
  \/ []<><<BoostOrder \/ GarbledRequest>>_boostVars
  \/ <>[](boostTime = -1 /\ espBoost = -1)
=============================================================================
