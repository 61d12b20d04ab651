------------------------------- MODULE Params -------------------------------
(***************************************************************************)
(* The parameters of the router: in the RAM of the Arduino, in its EEPROM, *)
(* and mirrored by the ESP for the pages and the boost.  Commands and      *)
(* frames cross a serial line that loses bytes: a full buffer, or the      *)
(* interrupts masked while SETSSR writes the EEPROM, may leave a piece of  *)
(* one command followed by a piece of the next (EcoPV3/EcoPV3.ino,         *)
(* MaxPV3/MaxPV3.ino).                                                     *)
(*                                                                         *)
(* Two parameters stand for the 22: one that only SETPARAM sets, and the   *)
(* saved mode of the triac, which SETSSR sets as well.  0 is an erased     *)
(* value.  SAVECFG stands for SETRELAY too, which saves all parameters.    *)
(* RESET is left out: it touches no parameter.  The specification has      *)
(* names of its own: RegulatorProofs extends it with the regulator, whose  *)
(* gains are parameters.                                                   *)
(***************************************************************************)
EXTENDS Integers, Sequences

CONSTANTS
  Values,      \* what SETPARAM leaves in a parameter, within its bounds
  Modes,       \* the same of S_SSR: its bounds are wider than the modes
  Orders,      \* the modes SETSSR asks for
  Default,     \* the values of the program
  MaxCmds,     \* commands the Arduino's buffer holds
  MaxFrames    \* frames the ESP's buffer holds

Names    == {"param", "s_ssr"}
Order    == <<"param", "s_ssr">>          \* their order in the EEPROM
Bounds(p) == IF p = "param" THEN Values ELSE Modes
Any(p)   == Bounds(p) \cup {0}             \* what torn or erased bytes give
Config   == {c \in [Names -> Values \cup Modes \cup {0}] :
               \A p \in Names : c[p] \in Any(p)}
Unread   == [p \in Names |-> -1]

ASSUME ParamsAssumption ==
  /\ Values \subseteq Nat \ {0} /\ Modes \subseteq Nat /\ Orders \subseteq Modes
  /\ Default \in Config /\ \A p \in Names : Default[p] \in Bounds(p)
  /\ MaxCmds \in Nat \ {0} /\ MaxFrames \in Nat \ {0}

Message(op, p, v) == [op |-> op, p |-> p, v |-> v]
Order0(op)        == Message(op, "param", 0)   \* a command without arguments
Commands ==
  [op : {"SETPARAM"}, p : {"param"}, v : Values]
  \cup [op : {"SETPARAM"}, p : {"s_ssr"}, v : Modes]
  \cup [op : {"SETSSR"}, p : {"s_ssr"}, v : Orders]
  \cup [op : {"PARAM", "SAVECFG", "LOADCFG", "FORMAT"}, p : {"param"}, v : {0}]

VARIABLES
  ram, magic, eeprom,       \* the Arduino: RAM, magic number, EEPROM
  cmds, frames,             \* received and not read, by each side
  mirror, shouldReadParams, \* the ESP: ecoPVConfig
  ordered,  \* history: the last mode ordered, Garbled or Torn
  asked     \* history: the mode SETPARAM has set and nothing has saved yet

arduino    == <<ram, magic, eeprom>>
esp        == <<mirror, shouldReadParams>>
history    == <<ordered, asked>>
paramsVars == <<arduino, cmds, frames, esp, history>>

(* Since then an order was garbled; the power failed in a write of the     *)
(* EEPROM, and nothing repairs that but the values of the program.         *)
Garbled == -1
Torn    == -2
Unless(h) == IF ordered = Torn THEN Torn ELSE h
Nothing == -1

(* An order: SETSSR, which saves it, or a save of what SETPARAM has set.   *)
Ordered(h) == ordered' = Unless(h) /\ asked' = Nothing
Saved      == IF asked = Nothing THEN UNCHANGED history ELSE Ordered(asked)

ParamsInit ==
  /\ ram = Default /\ magic = TRUE /\ eeprom = Default
  /\ cmds = <<>> /\ frames = <<>>
  /\ mirror = Unread /\ shouldReadParams = FALSE
  /\ ordered = Default["s_ssr"] /\ asked = Nothing

----------------------------------------------------------------------------
(* The EEPROM.                                                             *)

(* eeConfigWrite.                                                          *)
EeConfigWrite(c) == magic' = TRUE /\ eeprom' = c

(* eeConfigRead, or the current values if there is nothing to read.        *)
LoadMutant ==   \* the magic number is not tested
  /\ ram' = eeprom /\ EeConfigWrite(eeprom)
EeConfigLoad ==
  \/ /\ magic /\ ram' = eeprom
     /\ UNCHANGED <<magic, eeprom>>
  \/ /\ ~magic /\ EeConfigWrite(ram)
     /\ UNCHANGED ram

(* EEPROM.put writes byte after byte, the magic number first: a cut leaves *)
(* the fields before k new, those after it old, and k anything.            *)
CutWrite(c) ==
  \E k \in 1..Len(Order) :
    /\ magic' = TRUE
    /\ eeprom' \in {e \in Config :
         /\ \A i \in 1..(k - 1) : e[Order[i]] = c[Order[i]]
         /\ \A i \in (k + 1)..Len(Order) : e[Order[i]] = eeprom[Order[i]]}

(* setup.  Without a magic number the program's own values are written.    *)
Setup ==
  /\ ram' = IF magic' THEN eeprom' ELSE Default
  /\ cmds' = <<>> /\ UNCHANGED <<frames, esp>>

PowerCut ==
  /\ IF magic
     THEN UNCHANGED <<magic, eeprom, ordered>>
     ELSE EeConfigWrite(Default) /\ ordered' = Default["s_ssr"]
  /\ asked' = Nothing /\ Setup

(* The power fails again while setup writes the defaults.                  *)
PowerCutSetup ==
  /\ ~magic /\ CutWrite(Default)
  /\ ordered' = Torn /\ asked' = Nothing
  /\ Setup

----------------------------------------------------------------------------
(* serialRequest: one command, and its answer.                             *)

Answer(f) ==
  frames' = IF Len(frames) < MaxFrames THEN Append(frames, f) ELSE frames
Done == [kind |-> "DONE", c |-> Unread]

(* What follows it, with the one that ran into its end or without.         *)
After == {Tail(cmds), IF Len(cmds) > 1 THEN SubSeq(cmds, 3, Len(cmds)) ELSE <<>>}
Read(op) == cmds # <<>> /\ Head(cmds).op = op /\ cmds' \in After

PrintParams ==
  /\ Read("PARAM") /\ Answer([kind |-> "PARAM", c |-> ram])
  /\ UNCHANGED <<arduino, history>>

SetParam ==
  /\ Read("SETPARAM") /\ Answer(Done)
  /\ ram' = [ram EXCEPT ![Head(cmds).p] = Head(cmds).v]
  /\ asked' = IF Head(cmds).p = "s_ssr" THEN Head(cmds).v ELSE asked
  /\ UNCHANGED <<magic, eeprom, ordered>>

SaveCfg ==
  /\ Read("SAVECFG") /\ Answer(Done)
  /\ EeConfigWrite(ram) /\ Saved /\ UNCHANGED ram

LoadCfg ==
  /\ Read("LOADCFG") /\ Answer(Done) /\ EeConfigLoad
  /\ IF magic THEN asked' = Nothing /\ UNCHANGED ordered ELSE Saved

(* The whole memory is erased.                                             *)
Format ==
  /\ Read("FORMAT") /\ Answer(Done)
  /\ magic' = FALSE /\ eeprom' = [p \in Names |-> 0]
  /\ UNCHANGED <<ram, history>>

(* The mode is made permanent, and every other parameter with it.          *)
SaveModeMutant(m) ==   \* the mode is not saved
  /\ ram' = [ram EXCEPT !["s_ssr"] = m] /\ UNCHANGED <<magic, eeprom>>
SaveMode(m) ==
  /\ ram' = [ram EXCEPT !["s_ssr"] = m] /\ EeConfigWrite(ram')

SetSSR ==
  /\ Read("SETSSR") /\ Answer(Done)
  /\ SaveMode(Head(cmds).v) /\ Ordered(Head(cmds).v)

(* Pieces of two commands that still end with END: the first, with what    *)
(* follows of the second as its arguments, and no second.  A SETPARAM may  *)
(* have any number and any value, SETSSR no known mode, and then it saves  *)
(* the mode of a boost.                                                    *)
GarbledRead ==
  /\ cmds # <<>> /\ cmds' \in After
  /\ Answer(Done)
  /\ \/ Head(cmds).op = "SETPARAM"
        /\ \E p \in Names : \E v \in Bounds(p) : ram' = [ram EXCEPT ![p] = v]
        /\ Ordered(Garbled) /\ UNCHANGED <<magic, eeprom>>
     \/ Head(cmds).op = "SETSSR"
        /\ \E m \in Modes : SaveMode(m)
        /\ Ordered(Garbled)
     \/ UNCHANGED <<arduino, history>>

(* The power fails while the first command writes the EEPROM.              *)
CutDuringWrite ==
  /\ cmds # <<>>
  /\ \/ Head(cmds).op = "SAVECFG" /\ CutWrite(ram)
     \/ Head(cmds).op = "LOADCFG" /\ ~magic /\ CutWrite(ram)
     \/ Head(cmds).op = "SETSSR"
        /\ CutWrite([ram EXCEPT !["s_ssr"] = Head(cmds).v])
  /\ ordered' = Torn /\ asked' = Nothing
  /\ Setup

SerialRequest ==
  /\ \/ PrintParams \/ SetParam \/ SaveCfg \/ LoadCfg \/ Format \/ SetSSR
     \/ GarbledRead
  /\ UNCHANGED esp

EcoPV == SerialRequest \/ PowerCut \/ PowerCutSetup \/ CutDuringWrite

----------------------------------------------------------------------------
(* MaxPV.                                                                  *)

Send(c) == cmds' = IF Len(cmds) < MaxCmds THEN Append(cmds, c) ELSE cmds

Unmoved == UNCHANGED <<arduino, frames, history>>

(* The pages and MQTT. *)
SetParamEcoPV(p, v) ==
  /\ Send(Message("SETPARAM", p, v)) /\ shouldReadParams' = TRUE
  /\ Unmoved /\ UNCHANGED mirror

LoadConfigEcoPV ==
  /\ Send(Order0("LOADCFG")) /\ shouldReadParams' = TRUE
  /\ Unmoved /\ UNCHANGED mirror

SaveConfigEcoPV == Send(Order0("SAVECFG")) /\ Unmoved /\ UNCHANGED esp
FormatEcoPV     == Send(Order0("FORMAT")) /\ Unmoved /\ UNCHANGED esp
SSRModeEcoPV(m) == Send(Message("SETSSR", "s_ssr", m)) /\ Unmoved /\ UNCHANGED esp

(* /api/action and /api/set. *)
Action == LoadConfigEcoPV \/ SaveConfigEcoPV \/ FormatEcoPV
Set    == \/ \E p \in Names : \E v \in Bounds(p) : SetParamEcoPV(p, v)
          \/ \E m \in Orders : SSRModeEcoPV(m)
User   == Action \/ Set

(* "Forcage de l'envoi des paramètres", every 89 seconds.                  *)
Refresh ==
  /\ shouldReadParams' = TRUE
  /\ Unmoved /\ UNCHANGED <<cmds, mirror>>

AskMutant ==   \* the flag is taken down and nothing is asked for
  /\ shouldReadParams /\ shouldReadParams' = FALSE
  /\ Unmoved /\ UNCHANGED <<cmds, mirror>>

(* getAllParamEcoPV, asked for by the flag.                                *)
GetAllParam ==
  /\ shouldReadParams /\ shouldReadParams' = FALSE
  /\ Send(Order0("PARAM"))
  /\ Unmoved /\ UNCHANGED mirror

(* serialProcess.                                                          *)
SerialProcess ==
  /\ frames # <<>> /\ frames' = Tail(frames)
  /\ mirror' = IF Head(frames).kind = "PARAM" THEN Head(frames).c ELSE mirror
  /\ UNCHANGED <<arduino, cmds, shouldReadParams, history>>

(* The frame has lost its end, and takes that of the next one.             *)
GarbledProcess ==
  /\ frames # <<>>
  /\ frames' = IF Len(frames) > 1 THEN SubSeq(frames, 3, Len(frames)) ELSE <<>>
  /\ mirror' \in IF Head(frames).kind = "PARAM"
                 THEN {mirror, [Head(frames).c EXCEPT !["s_ssr"] = -1]}
                 ELSE {mirror}
  /\ UNCHANGED <<arduino, cmds, shouldReadParams, history>>

(* setup of the ESP asks for the parameters.                               *)
RebootESP ==
  /\ mirror' = Unread /\ shouldReadParams' = FALSE
  /\ frames' = <<>> /\ Send(Order0("PARAM"))
  /\ UNCHANGED <<arduino, history>>

MaxPV == User \/ Refresh \/ GetAllParam \/ SerialProcess \/ GarbledProcess
           \/ RebootESP

ParamsNext == EcoPV \/ MaxPV

(* Both sides run; of the parameters asked for and sent again and again,   *)
(* some are not lost.                                                      *)
Fairness ==
  /\ WF_paramsVars(SerialRequest) /\ WF_paramsVars(Refresh)
  /\ SF_paramsVars(GetAllParam /\ Len(cmds) < MaxCmds)
  /\ SF_paramsVars(PrintParams /\ UNCHANGED esp /\ frames' # frames)
  /\ SF_paramsVars(SerialProcess /\ Head(frames).kind = "PARAM")
  /\ WF_paramsVars(SerialProcess)

ParamsSpec == ParamsInit /\ [][ParamsNext]_paramsVars
ParamsFairSpec == ParamsSpec /\ Fairness

----------------------------------------------------------------------------
(* Properties *)

ParamsTypeOK ==
  /\ ram \in Config /\ magic \in BOOLEAN /\ eeprom \in Config
  /\ cmds \in Seq(Commands) /\ Len(cmds) <= MaxCmds
  /\ \A i \in DOMAIN frames : frames[i].kind \in {"PARAM", "DONE"}
  /\ Len(frames) <= MaxFrames
  /\ shouldReadParams \in BOOLEAN /\ ordered \in Modes \cup {Garbled, Torn}
  /\ asked \in Modes \cup {Nothing}

(* "Ces valeurs seront remplacées automatiquement par les valeurs lues en  *)
(* EEPROM si celles-ci sont valides": the reading checks the magic number  *)
(* only.  Whatever is garbled, erased, loaded or restarted, the parameters *)
(* in use are within their bounds, unless the power failed in a write.     *)
InRange == ordered # Torn => \A p \in Names : ram[p] \in Bounds(p)

(* "Utiliserons le dernier mode sauvegardé avant extinction": what a       *)
(* restart would read is the last mode ordered, by SETSSR or by a SETPARAM *)
(* and a command that saves; no boost, other parameter, erased memory or   *)
(* restart changes it.  Unless the power failed in a write, or no order    *)
(* came since one was garbled into another.                                *)
ModeSurvives == magic /\ ordered \in Modes => eeprom["s_ssr"] = ordered

(* "C'est par ce seul moyen [que] MaxPV met à jour sa base interne": when  *)
(* no order is given any more the ESP knows the parameters again and       *)
(* again, whatever was lost, garbled, answered late or restarted.          *)
MirrorFollows ==
  []<><<User>>_paramsVars \/ []<>(mirror = ram)

----------------------------------------------------------------------------
(* The inductive invariant behind InRange and ModeSurvives: the memories   *)
(* are in range together, and S_SSR is the last mode ordered, or the one   *)
(* asked for since, so that SAVECFG, and LOADCFG of an erased memory, save *)
(* no other.                                                               *)
Frames == [kind : {"PARAM", "DONE"}, c : Config \cup {Unread}]

SavedInv ==
  /\ ram \in Config /\ magic \in BOOLEAN /\ eeprom \in Config
  /\ ordered \in Modes \cup {Garbled, Torn} /\ asked \in Modes \cup {Nothing}
  /\ InRange
  /\ ordered # Torn /\ magic => \A p \in Names : eeprom[p] \in Bounds(p)
  /\ ordered # Torn /\ asked # Nothing => ram["s_ssr"] = asked
  /\ ordered \in Modes /\ asked = Nothing => ram["s_ssr"] = ordered
  /\ ModeSurvives
=============================================================================
