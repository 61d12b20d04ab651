------------------------------ MODULE PVRouter ------------------------------
(***************************************************************************)
(* The interrupt level of the EcoPV router (EcoPV3/EcoPV3.ino): the four   *)
(* interrupt routines that fire the triac and gather the statistics, and   *)
(* the main program they interrupt, down to the order of the statements of *)
(* stopPVR and the sections it executes with interrupts masked.            *)
(*                                                                         *)
(* Data left out: the PI regulator (module Regulator) chooses a delay or   *)
(* none; the temperature and the causes that inhibit routing (outputfull,  *)
(* an active HTTP dimmer) are inputs of the crossing; an accumulator is    *)
(* the set of the statistics windows its summands come from; of the error  *)
(* bits only 6 and 7 are kept, since nothing reads bits 4 and 5.           *)
(***************************************************************************)
EXTENDS Integers

CONSTANTS
  NB_CYCLES,    \* mains cycles in one statistics window
  NCSTART,      \* crossings ignored after a start
  PULSE_END,    \* Timer1 count at which a gate pulse ends
  Delays,       \* the Timer1 counts of energyToDelay
  Debounce,     \* a crossing this close to the last one is refused
  HalfPeriod,   \* ticks in half a mains cycle
  CleanMains,   \* FALSE: the sampled sign may change at any sample
  MaxMask       \* longest masked section of the main program, in ticks

NoDelay == 30000   \* OCR1A's unreachable value
Word    == 65536   \* Timer1 counts on 16 bits

ASSUME RouterAssumption ==
  /\ NB_CYCLES \in Nat \ {0} /\ NCSTART \in Nat \ {0}
  /\ PULSE_END \in Nat /\ Delays \subseteq 1..(PULSE_END - 1)
  /\ PULSE_END < NoDelay
  /\ Debounce \in Nat /\ HalfPeriod \in Nat \ {0}
  /\ CleanMains \in BOOLEAN /\ MaxMask \in Nat

Modes == {"STOP", "FORCE", "AUTOM", "other"}   \* S_SSR accepts 0..10

VARIABLES
  phase, sign,    \* the mains: ticks since its zero, polarity
  sync,           \* level of synchroOutPin, wired to synchroACPin
  sampled,        \* the voltage was sampled since the last tick
  elapsed,        \* present_time - last_time, saturated
  triac, timer, tcnt, ocr1a,   \* gate pin, TCCR1B # 0, TCNT1, OCR1A
  intf, ocf, tov,              \* pending INT1, compare and overflow flags
  int1On, adcOn,               \* crossing interrupt attached, ADC running
  adc, channel,                \* ADC routine in progress, readFlagADC
  masked, maskTicks,           \* main program between noInterrupts/interrupts
  coldStart, parity, numberOfCycle, command,
  triacMode,
  flag,                        \* stats_ready_flag
  routed, sumP, samples,                 \* accumulators
  statsRouted, statsSumP, statsSamples,  \* their snapshot for loop
  error, statsError,           \* error_status, stats_error_status
  pc, lossSeen                 \* main program; loss found, no snapshot since

mains     == <<phase, sign>>
timer1    == <<triac, timer, tcnt, ocr1a, ocf, tov>>
enabling  == <<int1On, adcOn>>
adcVars   == <<sync, sampled, intf, adc, channel>>
maskVars  == <<masked, maskTicks>>
crossVars == <<elapsed, coldStart, parity, numberOfCycle, command>>
sums      == <<routed, sumP, samples>>
snapshot  == <<statsRouted, statsSumP, statsSamples>>
errors    == <<error, statsError>>
statsVars == <<flag, sums, snapshot, errors>>
mainVars  == <<pc, lossSeen, triacMode>>
unasked   == <<mains, adcVars, crossVars>>   \* what the main program never writes
vars == <<mains, timer1, enabling, adcVars, maskVars, crossVars, statsVars,
          mainVars>>

(* Windows are named by age: 0 is the current one, 2 stands for older ones. *)
Age(windows) == {IF w = 0 THEN 1 ELSE 2 : w \in windows}

Init ==
  /\ phase = 0 /\ sign = FALSE /\ sync = FALSE /\ sampled = FALSE
  /\ elapsed = 0
  /\ triac = FALSE /\ timer = FALSE /\ tcnt = 0 /\ ocr1a = NoDelay
  /\ intf = FALSE /\ ocf = FALSE /\ tov = FALSE
  /\ int1On = FALSE /\ adcOn = FALSE /\ adc = "idle" /\ channel = "I"
  /\ masked = FALSE /\ maskTicks = 0
  /\ coldStart = NCSTART /\ parity = TRUE /\ numberOfCycle = 0
  /\ command = "none" /\ triacMode = "AUTOM" /\ flag = 0
  /\ routed = {} /\ sumP = {} /\ samples = {}
  /\ statsRouted = {} /\ statsSumP = {} /\ statsSamples = {}
  /\ error = {} /\ statsError = {}
  /\ pc = "start" /\ lossSeen = FALSE

----------------------------------------------------------------------------
(* Interrupt service: one routine at a time, in the order of the vectors.  *)

Serving == ~masked /\ adc = "idle"
Quiet   == Serving /\ ~intf /\ ~ocf /\ ~tov

(* 64 us: Timer1 counts, the mains advances.  Routines take less than a    *)
(* tick, but a tick may fall inside the ADC's (24 us) or a masked section. *)
Tick ==
  /\ \/ Quiet /\ (sampled \/ ~adcOn)
     \/ masked /\ maskTicks < MaxMask
     \/ ~masked /\ adc = "busy"
  /\ adc' = IF adc = "busy" THEN "late" ELSE adc
  /\ maskTicks' = IF masked THEN maskTicks + 1 ELSE maskTicks
  /\ sampled' = FALSE
  /\ elapsed' = IF elapsed > Debounce THEN elapsed ELSE elapsed + 1
  /\ IF CleanMains
     THEN /\ phase' = (phase + 1) % HalfPeriod
          /\ sign' = (sign # (phase' = 0))
     ELSE UNCHANGED mains
  /\ tcnt' = IF timer THEN (tcnt + 1) % Word ELSE tcnt
  /\ ocf' = (ocf \/ (timer /\ tcnt' = ocr1a))
  /\ tov' = (tov \/ (timer /\ tcnt' = 0))
  /\ UNCHANGED <<triac, timer, ocr1a, enabling, sync, intf, channel, masked,
                 coldStart, parity, numberOfCycle, command, statsVars, mainVars>>

(* ADC_vect, current then voltage.  The snapshot's second part is copied   *)
(* by the first conversion that finds stats_ready_flag = 9.                *)
AdcBegin ==
  /\ Quiet /\ adcOn /\ ~sampled
  /\ adc' = "busy"
  /\ UNCHANGED <<mains, timer1, enabling, sync, sampled, intf, channel,
                 maskVars, crossVars, statsVars, mainVars>>

TransferSums ==
  IF flag = 9
  THEN /\ statsSumP' = sumP /\ statsSamples' = samples
       /\ sumP' = {} /\ samples' = {0}
       /\ flag' = 1
  ELSE /\ samples' = samples \cup {0}
       /\ UNCHANGED <<sumP, statsSumP, statsSamples, flag>>

AdcCurrent ==
  /\ adc # "idle" /\ channel = "I"
  /\ adc' = "idle" /\ channel' = "V"
  /\ TransferSums
  /\ UNCHANGED <<mains, timer1, enabling, sync, sampled, intf, maskVars,
                 crossVars, routed, statsRouted, errors, mainVars>>

AdcVoltage ==
  /\ adc # "idle" /\ channel = "V"
  /\ adc' = "idle" /\ channel' = "I" /\ sampled' = TRUE
  /\ TransferSums
  /\ sync' \in IF CleanMains THEN {sign} ELSE BOOLEAN
  /\ intf' = (intf \/ (int1On /\ sync' # sync))
  /\ UNCHANGED <<mains, timer1, enabling, maskVars, crossVars, routed,
                 statsRouted, errors, mainVars>>

(* zeroCrossingInterrupt, the three branches. *)
ColdCrossing ==
  /\ Serving /\ intf /\ coldStart > 0
  /\ intf' = FALSE
  /\ coldStart' = coldStart - 1
  /\ triac' = FALSE /\ timer' = FALSE /\ tcnt' = 0 /\ ocr1a' = NoDelay
  /\ parity' = TRUE /\ numberOfCycle' = 0 /\ command' = "none"
  /\ elapsed' = 0
  /\ routed' = {} /\ sumP' = {} /\ samples' = {}
  /\ flag' = 0 /\ error' = {}
  /\ UNCHANGED <<mains, ocf, tov, enabling, sync, sampled, adc, channel,
                 maskVars, snapshot, statsError, mainVars>>

(* The gate, the timer and the command of the half cycle that begins.      *)
(* delay: what the regulator wants (NoDelay: nothing); cool: the           *)
(* temperature allows FORCE; inhibited: outputfull or the HTTP dimmer.     *)
Fire(delay, cool, inhibited) ==
  LET forced == triacMode = "FORCE"
      routes == delay # NoDelay /\ triacMode # "STOP" /\ ~inhibited
  IN /\ triac' = (forced /\ cool)
     /\ timer' = (routes /\ ~forced)
     /\ tcnt' = 0
     /\ ocr1a' = delay
     /\ command' = IF forced THEN "full"
                   ELSE IF routes THEN "linear" ELSE "none"

DropMutant == sumP' = {} /\ samples' = Age(samples)
DropSums   == sumP' = {} /\ samples' = {}

(* Every NB_CYCLES cycles: hand the window to loop, or drop it when loop   *)
(* has not finished with the previous one.                                 *)
CloseWindow ==
  /\ numberOfCycle' = 0
  /\ error' = {}
  /\ routed' = {}
  /\ IF flag = 0
     THEN /\ statsRouted' = Age(routed \cup {0})
          /\ statsError' = error
          /\ sumP' = Age(sumP \cup {0}) /\ samples' = Age(samples)
          /\ flag' = 9
     ELSE DropSums /\ UNCHANGED <<statsRouted, statsError, flag>>

AcceptedCrossing ==
  /\ Serving /\ intf /\ coldStart = 0 /\ elapsed > Debounce
  /\ intf' = FALSE
  /\ \E delay \in Delays \cup {NoDelay}, cool, inhibited \in BOOLEAN :
       Fire(delay, cool, inhibited)
  /\ elapsed' = 0
  /\ parity' = ~parity
  /\ IF parity' /\ numberOfCycle + 1 = NB_CYCLES
     THEN CloseWindow
     ELSE /\ numberOfCycle' = IF parity' THEN numberOfCycle + 1
                                        ELSE numberOfCycle
          /\ routed' = routed \cup {0} /\ sumP' = sumP \cup {0}
          /\ UNCHANGED <<samples, statsRouted, errors, flag>>
  /\ UNCHANGED <<mains, ocf, tov, enabling, sync, sampled, adc, channel,
                 maskVars, coldStart, statsSumP, statsSamples, mainVars>>

RefusedCrossing ==
  /\ Serving /\ intf /\ coldStart = 0 /\ elapsed <= Debounce
  /\ intf' = FALSE
  /\ error' = error \cup {6}
  /\ UNCHANGED <<mains, timer1, enabling, sync, sampled, adc, channel,
                 maskVars, crossVars, flag, sums, snapshot, statsError, mainVars>>

(* TCNT1 is loaded so as to overflow PULSE_END counts after the crossing.  *)
(* Here and below a "...Mutant" is a plausible mistake in the definition   *)
(* that follows; it shows that a property depends on that definition.      *)
LoadMutant == tcnt
PulseLoad  == (Word - 1 - (PULSE_END - ocr1a)) % Word

Timer1Compare ==
  /\ Serving /\ ~intf /\ ocf
  /\ ocf' = FALSE
  /\ triac' = TRUE
  /\ tcnt' = PulseLoad
  /\ UNCHANGED <<unasked, timer, ocr1a, tov, enabling, maskVars, statsVars,
                 mainVars>>

Timer1Overflow ==
  /\ Serving /\ ~intf /\ ~ocf /\ tov
  /\ tov' = FALSE
  /\ triac' = FALSE /\ timer' = FALSE /\ tcnt' = 0
  /\ UNCHANGED <<unasked, ocr1a, ocf, enabling, maskVars, statsVars,
                 mainVars>>

----------------------------------------------------------------------------
(* The main program: a statement runs when no interrupt is pending.        *)

Goto(from, to) == Quiet /\ pc = from /\ pc' = to

(* The bit set in stats_error_status only. *)
SyncLostMutant ==
  /\ Goto("sync", "stats")
  /\ statsError' = statsError \cup {7}
  /\ lossSeen' = TRUE
  /\ UNCHANGED <<unasked, timer1, enabling, maskVars, flag, sums, snapshot,
                 error, triacMode>>

(* loop: more than 2010 ms without a snapshot; both bytes get the bit with *)
(* interrupts masked.  The clock is abstract: the timeout may race any     *)
(* window.                                                                 *)
SyncLost ==
  /\ Goto("sync", "stats")
  /\ error' = error \cup {7}
  /\ statsError' = statsError \cup error'
  /\ lossSeen' = TRUE
  /\ UNCHANGED <<unasked, timer1, enabling, maskVars, flag, sums, snapshot,
                 triacMode>>

Unmoved == UNCHANGED <<unasked, timer1, enabling, maskVars, sums, snapshot,
                       errors>>

SyncKept ==
  /\ Goto("sync", "stats")
  /\ Unmoved /\ UNCHANGED <<flag, lossSeen, triacMode>>

(* The flag reset before the statistics are used. *)
StatsTestMutant ==
  /\ Goto("stats", IF flag = 1 THEN "busy" ELSE "commands")
  /\ flag' = IF flag = 1 THEN 0 ELSE flag
  /\ Unmoved /\ UNCHANGED <<lossSeen, triacMode>>

StatsTest ==
  /\ Goto("stats", IF flag = 1 THEN "busy" ELSE "commands")
  /\ Unmoved /\ UNCHANGED <<flag, lossSeen, triacMode>>

(* The reset of the flag, once everything has been computed and sent. *)
StatsDone ==
  /\ Goto("busy", "commands")
  /\ flag' = 0 /\ lossSeen' = FALSE
  /\ Unmoved /\ UNCHANGED triacMode

(* SETSSR,FORCE2 or the boost step of PVRScheduler. *)
ChangeMode ==
  /\ Goto("commands", "commands")
  /\ triacMode' \in {"STOP", "FORCE", "AUTOM"}
  /\ Unmoved /\ UNCHANGED <<flag, lossSeen>>

(* SETSSR and SETRELAY write the EEPROM with interrupts masked. *)
SaveMode ==
  /\ Goto("commands", "save")
  /\ triacMode' \in {triacMode, "STOP", "FORCE", "AUTOM"}
  /\ masked' = TRUE /\ maskTicks' = 0
  /\ UNCHANGED <<unasked, timer1, enabling, statsVars, lossSeen>>

Saved ==
  /\ pc = "save" /\ pc' = "commands"
  /\ masked' = FALSE /\ maskTicks' = 0
  /\ UNCHANGED <<unasked, timer1, enabling, statsVars, lossSeen, triacMode>>

CommandsDone ==
  /\ Goto("commands", "fatal")
  /\ Unmoved /\ UNCHANGED <<flag, lossSeen, triacMode>>

(* RESET is refused during a warm-up; fatalError stops on bit 7. *)
Reset ==
  /\ Goto("commands", "stopAdc")
  /\ coldStart = 0
  /\ Unmoved /\ UNCHANGED <<flag, lossSeen, triacMode>>

FatalTest ==
  /\ Goto("fatal", IF 7 \in statsError THEN "stopAdc" ELSE "sync")
  /\ lossSeen' = FALSE
  /\ Unmoved /\ UNCHANGED <<flag, triacMode>>

(* stopPVR, statement by statement. *)
StopAdc ==
  /\ Goto("stopAdc", "stopInt1")
  /\ adcOn' = FALSE
  /\ UNCHANGED <<unasked, timer1, int1On, maskVars, statsVars, lossSeen,
                 triacMode>>

StopInt1 ==
  /\ Goto("stopInt1", "stopTimer")
  /\ int1On' = FALSE
  /\ UNCHANGED <<unasked, timer1, adcOn, maskVars, statsVars, lossSeen,
                 triacMode>>

StopMutant  == UNCHANGED timer
StopCounter == timer' = FALSE

StopTimer ==
  /\ Goto("stopTimer", "stopTriac")
  /\ StopCounter
  /\ UNCHANGED <<unasked, triac, tcnt, ocr1a, ocf, tov, enabling, maskVars,
                 statsVars, lossSeen, triacMode>>

StopTriac ==
  /\ Goto("stopTriac", "start")
  /\ triac' = FALSE
  /\ UNCHANGED <<unasked, timer, tcnt, ocr1a, ocf, tov, enabling, maskVars,
                 statsVars, lossSeen, triacMode>>

AttachMutant   == UNCHANGED int1On
AttachCrossing == int1On' = TRUE

(* startPVR: its masked part, the first conversion, the warm-up wait. *)
StartMasked ==
  /\ Goto("start", "startAdc")
  /\ triac' = FALSE /\ timer' = FALSE /\ tcnt' = 0 /\ ocr1a' = NoDelay
  /\ triacMode' \in Modes
  /\ AttachCrossing
  /\ coldStart' = NCSTART
  /\ error' = {} /\ statsError' = {} /\ flag' = 0
  /\ lossSeen' = FALSE
  /\ UNCHANGED <<mains, ocf, tov, adcOn, adcVars, maskVars, elapsed, parity,
                 numberOfCycle, command, sums, snapshot>>

StartAdc ==
  /\ Goto("startAdc", "warmup")
  /\ adcOn' = TRUE
  /\ UNCHANGED <<unasked, timer1, int1On, maskVars, statsVars, lossSeen,
                 triacMode>>

WarmedUp ==
  /\ Goto("warmup", "sync")
  /\ coldStart = 0
  /\ Unmoved /\ UNCHANGED <<flag, lossSeen, triacMode>>

----------------------------------------------------------------------------
Crossing  == ColdCrossing \/ AcceptedCrossing \/ RefusedCrossing
Adc       == AdcBegin \/ AdcCurrent \/ AdcVoltage
Interrupt == Crossing \/ Adc \/ Timer1Compare \/ Timer1Overflow
Loop      == \/ SyncLost \/ SyncKept \/ StatsTest \/ StatsDone \/ ChangeMode
             \/ SaveMode \/ Saved \/ CommandsDone \/ Reset \/ FatalTest
StopPVR   == StopAdc \/ StopInt1 \/ StopTimer \/ StopTriac
StartPVR  == StartMasked \/ StartAdc \/ WarmedUp

Next == Tick \/ Interrupt \/ Loop \/ StopPVR \/ StartPVR

Spec == Init /\ [][Next]_vars

----------------------------------------------------------------------------
(* Properties *)

Windows == SUBSET (0..2)
StopPoints == {"stopAdc", "stopInt1", "stopTimer", "stopTriac"}
Points == StopPoints \cup {"sync", "stats", "busy", "commands", "save", "fatal",
                          "start", "startAdc", "warmup"}

LineTypeOK ==
  /\ phase \in 0..(HalfPeriod - 1) /\ sign \in BOOLEAN /\ sync \in BOOLEAN
  /\ sampled \in BOOLEAN /\ elapsed \in 0..(Debounce + 1)
  /\ intf \in BOOLEAN /\ int1On \in BOOLEAN /\ adcOn \in BOOLEAN
  /\ adc \in {"idle", "busy", "late"} /\ channel \in {"I", "V"}

TimerTypeOK ==
  /\ triac \in BOOLEAN /\ timer \in BOOLEAN /\ tcnt \in 0..(Word - 1)
  /\ ocr1a \in Delays \cup {NoDelay} /\ ocf \in BOOLEAN /\ tov \in BOOLEAN

CycleTypeOK ==
  /\ coldStart \in 0..NCSTART /\ parity \in BOOLEAN
  /\ numberOfCycle \in 0..(NB_CYCLES - 1)
  /\ command \in {"none", "linear", "full"}

StatsTypeOK ==
  /\ flag \in {0, 1, 9}
  /\ routed \in Windows /\ sumP \in Windows /\ samples \in Windows
  /\ statsRouted \in Windows /\ statsSumP \in Windows
  /\ statsSamples \in Windows
  /\ error \in SUBSET {6, 7} /\ statsError \in SUBSET {6, 7}

ProgramTypeOK ==
  /\ masked \in BOOLEAN /\ maskTicks \in 0..MaxMask
  /\ pc \in Points /\ lossSeen \in BOOLEAN /\ triacMode \in Modes

(* Type invariant of the interrupt level; Timer1 counts on 16 bits. *)
TypeOK == /\ LineTypeOK /\ TimerTypeOK /\ CycleTypeOK /\ StatsTypeOK
          /\ ProgramTypeOK

(* From the end of stopPVR until the warm-up is over, whatever the         *)
(* interrupts did between two of its statements, the gate is off and no    *)
(* timer can turn it on again: fatalError leaves it so for 20 seconds.     *)
SafeWhenStopped ==
  (pc \in {"start", "startAdc"} \/ coldStart > 0)
    => ~triac /\ ~timer /\ ~ocf

(* A snapshot given to loop covers one whole window: the two parts copied  *)
(* by two interrupt routines, the second some samples later, speak of the  *)
(* same half cycles, also after windows were dropped or the router         *)
(* restarted.                                                              *)
SnapshotOfOneWindow ==
  flag = 1 => /\ statsRouted = {1} /\ statsSumP = {1}
              /\ statsSamples \subseteq {1}

(* While loop computes with the snapshot no interrupt routine writes it. *)
SnapshotStable ==
  [][pc = "busy" => UNCHANGED snapshot]_vars

(* A loss of the mains found by loop is not forgotten before fatalError    *)
(* tests for it, although a window that closes in between clears the error *)
(* bits of stats_error_status.                                             *)
LossReported ==
  lossSeen => 7 \in statsError

(* On clean mains and without masked sections a half cycle for which       *)
(* nothing is to be routed sees no gate pulse, and a pulse in linear       *)
(* regulation is over before the mains reaches its next zero.              *)
GateFollowsCommand ==
  triac => \/ command = "full" \/ pc = "stopTriac"
           \/ command = "linear" /\ timer /\ (tov \/ Word - tcnt <= PULSE_END)

(* Time passes, pending interrupts are served, and the main program gets   *)
(* the processor between two of them (the routines take 24 and 40 us, a    *)
(* sample is due every 60 us).                                             *)
Fairness == WF_vars(Tick) /\ WF_vars(Interrupt) /\ SF_vars(StartPVR)

FairSpec == Spec /\ Fairness

(* With a clean mains startPVR returns: the crossings it waits for come. *)
WarmupEnds == (pc = "warmup") ~> (pc = "sync")

----------------------------------------------------------------------------
(* The inductive invariants behind SafeWhenStopped; behind                 *)
(* SnapshotOfOneWindow, SnapshotStable and LossReported; and, on clean     *)
(* mains, behind GateFollowsCommand.                                       *)

(* What each statement of stopPVR leaves true until startPVR. *)
StopInv ==
  /\ adc # "idle" => adcOn
  /\ pc \in {"stopInt1", "stopTimer", "stopTriac", "start", "startAdc"}
       => ~adcOn /\ adc = "idle"
  /\ pc \in {"stopTimer", "stopTriac", "start"} => ~int1On
  /\ pc \in {"stopTimer", "stopTriac", "start", "startAdc"} => ~intf
  /\ pc \in {"stopTriac", "start", "startAdc"} => ~timer /\ ~ocf
  /\ pc \in {"start", "startAdc"} => ~triac
  /\ coldStart > 0 => /\ pc \in {"start", "startAdc", "warmup"}
                      /\ ~triac /\ ~timer /\ ~ocf

(* Who owns the accumulators and the snapshot at each value of the flag. *)
HandshakeInv ==
  /\ routed \subseteq {0}
  /\ flag = 9 => /\ ~intf /\ statsRouted = {1}
                 /\ sumP = {1} /\ samples \subseteq {1}
  /\ flag # 9 /\ coldStart = 0 => sumP \subseteq {0} /\ samples \subseteq {0}
  /\ coldStart > 0 => flag = 0
  /\ pc = "busy" => flag = 1
  /\ SnapshotOfOneWindow

(* A loss stays recorded where the next closing window will look for it. *)
LossInv ==
  lossSeen => 7 \in statsError /\ (flag = 0 => 7 \in error) /\ coldStart = 0

(* How long after its zero the mains may be before the sampled sign shows  *)
(* it: one tick between two samples, one in each of the two conversions.   *)
Lag == (IF channel = "V" THEN 1 ELSE 0) + (IF adc = "late" THEN 1 ELSE 0)

(* Once the voltage has been sampled after a start, a crossing is served   *)
(* less than two ticks after the zero it stands for.                       *)
SamplingInv ==
  /\ sampled => channel = "I" /\ adc = "idle"
  /\ intf \/ ocf \/ tov => adc # "busy"
  /\ pc = "startAdc" => coldStart = NCSTART
  /\ adcOn /\ sync # sign /\ (coldStart # NCSTART \/ intf)
       => ~sampled /\ phase <= Lag
  /\ intf /\ coldStart = 0 => sync = sign /\ phase <= 2

(* Timer1 in a half cycle to be routed: it counts with the mains to OCR1A, *)
(* then for the pulse to its overflow.                                     *)
Counting ==
  /\ ~triac /\ ~intf /\ sync = sign
  /\ tcnt <= ocr1a /\ tcnt <= phase /\ phase <= tcnt + 2
  /\ ocf <=> tcnt = ocr1a

Pulsing == triac /\ ~ocf /\ (tov \/ Word - tcnt <= PULSE_END)

GateInv ==
  /\ timer => command = "linear" /\ ocr1a \in Delays /\ (Counting \/ Pulsing)
  /\ ocf => timer
  /\ triac => command = "full" \/ pc = "stopTriac" \/ timer
=============================================================================
