------------------------------- MODULE Energy -------------------------------
(***************************************************************************)
(* The energy counters of EcoPV (EcoPV3/EcoPV3.ino) and the daily limit:   *)
(* the windows that the interrupt level closes, the counting of each by    *)
(* loop, the check of the limit, the EEPROM.                               *)
(*                                                                         *)
(* Data left out: how a power is computed (any energy up to MaxRate); the  *)
(* pulses of the external meter, counted one by one; the boost, which is   *)
(* any change of mode in the scheduler (module Boost); the two halves of   *)
(* the snapshot (module PVRouter).                                         *)
(***************************************************************************)
EXTENDS Integers

CONSTANTS
  Channels,   \* indexRouted, indexExported, indexImported, indexRelayOn
  Quantum,    \* 3600 * WH_PER_INC Joules, or 60 seconds of the relay
  MaxRate,    \* what a window of one second may add
  Limit,      \* P_LIMIT in increments of WH_PER_INC
  NbHours,    \* NB_HOURS
  Garbage,    \* what an index half written may read back
  MaxEnergy,  \* bound: what is counted of each channel
  MaxRestarts \* bound: how often a day the limit starts again

ASSUME EnergyAssumption ==
  /\ "routed" \in Channels
  /\ Quantum \in [Channels -> Nat \ {0}] /\ MaxRate \in [Channels -> Nat]
  /\ \A c \in Channels : MaxRate[c] <= Quantum[c]
  /\ Limit \in Nat /\ NbHours \in Nat /\ MaxEnergy \in [Channels -> Nat]
  /\ Garbage \subseteq Int /\ MaxRestarts \in Nat

Modes == {"STOP", "FORCE", "AUTOM"}
Full  == {"OFF", "hot", "limit"}          \* outputfull: 0, 2, 4
Fired == {"none", "forced", "auto"}       \* who fired the triac in a window

VARIABLES
  triacMode, outputfull,
  fired, ready,       \* the current window, the one that waits for loop
  pc,                 \* loop: "idle", or "check" the limit
  acc, index,         \* routedEnergy... (from -Quantum), the indexes
  indexJ, saved,      \* indexRoutedJ, the indexes in EEPROM
  nbHours,            \* nb_hours
  energy,             \* history: energy counted, or read back
  dayEnergy, restarts,  \* history: of it by AUTOM since midnight, and how
                        \* often indexRoutedJ was zeroed in between
  torn                \* history: the index that the last power cut spoiled

control  == <<triacMode, outputfull>>
windows  == <<fired, ready>>
today    == <<dayEnergy, restarts>>
counters == <<acc, index, indexJ, energy, today, torn>>
vars     == <<control, windows, pc, counters, saved, nbHours>>

(* Readings start an increment below zero; an erased EEPROM reads as -1.   *)
Empty == [c \in Channels |-> -Quantum[c]]
Whole(i) == [c \in Channels |-> i[c] * Quantum[c]]

Init ==
  /\ triacMode \in Modes /\ outputfull = "OFF"
  /\ fired = "none" /\ ready = "empty" /\ pc = "idle"
  /\ acc = Empty /\ indexJ = 0 /\ dayEnergy = 0 /\ restarts = 0 /\ torn = {}
  /\ \E first \in {-1, 0} : index = [c \in Channels |-> first]
  /\ saved = index /\ energy = Whole(index)
  /\ nbHours = 0

----------------------------------------------------------------------------
(* The interrupt level.                                                    *)

(* A half cycle in which the triac is fired. *)
Fire ==
  /\ \/ triacMode = "FORCE" /\ fired' = IF fired = "auto" THEN fired ELSE "forced"
     \/ triacMode = "AUTOM" /\ outputfull = "OFF" /\ fired' = "auto"
  /\ UNCHANGED <<control, ready, pc, counters, saved, nbHours>>

(* A window that loop is not ready for is lost. *)
CloseWindow ==
  /\ ready' = IF ready = "empty" THEN fired ELSE ready
  /\ fired' = "none"
  /\ UNCHANGED <<control, pc, counters, saved, nbHours>>

----------------------------------------------------------------------------
(* One second of loop.                                                     *)

(* What the window may have added to each counter; routed energy counts in *)
(* AUTOM only (ACC_FORCE_ENERGY), the mode being that of loop.             *)
Amounts == [Channels -> UNION {0..MaxRate[c] : c \in Channels}]
Possible(e) ==
  /\ \A c \in Channels : e[c] <= MaxRate[c]
  /\ triacMode # "AUTOM" \/ ready = "none" => e["routed"] = 0
Bounded(e) == \A c \in Channels : energy[c] + e[c] <= MaxEnergy[c]

Passed(c, e) == acc[c] + e[c] >= 0   \* the counter has come to zero

Process(e) ==
  /\ pc = "idle" /\ ready # "empty"
  /\ Possible(e) /\ Bounded(e)
  /\ acc' = [c \in Channels |->
               acc[c] + e[c] - IF Passed(c, e) THEN Quantum[c] ELSE 0]
  /\ index' = [c \in Channels |-> index[c] + IF Passed(c, e) THEN 1 ELSE 0]
  /\ indexJ' = indexJ + IF Passed("routed", e) THEN 1 ELSE 0
  /\ energy' = [c \in Channels |-> energy[c] + e[c]]
  /\ dayEnergy' = dayEnergy + IF ready = "auto" THEN e["routed"] ELSE 0
  /\ ready' = "empty" /\ pc' = "check"
  /\ UNCHANGED <<control, fired, restarts, torn, saved, nbHours>>

(* "Vérification CE chargé" *)
CheckTank(hot) ==
  outputfull' = IF triacMode # "AUTOM" \/ outputfull # "OFF" THEN outputfull
                ELSE IF indexJ > Limit THEN "limit"
                ELSE IF hot THEN "hot" ELSE "OFF"

(* indexWrite, called every NB_HOURS hours by the scheduler. *)
HourlySave(top) ==
  IF top /\ nbHours = NbHours
  THEN saved' = index /\ nbHours' = 0
  ELSE UNCHANGED <<saved, nbHours>>

Check(top, hot) ==
  /\ pc = "check" /\ pc' = "idle"
  /\ CheckTank(hot) /\ HourlySave(top)
  /\ triacMode' \in Modes   \* PVRScheduler: a step of the boost
  /\ UNCHANGED <<windows, counters>>

----------------------------------------------------------------------------
(* serialRequest and fatalError.                                           *)

SetSSR(m) ==
  /\ pc = "idle" /\ triacMode' = m
  /\ UNCHANGED <<outputfull, windows, pc, counters, saved, nbHours>>

IndexWrite(i) == saved' = i /\ nbHours' = 0

SaveIndex ==
  /\ pc = "idle" /\ IndexWrite(index)
  /\ UNCHANGED <<control, windows, pc, counters>>

(* indexRoutedJ is zero and midnight has not passed: the limit starts      *)
(* again.                                                                  *)
LimitAgain ==
  /\ indexJ' = 0
  /\ restarts < MaxRestarts /\ restarts' = restarts + 1
  /\ UNCHANGED dayEnergy

(* The fractions go on. *)
WriteMutant == UNCHANGED <<saved, nbHours>>   \* not saved at once
WriteZeros  == IndexWrite(index')

IndexZero ==
  /\ pc = "idle"
  /\ index' = [c \in Channels |-> 0] /\ LimitAgain
  /\ energy' = [c \in Channels |-> acc[c] + Quantum[c]]
  /\ WriteZeros
  /\ UNCHANGED <<control, windows, pc, acc, torn>>

FullMutant == outputfull' = "OFF"
FullKept   == UNCHANGED outputfull

(* RESET, or a loss of the mains: indexWrite, stopPVR, startPVR; the       *)
(* warm-up drops the window, the counters stay.                            *)
Restart ==
  /\ pc = "idle" /\ IndexWrite(index)
  /\ triacMode' \in Modes /\ FullKept
  /\ fired' = "none" /\ ready' = "empty"
  /\ UNCHANGED <<pc, counters>>

(* RSTP: at midnight, and whenever the ESP starts.                         *)
ResetDay(midnight) ==
  /\ pc = "idle" /\ outputfull' = "OFF"
  /\ IF midnight THEN indexJ' = 0 /\ dayEnergy' = 0 /\ restarts' = 0
     ELSE LimitAgain
  /\ UNCHANGED <<triacMode, windows, pc, acc, index, energy, torn, saved, nbHours>>

(* setup, with the indexes of the EEPROM.  That of the day is not there.   *)
Setup ==
  /\ index' = saved' /\ energy' = Whole(saved') /\ acc' = Empty
  /\ LimitAgain /\ triacMode' \in Modes /\ outputfull' = "OFF"
  /\ fired' = "none" /\ ready' = "empty" /\ pc' = "idle"
  /\ nbHours' = 0

PowerCut == UNCHANGED saved /\ torn' = {} /\ Setup

(* Power fails while indexWrite has written some of the indexes, the ones  *)
(* counted or, under INDX0, zeros.  EEPROM.put changes them byte by byte,  *)
(* those that differ only: the index under way may read back anything.     *)
CutWhileWriting ==
  /\ pc = "idle"
  /\ \E written \in SUBSET Channels, zeros \in BOOLEAN :
       LET new(c) == IF zeros THEN 0 ELSE index[c]
           kept   == [c \in Channels |-> IF c \in written THEN new(c) ELSE saved[c]]
       IN  \/ saved' = kept /\ torn' = {}
           \/ \E c \in Channels, g \in Garbage :
                /\ saved[c] # new(c)
                /\ saved' = [kept EXCEPT ![c] = g] /\ torn' = {c}
  /\ Setup

Second == \/ \E e \in Amounts : Process(e)
          \/ \E top, hot \in BOOLEAN : Check(top, hot)

Commands == \/ \E m \in Modes : SetSSR(m)
            \/ SaveIndex \/ IndexZero \/ Restart
            \/ \E midnight \in BOOLEAN : ResetDay(midnight)

Next == Fire \/ CloseWindow \/ Second \/ Commands \/ PowerCut \/ CutWhileWriting

Spec == Init /\ [][Next]_vars

----------------------------------------------------------------------------
(* Properties *)

TypeOK ==
  /\ triacMode \in Modes /\ outputfull \in Full
  /\ fired \in Fired /\ ready \in Fired \cup {"empty"} /\ pc \in {"idle", "check"}
  /\ acc \in [Channels -> Int] /\ \A c \in Channels : acc[c] \in -Quantum[c]..-1
  /\ index \in [Channels -> Int] /\ saved \in [Channels -> Int]
  /\ energy \in [Channels -> Int] /\ indexJ \in Nat /\ dayEnergy \in Nat
  /\ restarts \in Nat /\ torn \subseteq Channels
  /\ nbHours \in 0..NbHours

(* The indexes implement a meter: with one subtraction a second they never *)
(* fall behind the energy, a restart loses nothing, INDX0 keeps the        *)
(* fraction, and what a power cut brings back was never more than what was *)
(* read before, but in the one index that it found half written.           *)
MeterOf == INSTANCE Meter WITH reading <- index
Metered == MeterOf!Spec

(* "limites de routage journalières": each time the limit starts, the      *)
(* regulator routes no more than the limit, the increment under way, and   *)
(* the windows of three seconds: the one that passes the limit, one that   *)
(* waits for loop, one that is being measured.  A day has one such         *)
(* allowance and one more for every INDX0, every start of the ESP and      *)
(* every power cut of the Arduino, which does not save indexRoutedJ.       *)
Most      == (Limit + 1) * Quantum["routed"]
Allowance == Most + 3 * MaxRate["routed"]

DailyLimit == dayEnergy < (restarts + 1) * Allowance

----------------------------------------------------------------------------
(* Inductive invariants, for the proofs.                                   *)

(* The accumulators hold what the indexes do not; the EEPROM is behind.    *)
CountInv ==
  \A c \in Channels :
    /\ energy[c] = index[c] * Quantum[c] + (acc[c] + Quantum[c])
    /\ saved[c] <= index[c]

Today == indexJ * Quantum["routed"] + (acc["routed"] + Quantum["routed"])
Spent == dayEnergy - restarts * Allowance   \* of the last allowance

(* What the windows that AUTOM fired in may still add. *)
Pending == (IF ready = "auto" THEN MaxRate["routed"] ELSE 0)
             + (IF fired = "auto" THEN MaxRate["routed"] ELSE 0)

DayInv ==
  /\ Spent <= Today
  /\ outputfull = "OFF" =>
       IF pc = "check" /\ triacMode = "AUTOM"
       THEN Spent < Most + MaxRate["routed"]
       ELSE indexJ <= Limit
  /\ outputfull # "OFF" => Spent + Pending < Most + 3 * MaxRate["routed"]
=============================================================================
