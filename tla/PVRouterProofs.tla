--------------------------- MODULE PVRouterProofs ---------------------------
(***************************************************************************)
(* Safety of the interrupt level for every value of the constants: any     *)
(* mains (noise included), any length of the masked sections, any delays.  *)
(***************************************************************************)
EXTENDS PVRouter, TLAPS

(* What Timer1 counts stays within its 16 bits.                            *)
LEMMA WordRange ==
  Word \in Nat /\ 0 \in 0..(Word - 1) /\ \A x \in Int : x % Word \in 0..(Word - 1)
  <1>1. Word \in Nat /\ 0 < Word
    BY DEF Word
  <1>2. ASSUME NEW w \in Nat, 0 < w, NEW x \in Int PROVE x % w \in 0..(w - 1)
    BY <1>2
  <1> QED BY <1>1, <1>2

(* The tuples UNCHANGED is stated with. *)
USE DEF mains, timer1, enabling, adcVars, maskVars, crossVars, sums, snapshot,
        errors, statsVars, mainVars, unasked, vars, Unmoved, DropSums,
        StopCounter, AttachCrossing, PulseLoad

(* Ageing a set of windows leaves windows.                                 *)
LEMMA AgeTyped == ASSUME NEW S \in Windows PROVE Age(S) \in Windows
  BY DEF Age, Windows

(* The line, the ADC and the enabling of the routines. *)
LEMMA LineTyping == LineTypeOK /\ [Next]_vars => LineTypeOK'
  <1> SUFFICES ASSUME LineTypeOK, [Next]_vars PROVE LineTypeOK'
    OBVIOUS
  <1> USE DEF LineTypeOK
  <1>1. CASE Tick
    <2>1. (phase + 1) % HalfPeriod \in 0..(HalfPeriod - 1)
      BY RouterAssumption
    <2>2. phase' \in 0..(HalfPeriod - 1) /\ sign' \in BOOLEAN
      BY <1>1, <2>1 DEF Tick
    <2>3. elapsed' \in 0..(Debounce + 1) /\ adc' \in {"idle", "busy", "late"}
      BY <1>1, RouterAssumption DEF Tick
    <2> QED BY <1>1, <2>2, <2>3 DEF Tick
  <1>2. CASE Adc
    BY <1>2 DEF Adc, AdcBegin, AdcCurrent, AdcVoltage
  <1>3. CASE Crossing \/ Timer1Compare \/ Timer1Overflow
    <2> 0 \in 0..(Debounce + 1) BY RouterAssumption
    <2>1. CASE ColdCrossing BY <2>1 DEF ColdCrossing
    <2>2. CASE AcceptedCrossing BY <2>2 DEF AcceptedCrossing
    <2>3. CASE RefusedCrossing BY <2>3 DEF RefusedCrossing
    <2>4. CASE Timer1Compare \/ Timer1Overflow
      BY <2>4 DEF Timer1Compare, Timer1Overflow
    <2> QED BY <1>3, <2>1, <2>2, <2>3, <2>4 DEF Crossing
  <1>4. CASE Loop
    BY <1>4 DEF Loop, SyncLost, SyncKept, StatsTest, StatsDone, ChangeMode,
       SaveMode, Saved, CommandsDone, Reset, FatalTest
  <1>5. CASE StopPVR \/ StartPVR
    <2>1. CASE StopPVR
      BY <2>1 DEF StopPVR, StopAdc, StopInt1, StopTimer, StopTriac
    <2>2. CASE StartPVR BY <2>2 DEF StartPVR, StartMasked, StartAdc, WarmedUp
    <2> QED BY <1>5, <2>1, <2>2
  <1>6. CASE UNCHANGED vars BY <1>6
  <1> QED BY <1>1, <1>2, <1>3, <1>4, <1>5, <1>6 DEF Next, Interrupt

(* Timer1 stays within its 16 bits although the compare routine may        *)
(* compute with an unreachable OCR1A.                                      *)
LEMMA TimerTyping == TimerTypeOK /\ [Next]_vars => TimerTypeOK'
  <1> SUFFICES ASSUME TimerTypeOK, [Next]_vars PROVE TimerTypeOK'
    OBVIOUS
  <1> USE DEF TimerTypeOK
  <1>1. CASE Tick
    <2>1. tcnt' \in 0..(Word - 1) BY <1>1, WordRange DEF Tick
    <2> QED BY <1>1, <2>1 DEF Tick
  <1>2. CASE Adc
    BY <1>2 DEF Adc, AdcBegin, AdcCurrent, AdcVoltage
  <1>3. CASE AcceptedCrossing BY <1>3, WordRange DEF AcceptedCrossing, Fire
  <1>4. CASE ColdCrossing \/ RefusedCrossing \/ Timer1Overflow
    BY <1>4, WordRange DEF ColdCrossing, RefusedCrossing, Timer1Overflow
  <1>5. CASE Timer1Compare
    <2>1. ocr1a \in Int BY RouterAssumption DEF NoDelay
    <2>2. Word - 1 - (PULSE_END - ocr1a) \in Int
      BY <2>1, RouterAssumption, WordRange
    <2> QED BY <1>5, <2>2, WordRange DEF Timer1Compare
  <1>6. CASE Loop
    BY <1>6 DEF Loop, SyncLost, SyncKept, StatsTest, StatsDone, ChangeMode,
       SaveMode, Saved, CommandsDone, Reset, FatalTest
  <1>7. CASE StopPVR \/ StartPVR
    BY <1>7, WordRange DEF StopPVR, StopAdc, StopInt1, StopTimer, StopTriac, StartPVR,
       StartMasked, StartAdc, WarmedUp
  <1>8. CASE UNCHANGED vars BY <1>8
  <1> QED BY <1>1, <1>2, <1>3, <1>4, <1>5, <1>6, <1>7, <1>8
          DEF Next, Interrupt, Crossing

(* What the crossings count and decide. *)
LEMMA CycleTyping == CycleTypeOK /\ [Next]_vars => CycleTypeOK'
  <1> SUFFICES ASSUME CycleTypeOK, [Next]_vars PROVE CycleTypeOK'
    OBVIOUS
  <1> USE DEF CycleTypeOK
  <1>1. CASE Tick \/ Timer1Compare \/ Timer1Overflow \/ RefusedCrossing
    BY <1>1 DEF Tick, Timer1Compare, Timer1Overflow, RefusedCrossing
  <1>2. CASE Adc
    BY <1>2 DEF Adc, AdcBegin, AdcCurrent, AdcVoltage
  <1>3. CASE ColdCrossing
    <2> 0 \in 0..(NB_CYCLES - 1) /\ NCSTART \in Nat BY RouterAssumption
    <2> QED BY <1>3 DEF ColdCrossing
  <1>4. CASE AcceptedCrossing
    <2>1. command' \in {"none", "linear", "full"}
      BY <1>4 DEF AcceptedCrossing, Fire
    <2>2. numberOfCycle' \in 0..(NB_CYCLES - 1)
      <3>1. NB_CYCLES \in Nat \ {0} BY RouterAssumption
      <3>2. numberOfCycle' \in {0, numberOfCycle, numberOfCycle + 1}
        BY <1>4 DEF AcceptedCrossing, CloseWindow
      <3>3. numberOfCycle' = numberOfCycle + 1 => numberOfCycle + 1 # NB_CYCLES
        BY <1>4, <3>1 DEF AcceptedCrossing, CloseWindow
      <3> QED BY <3>1, <3>2, <3>3
    <2> QED BY <1>4, <2>1, <2>2 DEF AcceptedCrossing
  <1>5. CASE Loop
    BY <1>5 DEF Loop, SyncLost, SyncKept, StatsTest, StatsDone, ChangeMode,
       SaveMode, Saved, CommandsDone, Reset, FatalTest
  <1>6. CASE StopPVR
    BY <1>6 DEF StopPVR, StopAdc, StopInt1, StopTimer, StopTriac
  <1>7. CASE StartPVR
    <2> NCSTART \in 0..NCSTART BY RouterAssumption
    <2> QED BY <1>7 DEF StartPVR, StartMasked, StartAdc, WarmedUp
  <1>8. CASE UNCHANGED vars BY <1>8
  <1> QED BY <1>1, <1>2, <1>3, <1>4, <1>5, <1>6, <1>7, <1>8
          DEF Next, Interrupt, Crossing

(* The accumulators, the flag and the snapshot. *)
LEMMA StatsTyping == StatsTypeOK /\ [Next]_vars => StatsTypeOK'
  <1> SUFFICES ASSUME StatsTypeOK, [Next]_vars PROVE StatsTypeOK'
    OBVIOUS
  <1> USE DEF StatsTypeOK
  <1>w. {} \in Windows /\ \A S \in Windows : S \cup {0} \in Windows
    BY DEF Windows
  <1>1. CASE Tick \/ Timer1Compare \/ Timer1Overflow \/ RefusedCrossing
    BY <1>1 DEF Tick, Timer1Compare, Timer1Overflow, RefusedCrossing
  <1>2. CASE Adc
    <2> {0} \in Windows BY DEF Windows
    <2> QED BY <1>2, <1>w
            DEF Adc, AdcBegin, AdcCurrent, AdcVoltage, TransferSums
  <1>3. CASE ColdCrossing BY <1>3, <1>w DEF ColdCrossing
  <1>4. CASE AcceptedCrossing
    <2>1. CASE CloseWindow
      <3>1. /\ Age(routed \cup {0}) \in Windows
            /\ Age(sumP \cup {0}) \in Windows /\ Age(samples) \in Windows
        BY <1>w, AgeTyped
      <3>2. statsSumP' = statsSumP /\ statsSamples' = statsSamples
        BY <1>4 DEF AcceptedCrossing
      <3> QED BY <2>1, <3>1, <3>2, <1>w DEF CloseWindow
    <2>2. CASE ~CloseWindow BY <1>4, <2>2, <1>w DEF AcceptedCrossing
    <2> QED BY <2>1, <2>2
  <1>5. CASE Loop
    BY <1>5 DEF Loop, SyncLost, SyncKept, StatsTest, StatsDone, ChangeMode,
       SaveMode, Saved, CommandsDone, Reset, FatalTest
  <1>6. CASE StopPVR
    BY <1>6 DEF StopPVR, StopAdc, StopInt1, StopTimer, StopTriac
  <1>7. CASE StartPVR
    BY <1>7 DEF StartPVR, StartMasked, StartAdc, WarmedUp
  <1>8. CASE UNCHANGED vars BY <1>8
  <1> QED BY <1>1, <1>2, <1>3, <1>4, <1>5, <1>6, <1>7, <1>8
          DEF Next, Interrupt, Crossing

(* The position and the decisions of the program. *)
LEMMA ProgramTyping == ProgramTypeOK /\ [Next]_vars => ProgramTypeOK'
  <1> SUFFICES ASSUME ProgramTypeOK, [Next]_vars PROVE ProgramTypeOK'
    OBVIOUS
  <1> 0 \in 0..MaxMask /\ MaxMask \in Nat BY RouterAssumption
  <1> USE DEF ProgramTypeOK, Points, StopPoints, Modes, Goto
  <1>1. CASE Tick
    <2>1. masked => maskTicks < MaxMask BY <1>1 DEF Tick, Quiet, Serving
    <2>2. maskTicks' \in 0..MaxMask BY <1>1, <2>1 DEF Tick
    <2> QED BY <1>1, <2>2 DEF Tick
  <1>2. CASE Adc
    BY <1>2 DEF Adc, AdcBegin, AdcCurrent, AdcVoltage
  <1>3. CASE Crossing \/ Timer1Compare \/ Timer1Overflow
    BY <1>3 DEF Crossing, ColdCrossing, AcceptedCrossing, RefusedCrossing,
       Timer1Compare, Timer1Overflow
  <1>4. CASE Loop
    <2>1. CASE SyncLost \/ SyncKept \/ StatsTest \/ StatsDone
      BY <2>1 DEF SyncLost, SyncKept, StatsTest, StatsDone
    <2>2. CASE ChangeMode \/ SaveMode \/ Saved
      BY <2>2 DEF ChangeMode, SaveMode, Saved
    <2>3. CASE CommandsDone \/ Reset \/ FatalTest
      BY <2>3 DEF CommandsDone, Reset, FatalTest
    <2> QED BY <1>4, <2>1, <2>2, <2>3 DEF Loop
  <1>5. CASE StopPVR
    BY <1>5 DEF StopPVR, StopAdc, StopInt1, StopTimer, StopTriac
  <1>6. CASE StartPVR
    BY <1>6 DEF StartPVR, StartMasked, StartAdc, WarmedUp
  <1>7. CASE UNCHANGED vars BY <1>7
  <1> QED BY <1>1, <1>2, <1>3, <1>4, <1>5, <1>6, <1>7 DEF Next, Interrupt

(* Every variable keeps its type, for any constants. *)
THEOREM Typing == Spec => []TypeOK
  <1>1. Init => TypeOK
    <2> SUFFICES ASSUME Init PROVE TypeOK
      OBVIOUS
    <2> USE DEF Init
    <2>0. 0 \in 0..(HalfPeriod - 1) /\ 0 \in 0..(Debounce + 1) /\ 0 \in 0..MaxMask
      BY RouterAssumption
    <2>1. LineTypeOK BY <2>0 DEF LineTypeOK
    <2>2. TimerTypeOK BY WordRange DEF TimerTypeOK
    <2>3. CycleTypeOK BY RouterAssumption DEF CycleTypeOK
    <2>4. StatsTypeOK BY DEF StatsTypeOK, Windows
    <2>5. ProgramTypeOK BY <2>0 DEF ProgramTypeOK, Points, Modes
    <2> QED BY <2>1, <2>2, <2>3, <2>4, <2>5 DEF TypeOK
  <1>2. TypeOK /\ [Next]_vars => TypeOK'
    BY LineTyping, TimerTyping, CycleTyping, StatsTyping, ProgramTyping
       DEF TypeOK
  <1> QED BY <1>1, <1>2, PTL DEF Spec

----------------------------------------------------------------------------
(* stopPVR: each statement forbids one more cause of a gate pulse, and the *)
(* order matters: the ADC generates the crossings, a crossing starts the   *)
(* timer, the timer turns the gate on.                                     *)
LEMMA StopStep == CycleTypeOK /\ StopInv /\ [Next]_vars => StopInv'
  <1> SUFFICES ASSUME CycleTypeOK, StopInv, [Next]_vars PROVE StopInv'
    OBVIOUS
  <1>n. NCSTART \in Nat \ {0} BY RouterAssumption
  <1>c. coldStart \in 0..NCSTART BY DEF CycleTypeOK
  <1> USE DEF StopInv, Serving, Quiet
  <1>1. CASE Tick BY <1>1 DEF Tick
  <1>2. CASE Adc
    BY <1>2 DEF Adc, AdcBegin, AdcCurrent, AdcVoltage
  <1>3. CASE ColdCrossing BY <1>3, <1>c, <1>n DEF ColdCrossing
  <1>4. CASE AcceptedCrossing BY <1>4 DEF AcceptedCrossing
  <1>5. CASE RefusedCrossing BY <1>5 DEF RefusedCrossing
  <1>6. CASE Timer1Compare BY <1>6 DEF Timer1Compare
  <1>7. CASE Timer1Overflow BY <1>7 DEF Timer1Overflow
  <1>8. CASE Loop
    <2> USE DEF Goto
    <2>1. CASE SyncLost \/ SyncKept \/ StatsTest \/ StatsDone
      BY <2>1 DEF SyncLost, SyncKept, StatsTest, StatsDone
    <2>2. CASE ChangeMode \/ SaveMode \/ Saved
      BY <2>2 DEF ChangeMode, SaveMode, Saved
    <2>3. CASE CommandsDone \/ Reset \/ FatalTest
      BY <2>3 DEF CommandsDone, Reset, FatalTest
    <2> QED BY <1>8, <2>1, <2>2, <2>3 DEF Loop
  <1>9. CASE StopPVR
    <2> USE DEF Goto
    <2>1. CASE StopAdc BY <2>1 DEF StopAdc
    <2>2. CASE StopInt1 BY <2>2 DEF StopInt1
    <2>3. CASE StopTimer BY <2>3 DEF StopTimer
    <2>4. CASE StopTriac BY <2>4 DEF StopTriac
    <2> QED BY <1>9, <2>1, <2>2, <2>3, <2>4 DEF StopPVR
  <1>10. CASE StartPVR
    <2> USE DEF Goto
    <2>1. CASE StartMasked BY <2>1, <1>n DEF StartMasked
    <2>2. CASE StartAdc BY <2>2 DEF StartAdc
    <2>3. CASE WarmedUp BY <2>3 DEF WarmedUp
    <2> QED BY <1>10, <2>1, <2>2, <2>3 DEF StartPVR
  <1>11. CASE UNCHANGED vars BY <1>11
  <1> QED BY <1>1, <1>2, <1>3, <1>4, <1>5, <1>6, <1>7, <1>8, <1>9, <1>10,
             <1>11 DEF Next, Interrupt, Crossing

(* What stopPVR has established so far holds in every reachable state. *)
LEMMA StopAlways == Spec => []StopInv
  <1>1. Init => StopInv BY DEF Init, StopInv
  <1>2. TypeOK => CycleTypeOK BY DEF TypeOK
  <1> QED BY <1>1, <1>2, StopStep, Typing, PTL DEF Spec

(* After stopPVR and until the warm-up is over the gate is off and nothing *)
(* can turn it on, however the interrupts fell between its statements.     *)
THEOREM StoppedIsSafe == Spec => []SafeWhenStopped
  <1>1. StopInv => SafeWhenStopped BY DEF StopInv, SafeWhenStopped
  <1> QED BY <1>1, StopAlways, PTL

----------------------------------------------------------------------------
(* The handover of a window: the flag says who may write the accumulators  *)
(* and the snapshot.  Closing a window restarts them all together.         *)
LEMMA CloseIsPure ==
  ASSUME HandshakeInv, coldStart = 0, flag = 0, CloseWindow
  PROVE  /\ routed' = {} /\ flag' = 9 /\ statsRouted' = {1}
         /\ sumP' = {1} /\ samples' \subseteq {1}
  <1>0. routed \subseteq {0} /\ sumP \subseteq {0} /\ samples \subseteq {0}
    BY DEF HandshakeInv
  <1>1. routed \cup {0} = {0} /\ sumP \cup {0} = {0} /\ samples \subseteq {0}
    BY <1>0
  <1>2. Age({0}) = {1} /\ Age(samples) \subseteq {1}
    BY <1>1 DEF Age
  <1> QED BY <1>1, <1>2 DEF CloseWindow

(* The steps that leave the handover alone. *)
LEMMA HandshakeFrame ==
  ASSUME HandshakeInv, UNCHANGED <<sums, snapshot, intf, coldStart, flag>>,
         pc' = pc \/ pc' # "busy"
  PROVE  HandshakeInv'
  BY DEF HandshakeInv, SnapshotOfOneWindow

(* Every step respects the protocol 0, 9, 1 of the flag.                   *)
LEMMA HandshakeStep ==
  TypeOK /\ StopInv /\ HandshakeInv /\ [Next]_vars => HandshakeInv'
  <1> SUFFICES ASSUME TypeOK, StopInv, HandshakeInv, [Next]_vars
               PROVE HandshakeInv'
    OBVIOUS
  <1>n. NCSTART \in Nat \ {0} BY RouterAssumption
  <1>c. coldStart \in 0..NCSTART BY DEF TypeOK, CycleTypeOK
  <1>f. flag \in {0, 1, 9} BY DEF TypeOK, StatsTypeOK
  <1> USE DEF SnapshotOfOneWindow
  <1>1. CASE Tick BY <1>1 DEF Tick, HandshakeInv
  <1>2. CASE Adc
    <2> USE DEF HandshakeInv
    <2>1. CASE AdcBegin BY <2>1 DEF AdcBegin
    <2>2. CASE AdcCurrent BY <2>2, <1>f DEF AdcCurrent, TransferSums
    <2>3. CASE AdcVoltage BY <2>3, <1>f DEF AdcVoltage, TransferSums
    <2> QED BY <1>2, <2>1, <2>2, <2>3 DEF Adc
  <1>3. CASE ColdCrossing
    <2>1. pc # "busy" BY <1>3 DEF ColdCrossing, StopInv
    <2> QED BY <1>3, <2>1 DEF ColdCrossing, HandshakeInv
  <1>4. CASE AcceptedCrossing
    <2>1. flag # 9 /\ coldStart = 0 /\ coldStart' = 0 /\ intf' = FALSE
      BY <1>4 DEF AcceptedCrossing, HandshakeInv
    <2>2. statsSumP' = statsSumP /\ statsSamples' = statsSamples /\ pc' = pc
      BY <1>4 DEF AcceptedCrossing
    <2>3. CASE CloseWindow /\ flag = 0
      BY <2>1, <2>2, <2>3, CloseIsPure DEF HandshakeInv
    <2>4. CASE CloseWindow /\ flag = 1
      BY <2>1, <2>2, <2>4 DEF CloseWindow, HandshakeInv
    <2>5. CASE ~CloseWindow
      BY <1>4, <2>1, <2>2, <2>5 DEF AcceptedCrossing, HandshakeInv
    <2> QED BY <2>1, <2>3, <2>4, <2>5, <1>f
  <1>5. CASE RefusedCrossing BY <1>5 DEF RefusedCrossing, HandshakeInv
  <1>6. CASE Timer1Compare \/ Timer1Overflow
    <2>1. UNCHANGED <<sums, snapshot, intf, coldStart, flag, pc>>
      BY <1>6 DEF Timer1Compare, Timer1Overflow
    <2> QED BY <2>1, HandshakeFrame
  <1>7. CASE Loop
    <2> USE DEF Goto
    <2>1. CASE SyncLost \/ SyncKept
      BY <2>1, HandshakeFrame DEF SyncLost, SyncKept
    <2>2. CASE StatsTest BY <2>2 DEF StatsTest, HandshakeInv
    <2>3. CASE StatsDone BY <2>3 DEF StatsDone, HandshakeInv
    <2>4. CASE ChangeMode \/ SaveMode \/ Saved
      BY <2>4, HandshakeFrame DEF ChangeMode, SaveMode, Saved
    <2>5. CASE CommandsDone \/ Reset \/ FatalTest
      BY <2>5, HandshakeFrame DEF CommandsDone, Reset, FatalTest
    <2> QED BY <1>7, <2>1, <2>2, <2>3, <2>4, <2>5 DEF Loop
  <1>8. CASE StopPVR
    BY <1>8, HandshakeFrame DEF StopPVR, StopAdc, StopInt1, StopTimer,
       StopTriac, Goto
  <1>9. CASE StartPVR
    <2> USE DEF Goto
    <2>1. CASE StartMasked
      BY <2>1, <1>n DEF StartMasked, HandshakeInv
    <2>2. CASE StartAdc \/ WarmedUp
      BY <2>2, HandshakeFrame DEF StartAdc, WarmedUp
    <2> QED BY <1>9, <2>1, <2>2 DEF StartPVR
  <1>10. CASE UNCHANGED vars BY <1>10 DEF HandshakeInv
  <1> QED BY <1>1, <1>2, <1>3, <1>4, <1>5, <1>6, <1>7, <1>8, <1>9, <1>10
          DEF Next, Interrupt, Crossing

(* The protocol of the flag is never broken.                               *)
LEMMA HandshakeAlways == Spec => []HandshakeInv
  <1>1. Init => HandshakeInv
    BY DEF Init, HandshakeInv, SnapshotOfOneWindow
  <1> QED BY <1>1, HandshakeStep, Typing, StopAlways, PTL DEF Spec

(* The two parts of a snapshot, copied by two interrupt routines, always   *)
(* speak of the same window.                                               *)
THEOREM SnapshotIntegrity == Spec => []SnapshotOfOneWindow
  <1>1. HandshakeInv => SnapshotOfOneWindow BY DEF HandshakeInv
  <1> QED BY <1>1, HandshakeAlways, PTL

(* While loop reads the snapshot no interrupt routine writes it. *)
THEOREM SnapshotUndisturbed == Spec => SnapshotStable
  <1>1. ASSUME StopInv, HandshakeInv, [Next]_vars, pc = "busy"
        PROVE UNCHANGED snapshot
    <2>1. flag = 1 BY <1>1 DEF HandshakeInv
    <2> QED
      BY <1>1, <2>1 DEF Next, Interrupt, Crossing, Adc, Loop, StopPVR,
         StartPVR, Tick, AdcBegin, AdcCurrent, AdcVoltage, TransferSums,
         ColdCrossing, AcceptedCrossing, CloseWindow, RefusedCrossing,
         Timer1Compare, Timer1Overflow, SyncLost, SyncKept, StatsTest,
         StatsDone, ChangeMode, SaveMode, Saved, CommandsDone, Reset,
         FatalTest, StopAdc, StopInt1, StopTimer, StopTriac, StartMasked,
         StartAdc, WarmedUp
  <1> QED
    BY <1>1, StopAlways, HandshakeAlways, PTL DEF Spec, SnapshotStable

(* Every step keeps the record of a loss until the restart that it asks.   *)
LEMMA LossStep == TypeOK /\ StopInv /\ LossInv /\ [Next]_vars => LossInv'
  <1> SUFFICES ASSUME TypeOK, StopInv, LossInv, [Next]_vars PROVE LossInv'
    OBVIOUS
  <1>c. coldStart \in 0..NCSTART /\ NCSTART \in Nat \ {0}
    BY RouterAssumption DEF TypeOK, CycleTypeOK
  <1> USE DEF LossInv
  <1>1. CASE Tick BY <1>1 DEF Tick
  <1>2. CASE Adc
    BY <1>2 DEF Adc, AdcBegin, AdcCurrent, AdcVoltage, TransferSums
  <1>3. CASE Crossing
    <2>1. CASE ColdCrossing BY <2>1 DEF ColdCrossing
    <2>2. CASE AcceptedCrossing /\ CloseWindow
      BY <2>2 DEF AcceptedCrossing, CloseWindow
    <2>3. CASE AcceptedCrossing /\ ~CloseWindow
      BY <2>3 DEF AcceptedCrossing
    <2>4. CASE RefusedCrossing BY <2>4 DEF RefusedCrossing
    <2> QED BY <1>3, <2>1, <2>2, <2>3, <2>4 DEF Crossing
  <1>4. CASE Timer1Compare \/ Timer1Overflow
    BY <1>4 DEF Timer1Compare, Timer1Overflow
  <1>5. CASE SyncLost
    <2>1. coldStart = 0 BY <1>5, <1>c DEF SyncLost, Goto, StopInv
    <2> QED BY <1>5, <2>1 DEF SyncLost
  <1>6. CASE Loop /\ ~SyncLost
    BY <1>6 DEF Loop, SyncKept, StatsTest, StatsDone, ChangeMode, SaveMode,
       Saved, CommandsDone, Reset, FatalTest
  <1>7. CASE StopPVR \/ StartPVR
    BY <1>7 DEF StopPVR, StopAdc, StopInt1, StopTimer, StopTriac, StartPVR,
       StartMasked, StartAdc, WarmedUp
  <1>8. CASE UNCHANGED vars BY <1>8
  <1> QED BY <1>1, <1>2, <1>3, <1>4, <1>5, <1>6, <1>7, <1>8
          DEF Next, Interrupt

(* A loss of the mains found by loop is still on record when the test for  *)
(* fatalError comes, whichever windows close in between.                   *)
THEOREM LossNotForgotten == Spec => []LossReported
  <1>1. Init => LossInv BY DEF Init, LossInv
  <1>2. LossInv => LossReported BY DEF LossInv, LossReported
  <1> QED BY <1>1, <1>2, LossStep, Typing, StopAlways, PTL DEF Spec

----------------------------------------------------------------------------
(* The gate on clean mains.                                                *)

(* The mains alternates at HalfPeriod, a pulse ends two ticks before its   *)
(* next zero at the latest (148 of 156 counts), and no interrupt waits for *)
(* the main program.                                                       *)
RegularMains ==
  /\ CleanMains /\ MaxMask = 0
  /\ PULSE_END \in 1..(HalfPeriod - 2)

(* Time passes only when nothing is pending, or within a conversion that   *)
(* began with nothing pending.                                             *)
LEMMA TickIsQuiet ==
  ASSUME RegularMains, ProgramTypeOK, SamplingInv, Tick
  PROVE  /\ ~intf /\ ~ocf /\ ~tov /\ intf' = intf
         /\ adc = "busy" \/ (adc = "idle" /\ (sampled \/ ~adcOn))
  <1>1. ~(masked /\ maskTicks < MaxMask)
    BY DEF RegularMains, ProgramTypeOK
  <1>2. intf' = intf
    BY DEF Tick
  <1>3. CASE Quiet /\ (sampled \/ ~adcOn)
    BY <1>2, <1>3 DEF Quiet, Serving
  <1>4. CASE ~masked /\ adc = "busy"
    BY <1>2, <1>4 DEF SamplingInv
  <1> QED BY <1>1, <1>3, <1>4 DEF Tick

(* The polarity changes when the phase returns to 0, and only then.        *)
LEMMA PhaseStep ==
  ASSUME RegularMains, LineTypeOK, Tick
  PROVE  /\ phase \in Nat /\ phase' \in Nat
         /\ phase' = 0 \/ (phase' = phase + 1 /\ sign' = sign)
         /\ phase + 1 < HalfPeriod => phase' = phase + 1 /\ sign' = sign
         /\ sync' = sync
  <1>1. HalfPeriod \in Nat /\ 2 < HalfPeriod /\ phase \in 0..(HalfPeriod - 1)
    BY RouterAssumption DEF RegularMains, LineTypeOK
  <1>2. phase' = (phase + 1) % HalfPeriod /\ sync' = sync
    BY DEF Tick, RegularMains
  <1>3. sign' = (sign # (phase' = 0))
    BY DEF Tick, RegularMains
  <1>4. phase + 1 < HalfPeriod => phase' = phase + 1
    BY <1>1, <1>2
  <1>5. phase + 1 = HalfPeriod => phase' = 0
    BY <1>1, <1>2
  <1>6. phase' # 0 => sign' = sign
    BY <1>3, Zenon DEF LineTypeOK
  <1> QED BY <1>1, <1>2, <1>4, <1>5, <1>6

(* Every step keeps the sampling in pace with the mains.                   *)
LEMMA SamplingStep ==
  RegularMains /\ TypeOK /\ StopInv /\ SamplingInv /\ [Next]_vars => SamplingInv'
  <1> SUFFICES ASSUME RegularMains, TypeOK, StopInv, SamplingInv, [Next]_vars
               PROVE  SamplingInv'
    OBVIOUS
  <1>n. NCSTART \in Nat \ {0} /\ coldStart \in 0..NCSTART
    BY RouterAssumption DEF TypeOK, CycleTypeOK
  <1>t. /\ adc \in {"idle", "busy", "late"} /\ channel \in {"I", "V"}
        /\ phase \in Nat /\ HalfPeriod \in Nat /\ 2 < HalfPeriod
    BY RouterAssumption DEF TypeOK, LineTypeOK, RegularMains
  <1>1. CASE Tick
    <2>1. /\ ~intf /\ ~ocf /\ ~tov /\ intf' = intf
          /\ adc = "busy" \/ (adc = "idle" /\ (sampled \/ ~adcOn))
      BY <1>1, TickIsQuiet DEF TypeOK
    <2>2. /\ adc' = (IF adc = "busy" THEN "late" ELSE adc) /\ sampled' = FALSE
          /\ UNCHANGED <<channel, adcOn, coldStart, pc>>
      BY <1>1 DEF Tick
    <2>3. adc' # "busy" /\ channel' = channel
      BY <2>1, <2>2
    <2>4. ASSUME adcOn', sync' # sign', coldStart' # NCSTART \/ intf'
          PROVE  phase' <= Lag'
      <3>1. adcOn /\ coldStart # NCSTART
        BY <2>1, <2>2, <2>4
      <3>2. Lag' = (IF channel = "V" THEN 1 ELSE 0) + (IF adc = "busy" THEN 1 ELSE 0)
        BY <2>1, <2>2, <1>t DEF Lag
      <3>3. Lag' \in Nat
        BY <3>2
      <3>4. CASE phase' = 0
        BY <3>3, <3>4
      <3>5. CASE phase' # 0
        <4>1. phase' = phase + 1 /\ sign' = sign /\ sync' = sync
          BY <1>1, <3>5, PhaseStep DEF TypeOK
        <4>2. ~sampled /\ phase <= Lag
          BY <3>1, <2>4, <4>1 DEF SamplingInv
        <4>3. adc = "busy" /\ Lag = (IF channel = "V" THEN 1 ELSE 0)
          BY <2>1, <3>1, <4>2 DEF Lag
        <4> QED BY <1>t, <3>2, <4>1, <4>2, <4>3
      <3> QED BY <3>4, <3>5
    <2> QED BY <2>1, <2>2, <2>3, <2>4 DEF SamplingInv
  <1>2. CASE AdcBegin
    <2>1. Lag' = Lag
      BY <1>2, <1>t DEF AdcBegin, Quiet, Serving, Lag
    <2> QED BY <1>2, <2>1 DEF AdcBegin, Quiet, Serving, SamplingInv
  <1>3. CASE AdcCurrent
    <2>1. Lag \in Nat /\ Lag <= Lag'
      BY <1>3, <1>t DEF AdcCurrent, Lag
    <2>2. Lag' \in Nat
      BY <1>3, <1>t DEF AdcCurrent, Lag
    <2> QED BY <1>3, <1>t, <2>1, <2>2 DEF AdcCurrent, SamplingInv
  <1>4. CASE AdcVoltage
    <2>1. /\ sync' = sign /\ sign' = sign /\ phase' = phase /\ adc' = "idle"
          /\ channel' = "I" /\ UNCHANGED <<coldStart, pc, adcOn>>
      BY <1>4 DEF AdcVoltage, RegularMains
    <2>2. adcOn /\ Lag <= 2 /\ Lag \in Nat
      BY <1>4, <1>t DEF AdcVoltage, StopInv, Lag
    <2>3. intf' => intf \/ sync # sign
      BY <1>4, <2>1 DEF AdcVoltage
    <2>4. intf' /\ coldStart' = 0 => phase' <= 2
      BY <2>1, <2>2, <2>3, <1>n, <1>t DEF SamplingInv
    <2> QED BY <2>1, <2>4 DEF SamplingInv
  <1>5. CASE Crossing
    <2>1. UNCHANGED <<phase, sign, sync, sampled, adc, channel, adcOn, pc, tov, ocf>>
          /\ intf /\ intf' = FALSE /\ Lag' = Lag
      BY <1>5 DEF Crossing, ColdCrossing, AcceptedCrossing, RefusedCrossing, Lag
    <2>2. pc # "startAdc"
      BY <2>1 DEF StopInv
    <2> QED BY <2>1, <2>2 DEF SamplingInv
  <1>6. CASE Timer1Compare \/ Timer1Overflow
    BY <1>6 DEF Timer1Compare, Timer1Overflow, SamplingInv, Lag
  <1>7. CASE Loop
    BY <1>7 DEF Loop, SyncLost, SyncKept, StatsTest, StatsDone, ChangeMode,
       SaveMode, Saved, CommandsDone, Reset, FatalTest, Goto, SamplingInv, Lag
  <1>8. CASE StopPVR
    BY <1>8 DEF StopPVR, StopAdc, StopInt1, StopTimer, StopTriac, Goto,
       SamplingInv, Lag
  <1>9. CASE StartPVR
    <2>1. CASE StartMasked
      BY <2>1 DEF StartMasked, Goto, Quiet, SamplingInv, Lag
    <2>2. CASE StartAdc
      BY <2>2 DEF StartAdc, Goto, Quiet, SamplingInv, Lag
    <2>3. CASE WarmedUp
      BY <2>3 DEF WarmedUp, Goto, SamplingInv, Lag
    <2> QED BY <1>9, <2>1, <2>2, <2>3 DEF StartPVR
  <1>10. CASE UNCHANGED vars BY <1>10 DEF SamplingInv, Lag
  <1> QED BY <1>1, <1>2, <1>3, <1>4, <1>5, <1>6, <1>7, <1>8, <1>9, <1>10
          DEF Next, Interrupt, Adc

(* A delay is reached by the count before PULSE_END, and the pulse it      *)
(* starts is loaded without wrapping round.                                *)
LEMMA DelayRange ==
  ASSUME NEW d \in Delays
  PROVE  /\ d \in Nat /\ 1 <= d /\ d < PULSE_END /\ d # NoDelay
         /\ PULSE_END \in Nat /\ 2 * PULSE_END < Word
         /\ (Word - 1 - (PULSE_END - d)) % Word = Word - 1 - (PULSE_END - d)
  <1>1. /\ d \in Nat /\ 1 <= d /\ d < PULSE_END /\ PULSE_END \in Nat
        /\ PULSE_END < NoDelay /\ d # NoDelay
    BY RouterAssumption
  <1>2. 2 * PULSE_END < Word /\ Word \in Nat
    BY <1>1 DEF NoDelay, Word
  <1>3. ASSUME NEW w \in Nat, NEW x \in 0..(w - 1) PROVE x % w = x
    BY <1>3
  <1>4. Word - 1 - (PULSE_END - d) \in 0..(Word - 1)
    BY <1>1, <1>2
  <1> QED BY <1>1, <1>2, <1>3, <1>4

(* One more count of Timer1, in a half cycle to be routed.                 *)
LEMMA TickInHalfCycle ==
  ASSUME RegularMains, TypeOK, SamplingInv, GateInv, Tick, timer
  PROVE  Counting' \/ Pulsing'
  <1>1. /\ ~intf /\ ~ocf /\ ~tov /\ intf' = intf
    BY TickIsQuiet DEF TypeOK
  <1>2. /\ ocr1a \in Nat /\ 1 <= ocr1a /\ ocr1a < PULSE_END /\ PULSE_END \in Nat
        /\ 2 * PULSE_END < Word /\ Word \in Nat
        /\ HalfPeriod \in Nat /\ PULSE_END + 2 <= HalfPeriod
    <2>1. ocr1a \in Delays
      BY DEF GateInv
    <2>2. HalfPeriod \in Nat /\ PULSE_END + 2 <= HalfPeriod
      BY RouterAssumption DEF RegularMains
    <2> QED BY <2>1, <2>2, DelayRange, WordRange
  <1>3. tcnt \in 0..(Word - 1) /\ phase \in Nat
    BY DEF TypeOK, TimerTypeOK, LineTypeOK
  <1>4. /\ tcnt' = (tcnt + 1) % Word /\ ocr1a' = ocr1a /\ triac' = triac
        /\ ocf' = (ocf \/ (timer /\ tcnt' = ocr1a))
        /\ tov' = (tov \/ (timer /\ tcnt' = 0))
    BY DEF Tick
  <1>5. IF tcnt + 1 = Word THEN tcnt' = 0 ELSE tcnt' = tcnt + 1
    <2>1. ASSUME NEW w \in Nat, NEW x \in 0..(w - 1)
          PROVE  (x + 1) % w = IF x + 1 = w THEN 0 ELSE x + 1
      BY <2>1
    <2> QED BY <1>2, <1>3, <1>4, <2>1
  <1>6. CASE Counting
    <2>1. /\ tcnt < ocr1a /\ tcnt <= phase /\ phase <= tcnt + 2 /\ sync = sign
          /\ ~triac
      BY <1>1, <1>2, <1>3, <1>6 DEF Counting
    <2>2. tcnt' = tcnt + 1 /\ phase + 1 < HalfPeriod
      BY <1>2, <1>3, <1>5, <2>1
    <2>3. phase' = phase + 1 /\ sign' = sign /\ sync' = sync
      BY <2>2, PhaseStep DEF TypeOK
    <2>4. ocf' <=> tcnt' = ocr1a'
      BY <1>1, <1>4
    <2>5. tcnt' <= ocr1a' /\ tcnt' <= phase' /\ phase' <= tcnt' + 2
      BY <1>2, <1>3, <1>4, <2>1, <2>2, <2>3
    <2> QED BY <1>1, <1>4, <2>1, <2>3, <2>4, <2>5 DEF Counting
  <1>7. CASE Pulsing
    <2>1. triac /\ Word - tcnt <= PULSE_END
      BY <1>1, <1>7 DEF Pulsing
    <2>2. tcnt' = 0 \/ Word - tcnt' <= PULSE_END
      BY <1>2, <1>3, <1>5, <2>1
    <2>3. tcnt' # ocr1a
      BY <1>2, <1>3, <1>5, <2>1
    <2>4. triac' /\ ~ocf' /\ (tcnt' = 0 => tov')
      BY <1>1, <1>4, <2>1, <2>3
    <2> QED BY <2>2, <2>4 DEF Pulsing
  <1> QED BY <1>6, <1>7 DEF GateInv

(* Every step keeps Timer1 in pace with the half cycle it was started in.  *)
LEMMA GateStep ==
  RegularMains /\ TypeOK /\ StopInv /\ SamplingInv /\ GateInv /\ [Next]_vars
    => GateInv'
  <1> SUFFICES ASSUME RegularMains, TypeOK, StopInv, SamplingInv, GateInv,
                      [Next]_vars
               PROVE  GateInv'
    OBVIOUS
  <1>t. /\ NCSTART \in Nat \ {0} /\ coldStart \in 0..NCSTART
        /\ phase \in Nat /\ tcnt \in Nat
    BY RouterAssumption, WordRange
       DEF TypeOK, CycleTypeOK, LineTypeOK, TimerTypeOK
  <1>1. CASE Tick
    <2>1. UNCHANGED <<timer, triac, ocr1a, command, pc>>
      BY <1>1 DEF Tick
    <2>2. timer => Counting' \/ Pulsing'
      BY <1>1, TickInHalfCycle
    <2>3. ocf' => timer
      BY <1>1 DEF Tick, GateInv
    <2> QED BY <2>1, <2>2, <2>3 DEF GateInv
  <1>2. CASE Adc
    <2>1. UNCHANGED <<timer1, command, pc, sign, phase>>
      BY <1>2, Zenon DEF Adc, AdcBegin, AdcCurrent, AdcVoltage, RegularMains
    <2>2. sync' = sync \/ sync' = sign
      BY <1>2 DEF Adc, AdcBegin, AdcCurrent, AdcVoltage, RegularMains
    <2>3. sync' = sync => intf' = intf
      BY <1>2 DEF Adc, AdcBegin, AdcCurrent, AdcVoltage, TypeOK, LineTypeOK
    <2> QED BY <2>1, <2>2, <2>3 DEF GateInv, Counting, Pulsing
  <1>3. CASE ColdCrossing
    BY <1>3, <1>t DEF ColdCrossing, StopInv, GateInv
  <1>4. CASE AcceptedCrossing
    <2>1. PICK delay \in Delays \cup {NoDelay}, cool, inhibited \in BOOLEAN :
            Fire(delay, cool, inhibited)
      BY <1>4 DEF AcceptedCrossing
    <2>2. sync = sign /\ phase <= 2 /\ intf
      BY <1>4 DEF AcceptedCrossing, SamplingInv
    <2>3. ~ocf
      BY <2>2 DEF GateInv, Counting, Pulsing
    <2>4. UNCHANGED <<sync, sign, phase, ocf, tov, pc>> /\ intf' = FALSE
      BY <1>4 DEF AcceptedCrossing
    <2>5. /\ triac' => command' = "full"
          /\ timer' => command' = "linear" /\ ~triac' /\ delay # NoDelay
          /\ tcnt' = 0 /\ ocr1a' = delay
      BY <2>1 DEF Fire
    <2>6. ASSUME timer' PROVE ocr1a' \in Delays /\ Counting'
      <3>1. delay \in Delays
        BY <2>5, <2>6
      <3>2. tcnt' <= ocr1a' /\ tcnt' # ocr1a'
        BY <2>5, <3>1, DelayRange
      <3>3. tcnt' <= phase' /\ phase' <= tcnt' + 2
        BY <1>t, <2>2, <2>4, <2>5
      <3> QED BY <2>2, <2>3, <2>4, <2>5, <2>6, <3>1, <3>2, <3>3 DEF Counting
    <2> QED BY <2>3, <2>4, <2>5, <2>6 DEF GateInv
  <1>5. CASE RefusedCrossing
    BY <1>5 DEF RefusedCrossing, GateInv, Counting, Pulsing
  <1>6. CASE Timer1Compare
    <2>1. timer /\ ocf /\ ocr1a \in Delays /\ command = "linear"
      BY <1>6 DEF Timer1Compare, GateInv
    <2>2. /\ triac' = TRUE /\ ocf' = FALSE /\ tcnt' = PulseLoad
          /\ UNCHANGED <<timer, ocr1a, command, pc>>
      BY <1>6 DEF Timer1Compare
    <2>3. Word - tcnt' <= PULSE_END
      BY <2>1, <2>2, DelayRange, WordRange
    <2> QED BY <2>1, <2>2, <2>3 DEF GateInv, Pulsing
  <1>7. CASE Timer1Overflow
    BY <1>7 DEF Timer1Overflow, GateInv
  <1>8. CASE Loop
    <2>1. /\ UNCHANGED <<timer1, intf, sync, sign, phase, command>>
          /\ pc # "stopTriac"
      BY <1>8 DEF Loop, SyncLost, SyncKept, StatsTest, StatsDone, ChangeMode,
         SaveMode, Saved, CommandsDone, Reset, FatalTest, Goto
    <2> QED BY <2>1 DEF GateInv, Counting, Pulsing
  <1>9. CASE StopPVR
    <2>1. CASE StopAdc \/ StopInt1
      BY <2>1 DEF StopAdc, StopInt1, Goto, GateInv, Counting, Pulsing
    <2>2. CASE StopTimer
      BY <2>2 DEF StopTimer, Goto, Quiet, GateInv
    <2>3. CASE StopTriac
      BY <2>3 DEF StopTriac, Goto, Quiet, StopInv, GateInv
    <2> QED BY <1>9, <2>1, <2>2, <2>3 DEF StopPVR
  <1>10. CASE StartPVR
    <2>1. CASE StartMasked
      BY <2>1 DEF StartMasked, Goto, Quiet, GateInv
    <2>2. CASE StartAdc \/ WarmedUp
      BY <2>2 DEF StartAdc, WarmedUp, Goto, GateInv, Counting, Pulsing
    <2> QED BY <1>10, <2>1, <2>2 DEF StartPVR
  <1>11. CASE UNCHANGED vars BY <1>11 DEF GateInv, Counting, Pulsing
  <1> QED BY <1>1, <1>2, <1>3, <1>4, <1>5, <1>6, <1>7, <1>8, <1>9, <1>10,
             <1>11 DEF Next, Interrupt, Crossing

(* On regular mains, with the interrupts served in time, the gate follows  *)
(* the command of its half cycle: no compare is still pending when the     *)
(* next crossing chooses another, and the pulse ends with the count that   *)
(* the compare routine has loaded.  A pulse that ended one tick later      *)
(* could be carried into the next half cycle.                              *)
THEOREM GateOfItsHalfCycle ==
  ASSUME RegularMains
  PROVE  Spec => []GateFollowsCommand
  <1>1. Init => SamplingInv /\ GateInv
    BY DEF Init, SamplingInv, GateInv
  <1>2. GateInv => GateFollowsCommand
    BY DEF GateInv, Counting, Pulsing, GateFollowsCommand
  <1>3. TypeOK /\ StopInv /\ SamplingInv /\ GateInv /\ [Next]_vars
          => SamplingInv' /\ GateInv'
    BY SamplingStep, GateStep
  <1> QED BY <1>1, <1>2, <1>3, Typing, StopAlways, PTL DEF Spec
=============================================================================
