---------------------------- MODULE EnergyProofs ----------------------------
(***************************************************************************)
(* The energy counters and the daily limit (module Energy), for every set  *)
(* of counters, every increment, every limit and every rate.               *)
(***************************************************************************)
EXTENDS Energy, TLAPS

USE DEF control, windows, today, counters

(* The constants of a counter are numbers. *)
LEMMA Numbers ==
  ASSUME NEW c \in Channels
  PROVE  /\ Quantum[c] \in Int /\ Quantum[c] >= 1
         /\ MaxRate[c] \in Int /\ MaxRate[c] >= 0 /\ MaxRate[c] <= Quantum[c]
  BY EnergyAssumption

(* What a second adds to a counter is at most its rate. *)
LEMMA AmountTyped ==
  ASSUME NEW e \in Amounts, Possible(e), NEW c \in Channels
  PROVE  e[c] \in Int /\ 0 <= e[c] /\ e[c] <= MaxRate[c]
<1>1. e[c] \in UNION {0..MaxRate[d] : d \in Channels}
  BY DEF Amounts
<1>2. PICK d \in Channels : e[c] \in 0..MaxRate[d]
  BY <1>1
<1>3. e[c] \in Int /\ 0 <= e[c]
  BY <1>2, Numbers
<1> QED
  BY <1>3 DEF Possible

(* Every counter's type, one channel at a time. *)
LEMMA ChannelTyped ==
  ASSUME TypeOK, NEW c \in Channels
  PROVE  /\ acc[c] \in Int /\ -Quantum[c] <= acc[c] /\ acc[c] <= -1
         /\ index[c] \in Int /\ saved[c] \in Int /\ energy[c] \in Int
<1>1. acc[c] \in -Quantum[c]..-1
  BY DEF TypeOK
<1>2. index[c] \in Int /\ saved[c] \in Int /\ energy[c] \in Int
  BY DEF TypeOK
<1> QED
  BY <1>1, <1>2, Numbers

(* One subtraction is enough: an accumulator is negative again. *)
LEMMA AccProcessed ==
  ASSUME TypeOK, NEW e \in Amounts, Process(e), NEW c \in Channels
  PROVE  /\ e[c] \in Int /\ 0 <= e[c] /\ e[c] <= MaxRate[c]
         /\ acc'[c] \in Int /\ -Quantum[c] <= acc'[c] /\ acc'[c] <= -1
         /\ energy'[c] = energy[c] + e[c]
         /\ \/ acc'[c] = acc[c] + e[c] - Quantum[c] /\ index'[c] = index[c] + 1
            \/ acc'[c] = acc[c] + e[c] /\ index'[c] = index[c]
<1>1. e[c] \in Int /\ 0 <= e[c] /\ e[c] <= MaxRate[c]
  BY AmountTyped DEF Process
<1>2. energy'[c] = energy[c] + e[c]
  BY DEF Process
<1>3. CASE acc[c] + e[c] >= 0
  <2>1. acc'[c] = acc[c] + e[c] - Quantum[c] /\ index'[c] = index[c] + 1
    BY <1>3 DEF Process, Passed
  <2> QED
    BY <1>1, <1>2, <1>3, <2>1, ChannelTyped, Numbers
<1>4. CASE ~(acc[c] + e[c] >= 0)
  <2>1. acc'[c] = acc[c] + e[c] - 0 /\ index'[c] = index[c] + 0
    BY <1>4 DEF Process, Passed
  <2> QED
    BY <1>1, <1>2, <1>4, <2>1, ChannelTyped, Numbers
<1> QED
  BY <1>3, <1>4

(* The accumulators of a router that starts, and what its indexes stand    *)
(* for.                                                                    *)
LEMMA StartTyped ==
  /\ Empty \in [Channels -> Int]
  /\ \A c \in Channels : Empty[c] = -Quantum[c] /\ Empty[c] \in -Quantum[c]..-1
<1>1. \A c \in Channels : Quantum[c] \in Int /\ Quantum[c] >= 1
  BY Numbers
<1> QED
  BY <1>1 DEF Empty

(* Facts about products, for the provers. *)
LEMMA Products ==
  ASSUME NEW a \in Int, NEW b \in Int
  PROVE  a * b \in Int /\ (a + 1) * b = a * b + b /\ 0 * b = 0
  OBVIOUS

(* Products keep the order. *)
LEMMA ProductOrder ==
  ASSUME NEW a \in Int, NEW b \in Int, NEW q \in Int, q >= 0, a <= b
  PROVE  a * q <= b * q
  OBVIOUS

(* The energy of whole increments. *)
LEMMA WholeTyped ==
  ASSUME NEW i \in [Channels -> Int]
  PROVE  /\ Whole(i) \in [Channels -> Int]
         /\ \A c \in Channels : Whole(i)[c] = i[c] * Quantum[c]
<1>1. \A c \in Channels : Quantum[c] \in Int /\ i[c] \in Int
  BY Numbers
<1>2. ASSUME NEW c \in Channels PROVE i[c] * Quantum[c] \in Int
  <2>1. i[c] \in Int /\ Quantum[c] \in Int
    BY <1>1
  <2> QED
    BY <2>1, Products
<1> QED
  BY <1>2 DEF Whole

----------------------------------------------------------------------------
(* setup gives every variable a value of its type. *)
LEMMA SetupTyped ==
  ASSUME TypeOK, Setup, saved' \in [Channels -> Int], torn' \subseteq Channels
  PROVE  TypeOK'
<1>1. energy' \in [Channels -> Int] /\ index' \in [Channels -> Int]
  BY WholeTyped DEF Setup
<1>2. acc' \in [Channels -> Int] /\ \A c \in Channels : acc'[c] \in -Quantum[c]..-1
  BY StartTyped DEF Setup
<1>3. indexJ' \in Nat /\ dayEnergy' \in Nat /\ restarts' \in Nat
  BY DEF Setup, LimitAgain, TypeOK
<1>4. nbHours' \in 0..NbHours
  BY EnergyAssumption DEF Setup, TypeOK
<1> QED
  BY <1>1, <1>2, <1>3, <1>4 DEF Setup, TypeOK, Full, Fired

(* The hours counted by the scheduler stay in their ranges. *)
LEMMA HoursTyped ==
  ASSUME TypeOK, NEW top \in BOOLEAN, HourlySave(top)
  PROVE  /\ saved' \in [Channels -> Int]
         /\ nbHours' \in 0..NbHours
  BY EnergyAssumption DEF HourlySave, TypeOK

(* A write that is cut leaves numbers; but in the index that is torn they  *)
(* are those saved before, those counted, or zero.                         *)
LEMMA CutLeaves ==
  ASSUME TypeOK, CutWhileWriting
  PROVE  /\ saved' \in [Channels -> Int] /\ Setup
         /\ torn' = {} \/ \E c \in Channels : torn' = {c}
         /\ \A c \in Channels :
              c \in torn' \/ saved'[c] \in {0, saved[c], index[c]}
<1>1. PICK written \in SUBSET Channels : \E zeros \in BOOLEAN :
        LET new(c) == IF zeros THEN 0 ELSE index[c]
            kept   == [c \in Channels |-> IF c \in written THEN new(c) ELSE saved[c]]
        IN  \/ saved' = kept /\ torn' = {}
            \/ \E c \in Channels, g \in Garbage :
                 /\ saved[c] # new(c)
                 /\ saved' = [kept EXCEPT ![c] = g] /\ torn' = {c}
  BY DEF CutWhileWriting
<1>2. PICK zeros \in BOOLEAN :
        LET new(c) == IF zeros THEN 0 ELSE index[c]
            kept   == [c \in Channels |-> IF c \in written THEN new(c) ELSE saved[c]]
        IN  \/ saved' = kept /\ torn' = {}
            \/ \E c \in Channels, g \in Garbage :
                 /\ saved[c] # new(c)
                 /\ saved' = [kept EXCEPT ![c] = g] /\ torn' = {c}
  BY <1>1
<1> DEFINE new(c) == IF zeros THEN 0 ELSE index[c]
           kept == [c \in Channels |-> IF c \in written THEN new(c) ELSE saved[c]]
<1>3. \/ saved' = kept /\ torn' = {}
      \/ \E c \in Channels : \E g \in Garbage :
           saved' = [kept EXCEPT ![c] = g] /\ torn' = {c}
  BY <1>2
<1>4. /\ kept \in [Channels -> Int]
      /\ \A c \in Channels : kept[c] \in {0, saved[c], index[c]}
  BY DEF TypeOK
<1>5. Garbage \subseteq Int
  BY EnergyAssumption
<1> HIDE DEF kept
<1>6. /\ saved' \in [Channels -> Int]
      /\ torn' = {} \/ \E c \in Channels : torn' = {c}
      /\ \A c \in Channels : c \in torn' \/ saved'[c] = kept[c]
  <2>1. CASE saved' = kept /\ torn' = {}
    BY <1>4, <2>1
  <2>2. CASE \E c \in Channels : \E g \in Garbage :
               saved' = [kept EXCEPT ![c] = g] /\ torn' = {c}
    <3>1. PICK c \in Channels : \E g \in Garbage :
               saved' = [kept EXCEPT ![c] = g] /\ torn' = {c}
      BY <2>2
    <3>2. PICK g \in Garbage : saved' = [kept EXCEPT ![c] = g] /\ torn' = {c}
      BY <3>1
    <3>3. g \in Int
      BY <1>5
    <3> QED
      BY <1>4, <3>2, <3>3
  <2> QED
    BY <1>3, <2>1, <2>2
<1>7. Setup
  BY DEF CutWhileWriting
<1> QED
  BY <1>4, <1>6, <1>7

(* No step takes a variable out of its type. *)
LEMMA EnergyTyped == TypeOK /\ [Next]_vars => TypeOK'
<1> SUFFICES ASSUME TypeOK, [Next]_vars PROVE TypeOK'
  OBVIOUS
<1>1. CASE Fire
  BY <1>1 DEF Fire, TypeOK, Fired
<1>2. CASE CloseWindow
  BY <1>2 DEF CloseWindow, TypeOK, Fired
<1>3. ASSUME NEW e \in Amounts, Process(e) PROVE TypeOK'
  <2>1. \A c \in Channels :
          /\ acc'[c] \in Int /\ acc'[c] \in -Quantum[c]..-1
          /\ index'[c] \in Int /\ energy'[c] \in Int
    <3> SUFFICES ASSUME NEW c \in Channels
                 PROVE  /\ acc'[c] \in Int /\ acc'[c] \in -Quantum[c]..-1
                        /\ index'[c] \in Int /\ energy'[c] \in Int
      OBVIOUS
    <3>1. /\ index[c] \in Int /\ energy[c] \in Int
          /\ Quantum[c] \in Int
      BY ChannelTyped, Numbers
    <3>2. acc'[c] \in Int /\ acc'[c] \in -Quantum[c]..-1
      BY <1>3, <3>1, AccProcessed
    <3>3. e[c] \in Int /\ energy'[c] = energy[c] + e[c]
      BY <1>3, AccProcessed
    <3>4. index'[c] = index[c] \/ index'[c] = index[c] + 1
      BY <1>3, AccProcessed
    <3> QED
      BY <3>1, <3>2, <3>3, <3>4
  <2>2. acc' \in [Channels -> Int]
    BY <1>3, <2>1 DEF Process
  <2>3. index' \in [Channels -> Int]
    BY <1>3, <2>1 DEF Process
  <2>4. energy' \in [Channels -> Int]
    BY <1>3, <2>1 DEF Process
  <2>5. indexJ' \in Nat
    BY <1>3 DEF Process, TypeOK
  <2>6. dayEnergy' \in Nat
    <3>1. e["routed"] \in Nat
      BY <1>3, AccProcessed, EnergyAssumption
    <3> QED
      BY <1>3, <3>1 DEF Process, TypeOK
  <2> QED
    BY <1>3, <2>1, <2>2, <2>3, <2>4, <2>5, <2>6 DEF Process, TypeOK
<1>4. ASSUME NEW top \in BOOLEAN, NEW hot \in BOOLEAN, Check(top, hot)
      PROVE  TypeOK'
  <2>1. outputfull' \in Full
    BY <1>4 DEF Check, CheckTank, TypeOK, Full
  <2> QED
    BY <1>4, <2>1, HoursTyped DEF Check, TypeOK
<1>5. ASSUME NEW m \in Modes, SetSSR(m) PROVE TypeOK'
  BY <1>5 DEF SetSSR, TypeOK
<1>6. 0 \in 0..NbHours /\ 0 \in 0..(NbHours + 1) /\ 0 \in Nat
  BY EnergyAssumption
<1>7. CASE SaveIndex
  BY <1>6, <1>7 DEF SaveIndex, IndexWrite, TypeOK
<1>8. CASE IndexZero
  <2>1. index' \in [Channels -> Int]
    BY <1>8 DEF IndexZero
  <2>2. \A c \in Channels : acc[c] + Quantum[c] \in Int
    BY ChannelTyped, Numbers
  <2>3. energy' \in [Channels -> Int]
    BY <1>8, <2>2 DEF IndexZero
  <2> QED
    BY <1>6, <1>8, <2>1, <2>3 DEF IndexZero, LimitAgain, WriteZeros, IndexWrite,
       TypeOK
<1>9. CASE Restart
  BY <1>6, <1>9 DEF Restart, IndexWrite, FullKept, TypeOK, Fired
<1>10. ASSUME NEW midnight \in BOOLEAN, ResetDay(midnight) PROVE TypeOK'
  BY <1>6, <1>10 DEF ResetDay, LimitAgain, TypeOK, Full
<1>11. CASE PowerCut
  BY <1>11, SetupTyped DEF PowerCut, TypeOK
<1>12. CASE CutWhileWriting
  BY <1>12, CutLeaves, SetupTyped
<1>13. CASE UNCHANGED vars
  BY <1>13 DEF vars, TypeOK
<1> QED
  BY <1>1, <1>2, <1>3, <1>4, <1>5, <1>7, <1>8, <1>9, <1>10, <1>11, <1>12, <1>13
     DEF Next, Second, Commands

(* The counters are whole numbers, the accumulators less than an increment *)
(* from the next one.                                                      *)
THEOREM EnergyTyping == Spec => []TypeOK
<1>1. Init => TypeOK
  <2> SUFFICES ASSUME Init PROVE TypeOK
    OBVIOUS
  <2>1. index \in [Channels -> Int] /\ saved \in [Channels -> Int]
    BY DEF Init
  <2>2. energy \in [Channels -> Int]
    BY <2>1, WholeTyped DEF Init
  <2>3. 0 \in 0..NbHours /\ 0 \in 0..(NbHours + 1) /\ 0 \in Nat
    BY EnergyAssumption
  <2> QED
    BY <2>1, <2>2, <2>3, StartTyped DEF Init, TypeOK, Full, Fired
<1> QED
  BY <1>1, EnergyTyped, PTL DEF Spec

----------------------------------------------------------------------------
(* setup starts the counters on the increments of the EEPROM. *)
LEMMA SetupCounts ==
  ASSUME TypeOK, Setup, saved' \in [Channels -> Int]
  PROVE  CountInv'
<1> SUFFICES ASSUME NEW c \in Channels
             PROVE  /\ energy'[c] = index'[c] * Quantum[c] + (acc'[c] + Quantum[c])
                    /\ saved'[c] <= index'[c]
  BY DEF CountInv
<1>1. energy'[c] = saved'[c] * Quantum[c] /\ index'[c] = saved'[c]
  BY WholeTyped DEF Setup
<1>2. acc'[c] = -Quantum[c]
  BY StartTyped DEF Setup
<1>3. saved'[c] \in Int /\ Quantum[c] \in Int
  BY Numbers
<1>4. saved'[c] * Quantum[c] \in Int
  BY <1>3, Products
<1>5. acc'[c] + Quantum[c] = 0
  BY <1>2, <1>3
<1> QED
  BY <1>1, <1>3, <1>4, <1>5

(* The accumulators hold what the indexes do not, and the EEPROM is never  *)
(* ahead of the indexes.                                                   *)
LEMMA CountStep == TypeOK /\ CountInv /\ [Next]_vars => CountInv'
<1> SUFFICES ASSUME TypeOK, CountInv, [Next]_vars PROVE CountInv'
  OBVIOUS
<1>1. ASSUME NEW e \in Amounts, Process(e) PROVE CountInv'
  <2> SUFFICES ASSUME NEW c \in Channels
               PROVE  /\ energy'[c] = index'[c] * Quantum[c]
                                        + (acc'[c] + Quantum[c])
                      /\ saved'[c] <= index'[c]
    BY DEF CountInv
  <2>1. /\ energy[c] = index[c] * Quantum[c] + (acc[c] + Quantum[c])
        /\ saved[c] <= index[c]
    BY DEF CountInv
  <2>2. /\ acc[c] \in Int /\ index[c] \in Int /\ saved[c] \in Int
        /\ Quantum[c] \in Int /\ e[c] \in Int
    BY <1>1, ChannelTyped, Numbers, AccProcessed
  <2>3. saved'[c] = saved[c] /\ energy'[c] = energy[c] + e[c]
    BY <1>1, AccProcessed DEF Process
  <2>4. /\ index[c] * Quantum[c] \in Int
        /\ (index[c] + 1) * Quantum[c] = index[c] * Quantum[c] + Quantum[c]
    BY <2>2, Products
  <2>5. CASE acc'[c] = acc[c] + e[c] - Quantum[c] /\ index'[c] = index[c] + 1
    BY <2>1, <2>2, <2>3, <2>4, <2>5
  <2>6. CASE acc'[c] = acc[c] + e[c] /\ index'[c] = index[c]
    BY <2>1, <2>2, <2>3, <2>4, <2>6
  <2> QED
    BY <1>1, <2>5, <2>6, AccProcessed
<1>2. ASSUME UNCHANGED <<energy, index, acc>>,
             saved' = saved \/ saved' = index
      PROVE  CountInv'
  <2>1. \A c \in Channels : index[c] <= index[c]
    BY ChannelTyped
  <2> QED
    BY <1>2, <2>1 DEF CountInv
<1>3. CASE IndexZero
  <2> SUFFICES ASSUME NEW c \in Channels
               PROVE  /\ energy'[c] = index'[c] * Quantum[c]
                                        + (acc'[c] + Quantum[c])
                      /\ saved'[c] <= index'[c]
    BY DEF CountInv
  <2>1. /\ energy'[c] = acc[c] + Quantum[c] /\ acc'[c] = acc[c]
        /\ index'[c] = 0 /\ saved'[c] = 0
    BY <1>3 DEF IndexZero, WriteZeros, IndexWrite
  <2>2. acc[c] \in Int /\ Quantum[c] \in Int
    BY ChannelTyped, Numbers
  <2>3. 0 * Quantum[c] = 0
    BY <2>2, Products
  <2> QED
    BY <2>1, <2>2, <2>3
<1>4. CASE PowerCut
  BY <1>4, SetupCounts DEF PowerCut, TypeOK
<1>5. CASE CutWhileWriting
  BY <1>5, CutLeaves, SetupCounts
<1>6. ASSUME NEW top, NEW hot, Check(top, hot) PROVE CountInv'
  <2>1. saved' = saved \/ saved' = index
    BY <1>6 DEF Check, HourlySave
  <2> QED
    BY <1>2, <1>6, <2>1 DEF Check
<1>7. CASE Fire \/ CloseWindow \/ SaveIndex \/ Restart
             \/ (\E midnight \in BOOLEAN : ResetDay(midnight))
             \/ UNCHANGED vars \/ \E m \in Modes : SetSSR(m)
  <2>1. UNCHANGED <<energy, index, acc>> /\ (saved' = saved \/ saved' = index)
    BY <1>7 DEF Fire, CloseWindow, SaveIndex, Restart, ResetDay, SetSSR,
                IndexWrite, vars
  <2> QED
    BY <1>2, <2>1
<1> QED
  BY <1>1, <1>3, <1>4, <1>5, <1>6, <1>7 DEF Next, Second, Commands

(* The router starts with its indexes counted. *)
LEMMA CountStart == Init => TypeOK /\ CountInv
<1> SUFFICES ASSUME Init PROVE TypeOK /\ CountInv
  OBVIOUS
<1>1. index \in [Channels -> Int] /\ saved = index /\ energy = Whole(index)
  BY DEF Init
<1>2. energy \in [Channels -> Int]
  BY <1>1, WholeTyped
<1>3. 0 \in 0..NbHours /\ 0 \in 0..(NbHours + 1) /\ 0 \in Nat
  BY EnergyAssumption
<1>4. TypeOK
  BY <1>1, <1>2, <1>3, StartTyped DEF Init, TypeOK, Full, Fired
<1>5. ASSUME NEW c \in Channels
      PROVE  /\ energy[c] = index[c] * Quantum[c] + (acc[c] + Quantum[c])
             /\ saved[c] <= index[c]
  <2>1. energy[c] = index[c] * Quantum[c]
    BY <1>1, WholeTyped
  <2>2. acc[c] = -Quantum[c]
    BY StartTyped DEF Init
  <2>3. index[c] \in Int /\ Quantum[c] \in Int
    BY <1>1, Numbers
  <2>4. index[c] * Quantum[c] \in Int
    BY <2>3, Products
  <2>5. acc[c] + Quantum[c] = 0
    BY <2>2, <2>3
  <2> QED
    BY <1>1, <2>1, <2>3, <2>4, <2>5
<1> QED
  BY <1>4, <1>5 DEF CountInv

(* CountInv holds from there on. *)
THEOREM CountAlways == Spec => [](TypeOK /\ CountInv)
  BY CountStart, EnergyTyped, CountStep, PTL DEF Spec

(* The reading is the whole number of increments of the energy. *)
LEMMA ReadsCounted ==
  ASSUME TypeOK, CountInv, NEW c \in Channels
  PROVE  /\ index[c] * Quantum[c] <= energy[c]
         /\ energy[c] < (index[c] + 1) * Quantum[c]
<1>1. energy[c] = index[c] * Quantum[c] + (acc[c] + Quantum[c])
  BY DEF CountInv
<1>2. /\ acc[c] \in Int /\ -Quantum[c] <= acc[c] /\ acc[c] <= -1
      /\ index[c] \in Int /\ Quantum[c] \in Int
  BY ChannelTyped, Numbers
<1>3. /\ index[c] * Quantum[c] \in Int
      /\ (index[c] + 1) * Quantum[c] = index[c] * Quantum[c] + Quantum[c]
  BY <1>2, Products
<1> QED
  BY <1>1, <1>2, <1>3

(* A power cut of the router is one of the meter. *)
LEMMA CutOfMeter ==
  ASSUME TypeOK, CountInv, Setup, saved' \in [Channels -> Int],
         torn' = {} \/ \E c \in Channels : torn' = {c},
         \A c \in Channels : c \in torn' \/ saved'[c] \in {0, saved[c], index[c]}
  PROVE  MeterOf!PowerCut
<1> SUFFICES ASSUME NEW c \in Channels
             PROVE  /\ energy'[c] = index'[c] * Quantum[c]
                    /\ index'[c] <= index[c] \/ index'[c] = 0 \/ c \in torn'
  BY DEF MeterOf!PowerCut, MeterOf!Starts
<1>1. energy'[c] = saved'[c] * Quantum[c] /\ index' = saved'
  BY WholeTyped DEF Setup
<1>2. saved[c] <= index[c] /\ index[c] <= index[c]
  BY ChannelTyped DEF CountInv
<1> QED
  BY <1>1, <1>2

(* Every step of the router is a step of the meter, or none. *)
LEMMA MeterStep ==
  TypeOK /\ CountInv /\ TypeOK' /\ CountInv' /\ [Next]_vars
    => [MeterOf!Next]_<<energy, index, torn>>
<1> SUFFICES ASSUME TypeOK, CountInv, TypeOK', CountInv', [Next]_vars
             PROVE  [MeterOf!Next]_<<energy, index, torn>>
  OBVIOUS
<1>1. ASSUME NEW e \in Amounts, Process(e) PROVE MeterOf!Count
  <2>0. UNCHANGED torn
    BY <1>1 DEF Process
  <2> SUFFICES ASSUME NEW c \in Channels
               PROVE  /\ energy'[c] >= energy[c]
                      /\ index'[c] * Quantum[c] <= energy'[c]
                      /\ energy'[c] < (index'[c] + 1) * Quantum[c]
    BY <2>0 DEF MeterOf!Count, MeterOf!Reads
  <2>1. energy'[c] >= energy[c]
    <3>1. energy'[c] = energy[c] + e[c] /\ e[c] \in Int /\ 0 <= e[c]
      BY <1>1, AccProcessed
    <3>2. energy[c] \in Int
      BY ChannelTyped
    <3> QED
      BY <3>1, <3>2
  <2>2. ASSUME TypeOK', CountInv'
        PROVE  /\ index'[c] * Quantum[c] <= energy'[c]
               /\ energy'[c] < (index'[c] + 1) * Quantum[c]
    <3>1. energy'[c] = index'[c] * Quantum[c] + (acc'[c] + Quantum[c])
      BY <2>2 DEF CountInv
    <3>2. index'[c] \in Int /\ Quantum[c] \in Int /\ Quantum[c] >= 1
      BY <2>2, Numbers DEF TypeOK
    <3>3. acc'[c] \in Int /\ -Quantum[c] <= acc'[c] /\ acc'[c] <= -1
      BY <1>1, AccProcessed
    <3>4. /\ index'[c] * Quantum[c] \in Int
          /\ (index'[c] + 1) * Quantum[c] = index'[c] * Quantum[c] + Quantum[c]
      BY <3>2, Products
    <3> QED
      BY <3>1, <3>2, <3>3, <3>4
  <2> QED
    BY <2>1, <2>2
<1>2. CASE IndexZero
  <2>0. UNCHANGED torn
    BY <1>2 DEF IndexZero
  <2> SUFFICES ASSUME NEW c \in Channels
               PROVE  /\ index'[c] = 0
                      /\ energy'[c] = energy[c] - index[c] * Quantum[c]
    BY <2>0 DEF MeterOf!Next, MeterOf!Zero
  <2>1. index'[c] = 0 /\ energy'[c] = acc[c] + Quantum[c]
    BY <1>2 DEF IndexZero
  <2>2. energy[c] = index[c] * Quantum[c] + (acc[c] + Quantum[c])
    BY DEF CountInv
  <2>3. acc[c] \in Int /\ index[c] \in Int /\ Quantum[c] \in Int
    BY ChannelTyped, Numbers
  <2>4. index[c] * Quantum[c] \in Int
    BY <2>3, Products
  <2> QED
    BY <2>1, <2>2, <2>3, <2>4
<1>3. CASE PowerCut
  BY <1>3, CutOfMeter DEF PowerCut, TypeOK, MeterOf!Next
<1>4. CASE CutWhileWriting
  BY <1>4, CutLeaves, CutOfMeter DEF MeterOf!Next
<1>5. CASE Fire \/ CloseWindow \/ SaveIndex \/ Restart
             \/ (\E midnight \in BOOLEAN : ResetDay(midnight))
             \/ UNCHANGED vars \/ (\E m \in Modes : SetSSR(m))
             \/ (\E top, hot \in BOOLEAN : Check(top, hot))
  BY <1>5 DEF Fire, CloseWindow, SaveIndex, Restart, ResetDay, SetSSR, Check,
              vars
<1> QED
  BY <1>1, <1>2, <1>3, <1>4, <1>5 DEF Next, Second, Commands, MeterOf!Next

(* The counters implement the meter: whatever was counted, saved, reset or *)
(* cut off before, the reading is that of the energy, except for the one   *)
(* index that a power cut finds half written.                              *)
THEOREM EnergyMetered == Spec => Metered
<1>1. Init => MeterOf!Init
  <2> SUFFICES ASSUME Init PROVE MeterOf!Init
    OBVIOUS
  <2>1. TypeOK /\ energy = Whole(index)
    BY CountStart DEF Init
  <2>2. \A c \in Channels : energy[c] = index[c] * Quantum[c]
    BY <2>1, WholeTyped DEF TypeOK
  <2> QED
    BY <2>1, <2>2 DEF Init, MeterOf!Init, MeterOf!Starts, TypeOK
<1> QED
  BY <1>1, CountAlways, MeterStep, PTL DEF Spec, Metered, MeterOf!Spec

----------------------------------------------------------------------------
(* The numbers of the daily limit. *)
LEMMA DayNumbers ==
  /\ "routed" \in Channels /\ Limit \in Int /\ Limit >= 0
  /\ Quantum["routed"] \in Int /\ Quantum["routed"] >= 1
  /\ MaxRate["routed"] \in Int /\ MaxRate["routed"] >= 0
  /\ Most \in Int /\ Most >= 1
<1>1. "routed" \in Channels /\ Limit \in Int /\ Limit >= 0
  BY EnergyAssumption
<1>2. /\ Quantum["routed"] \in Int /\ Quantum["routed"] >= 1
      /\ MaxRate["routed"] \in Int /\ MaxRate["routed"] >= 0
  BY <1>1, Numbers
<1>3. 1 * Quantum["routed"] <= (Limit + 1) * Quantum["routed"]
  BY <1>1, <1>2, ProductOrder
<1>4. (Limit + 1) * Quantum["routed"] \in Int
  BY <1>1, <1>2, Products
<1> QED
  BY <1>1, <1>2, <1>3, <1>4 DEF Most

(* One allowance. *)
LEMMA AllowanceTyped ==
  /\ Allowance \in Int /\ Allowance = Most + 3 * MaxRate["routed"] /\ Allowance >= 1
  BY DayNumbers DEF Allowance

(* What is spent of the last one moves with the energy of the day, until   *)
(* the limit starts again.                                                 *)
LEMMA SpentTyped == TypeOK => Spent \in Int
<1> SUFFICES ASSUME TypeOK PROVE Spent \in Int
  OBVIOUS
<1>1. restarts \in Int /\ dayEnergy \in Int
  BY DEF TypeOK
<1>2. restarts * Allowance \in Int
  BY <1>1, AllowanceTyped, Products
<1> QED
  BY <1>1, <1>2 DEF Spent

LEMMA SpentMoves ==
  ASSUME TypeOK, TypeOK', UNCHANGED restarts
  PROVE  Spent' = Spent + (dayEnergy' - dayEnergy)
<1>1. restarts \in Int /\ dayEnergy \in Int /\ dayEnergy' \in Int
  BY DEF TypeOK
<1>2. restarts * Allowance \in Int
  BY <1>1, AllowanceTyped, Products
<1>3. Spent' = dayEnergy' - restarts * Allowance
  BY DEF Spent, Allowance, Most
<1>4. Spent = dayEnergy - restarts * Allowance
  BY DEF Spent
<1> QED
  BY <1>1, <1>2, <1>3, <1>4

LEMMA SpentAgain ==
  ASSUME TypeOK, LimitAgain, Spent < Allowance
  PROVE  Spent' <= 0
<1>1. restarts \in Int /\ dayEnergy \in Int
  BY DEF TypeOK
<1>2. /\ restarts * Allowance \in Int
      /\ (restarts + 1) * Allowance = restarts * Allowance + Allowance
  BY <1>1, AllowanceTyped, Products
<1>3. Spent' = dayEnergy - (restarts + 1) * Allowance
  BY DEF LimitAgain, Spent, Allowance, Most
<1>4. Spent = dayEnergy - restarts * Allowance
  BY DEF Spent
<1> QED
  BY <1>1, <1>2, <1>3, <1>4, AllowanceTyped

(* At most two windows are on their way to loop. *)
LEMMA PendingRange ==
  /\ Pending \in Int /\ 0 <= Pending /\ Pending <= 2 * MaxRate["routed"]
  /\ Pending' \in Int /\ 0 <= Pending' /\ Pending' <= 2 * MaxRate["routed"]
  BY DayNumbers DEF Pending

(* While the limit is not passed, the day is below it. *)
LEMMA DayBelow ==
  ASSUME TypeOK, DayInv, indexJ <= Limit
  PROVE  Spent < Most
<1>1. indexJ \in Int /\ Spent \in Int
  BY SpentTyped DEF TypeOK
<1>2. acc["routed"] \in Int /\ acc["routed"] <= -1
  BY DayNumbers, ChannelTyped
<1>3. /\ indexJ * Quantum["routed"] \in Int /\ Limit * Quantum["routed"] \in Int
      /\ indexJ * Quantum["routed"] <= Limit * Quantum["routed"]
  BY <1>1, DayNumbers, Products, ProductOrder
<1>4. Most = Limit * Quantum["routed"] + Quantum["routed"]
  BY DayNumbers, Products DEF Most
<1>5. Spent <= indexJ * Quantum["routed"]
                     + (acc["routed"] + Quantum["routed"])
  BY DEF DayInv, Today
<1> QED
  BY <1>1, <1>2, <1>3, <1>4, <1>5, DayNumbers

(* No more than an allowance is spent before the limit starts again. *)
LEMMA DaySpent ==
  ASSUME TypeOK, DayInv
  PROVE  Spent < Allowance
<1>1. Spent \in Int /\ indexJ \in Int
  BY SpentTyped DEF TypeOK
<1>2. CASE outputfull # "OFF"
  <2>1. Spent + Pending < Most + 3 * MaxRate["routed"]
    BY <1>2 DEF DayInv
  <2> QED
    BY <1>1, <2>1, DayNumbers, PendingRange, AllowanceTyped
<1>3. CASE outputfull = "OFF"
  <2>1. Spent < Most + MaxRate["routed"] \/ indexJ <= Limit
    BY <1>3 DEF DayInv
  <2> QED
    BY <1>1, <2>1, DayBelow, DayNumbers, AllowanceTyped
<1> QED
  BY <1>2, <1>3

(* A day that begins, or its limit again. *)
LEMMA DayBegins ==
  ASSUME TypeOK', indexJ' = 0, Spent' \in Int, Spent' <= 0
  PROVE  DayInv'
<1>1. acc'["routed"] \in -Quantum["routed"]..-1
  BY DayNumbers DEF TypeOK
<1>2. acc'["routed"] \in Int /\ acc'["routed"] >= -Quantum["routed"]
  BY <1>1, DayNumbers
<1>3. 0 * Quantum["routed"] = 0
  BY DayNumbers, Products
<1>4. Spent' <= 0 * Quantum["routed"] + (acc'["routed"] + Quantum["routed"])
  BY <1>2, <1>3, DayNumbers
<1>5. /\ Spent' < Most + MaxRate["routed"]
      /\ Spent' + Pending' < Most + 3 * MaxRate["routed"]
  BY DayNumbers, PendingRange
<1> QED
  BY <1>4, <1>5, DayNumbers DEF DayInv, Today, Most

(* DayInv is inductive. *)
LEMMA DayStep == TypeOK /\ TypeOK' /\ DayInv /\ [Next]_vars => DayInv'
<1> SUFFICES ASSUME TypeOK, TypeOK', DayInv, [Next]_vars PROVE DayInv'
  OBVIOUS
<1>a. Spent \in Int /\ indexJ \in Int
  BY SpentTyped DEF TypeOK
<1>b. Spent' \in Int
  <2>1. restarts' \in Int /\ dayEnergy' \in Int
    BY DEF TypeOK
  <2>2. restarts' * Allowance \in Int
    BY <2>1, AllowanceTyped, Products
  <2>3. Spent' = dayEnergy' - restarts' * Allowance
    BY DEF Spent, Allowance, Most
  <2> QED
    BY <2>1, <2>2, <2>3
<1>1. ASSUME NEW e \in Amounts, Process(e) PROVE DayInv'
  <2>1. /\ e["routed"] \in Int /\ 0 <= e["routed"]
        /\ e["routed"] <= MaxRate["routed"]
    BY <1>1, AccProcessed, DayNumbers
  <2>2. Spent' = Spent + (IF ready = "auto" THEN e["routed"] ELSE 0)
    <3>1. /\ dayEnergy' = dayEnergy + (IF ready = "auto" THEN e["routed"] ELSE 0)
          /\ UNCHANGED restarts /\ dayEnergy \in Int
      BY <1>1 DEF Process, TypeOK
    <3> QED
      BY <1>a, <2>1, <3>1, SpentMoves
  <2>3. Spent' <= Today'
    <3>1. acc["routed"] \in Int /\ indexJ * Quantum["routed"] \in Int
      BY <1>a, ChannelTyped, DayNumbers, Products
    <3>2. Spent' <= Spent + e["routed"] /\ Spent' \in Int
      BY <1>a, <2>1, <2>2
    <3>3. Spent <= indexJ * Quantum["routed"]
                         + (acc["routed"] + Quantum["routed"])
      BY DEF DayInv, Today
    <3>4. CASE acc["routed"] + e["routed"] >= 0
      <4>1. indexJ' = indexJ + 1
        BY <1>1, <3>4 DEF Process, Passed
      <4>2. acc'["routed"] = acc["routed"] + e["routed"] - Quantum["routed"]
        BY <1>1, <3>4, DayNumbers DEF Process, Passed
      <4>3. indexJ' * Quantum["routed"] = indexJ * Quantum["routed"]
                                            + Quantum["routed"]
        BY <1>a, <4>1, DayNumbers, Products
      <4>4. Today' = (indexJ * Quantum["routed"] + Quantum["routed"])
                + (acc["routed"] + e["routed"] - Quantum["routed"]
                     + Quantum["routed"])
        BY <4>2, <4>3 DEF Today
      <4> QED
        BY <1>a, <2>1, <3>1, <3>2, <3>3, <4>4, DayNumbers
    <3>5. CASE ~(acc["routed"] + e["routed"] >= 0)
      <4>1. indexJ' = indexJ + 0
        BY <1>1, <3>5 DEF Process, Passed
      <4>2. acc'["routed"] = acc["routed"] + e["routed"] - 0
        BY <1>1, <3>5, DayNumbers DEF Process, Passed
      <4>3. indexJ' = indexJ /\ acc'["routed"] = acc["routed"] + e["routed"]
        BY <1>a, <2>1, <3>1, <4>1, <4>2
      <4>4. Today' = indexJ * Quantum["routed"]
                + (acc["routed"] + e["routed"] + Quantum["routed"])
        BY <4>3 DEF Today
      <4> QED
        BY <1>a, <2>1, <3>1, <3>2, <3>3, <4>4, DayNumbers
    <3> QED
      BY <3>4, <3>5
  <2>4. CASE outputfull = "OFF"
    <3>1. indexJ <= Limit /\ outputfull' = "OFF" /\ triacMode' = triacMode
          /\ pc' = "check"
      BY <1>1, <2>4 DEF DayInv, Process
    <3>2. CASE triacMode = "AUTOM"
      <4>1. Spent < Most
        BY <3>1, DayBelow
      <4>2. Spent' < Most + MaxRate["routed"]
        BY <1>a, <2>1, <2>2, <4>1, DayNumbers
      <4> QED
        BY <2>3, <3>1, <3>2, <4>2 DEF DayInv
    <3>3. CASE triacMode # "AUTOM"
      <4>1. e["routed"] = 0
        BY <1>1, <3>3 DEF Process, Possible
      <4>2. ~(acc["routed"] + e["routed"] >= 0)
        BY <4>1, ChannelTyped, DayNumbers
      <4>3. indexJ' = indexJ + 0
        BY <1>1, <4>2 DEF Process, Passed
      <4>4. indexJ' <= Limit
        BY <1>a, <3>1, <4>3
      <4> QED
        BY <2>3, <3>1, <3>3, <4>4 DEF DayInv
    <3> QED
      BY <3>2, <3>3
  <2>5. CASE outputfull # "OFF"
    <3>1. Spent + Pending < Most + 3 * MaxRate["routed"]
      BY <2>5 DEF DayInv
    <3>2. fired' = fired /\ ready' = "empty" /\ outputfull' = outputfull
      BY <1>1 DEF Process
    <3>3. Pending' = IF fired = "auto" THEN MaxRate["routed"] ELSE 0
      BY <3>2, DayNumbers DEF Pending
    <3>4. Spent' + Pending' < Most + 3 * MaxRate["routed"]
      <4>1. CASE ready = "auto"
        <5>1. Pending = MaxRate["routed"] + Pending'
          BY <3>3, <4>1, DayNumbers DEF Pending
        <5> QED
          BY <1>a, <2>1, <2>2, <3>1, <4>1, <5>1, DayNumbers, PendingRange
      <4>2. CASE ready # "auto"
        <5>1. Pending = Pending'
          BY <3>3, <4>2, DayNumbers DEF Pending
        <5> QED
          BY <1>a, <2>2, <3>1, <4>2, <5>1
      <4> QED
        BY <4>1, <4>2
    <3> QED
      BY <2>3, <2>5, <3>2, <3>4 DEF DayInv
  <2> QED
    BY <2>4, <2>5
<1>2. ASSUME NEW top, NEW hot, Check(top, hot) PROVE DayInv'
  <2>1. /\ UNCHANGED <<Spent, indexJ, acc, fired, ready>>
        /\ pc = "check" /\ pc' = "idle" /\ CheckTank(hot)
    BY <1>2 DEF Check, Spent
  <2>2. Spent' <= Today' /\ Pending' = Pending
    BY <2>1 DEF DayInv, Today, Pending
  <2>3. CASE outputfull # "OFF"
    BY <2>1, <2>2, <2>3 DEF CheckTank, DayInv
  <2>4. CASE outputfull = "OFF" /\ triacMode # "AUTOM"
    BY <2>1, <2>2, <2>4 DEF CheckTank, DayInv
  <2>5. CASE outputfull = "OFF" /\ triacMode = "AUTOM"
    <3>1. Spent < Most + MaxRate["routed"]
      BY <2>1, <2>5 DEF DayInv
    <3>2. Spent + Pending < Most + 3 * MaxRate["routed"]
      BY <1>a, <3>1, DayNumbers, PendingRange
    <3>3. outputfull' = "OFF" => indexJ <= Limit
      BY <1>a, <2>1, <2>5, DayNumbers DEF CheckTank
    <3> QED
      BY <2>1, <2>2, <3>2, <3>3 DEF DayInv
  <2> QED
    BY <2>3, <2>4, <2>5
<1>3. CASE Fire
  <2>1. UNCHANGED <<triacMode, outputfull, pc, acc, indexJ, Spent, ready>>
    BY <1>3 DEF Fire, Spent
  <2>2. outputfull # "OFF" => Pending' = Pending
    BY <1>3, <2>1 DEF Fire, Pending
  <2> QED
    BY <2>1, <2>2 DEF DayInv, Today
<1>4. CASE CloseWindow
  <2>1. UNCHANGED <<triacMode, outputfull, pc, acc, indexJ, Spent>>
    BY <1>4 DEF CloseWindow, Spent
  <2>2. Pending' <= Pending
    BY <1>4, DayNumbers DEF CloseWindow, Pending
  <2>3. ASSUME Spent + Pending < Most + 3 * MaxRate["routed"]
        PROVE  Spent + Pending' < Most + 3 * MaxRate["routed"]
    BY <1>a, <2>2, <2>3, DayNumbers, PendingRange
  <2> QED
    BY <2>1, <2>3 DEF DayInv, Today
<1>5. CASE Restart
  <2>1. /\ UNCHANGED <<outputfull, pc, acc, indexJ, Spent>>
        /\ pc = "idle" /\ fired' = "none" /\ ready' = "empty"
    BY <1>5 DEF Restart, FullKept, Spent
  <2>2. Pending' <= Pending
    BY <2>1, DayNumbers DEF Pending
  <2>3. ASSUME Spent + Pending < Most + 3 * MaxRate["routed"]
        PROVE  Spent + Pending' < Most + 3 * MaxRate["routed"]
    BY <1>a, <2>2, <2>3, DayNumbers, PendingRange
  <2> QED
    BY <2>1, <2>3 DEF DayInv, Today
<1>6. ASSUME UNCHANGED <<outputfull, windows, pc, acc, indexJ, Spent>>,
             pc = "idle" \/ triacMode' = triacMode
      PROVE  DayInv'
  BY <1>6 DEF DayInv, Today, Pending
<1>7. CASE SaveIndex \/ UNCHANGED vars \/ \E m \in Modes : SetSSR(m)
  BY <1>6, <1>7 DEF SaveIndex, SetSSR, Spent, vars
<1>8. ASSUME LimitAgain PROVE DayInv'
  <2>1. indexJ' = 0 /\ Spent' <= 0
    BY <1>8, DaySpent, SpentAgain DEF LimitAgain
  <2> QED
    BY <1>b, <2>1, DayBegins
<1>9. ASSUME NEW midnight \in BOOLEAN, ResetDay(midnight) PROVE DayInv'
  <2>1. CASE midnight
    <3>1. indexJ' = 0 /\ dayEnergy' = 0 /\ restarts' = 0
      BY <1>9, <2>1 DEF ResetDay
    <3>2. 0 * Allowance = 0 /\ Spent' = 0 - 0 * Allowance
      BY <3>1, AllowanceTyped, Products DEF Spent, Allowance, Most
    <3> QED
      BY <1>b, <3>1, <3>2, DayBegins
  <2>2. CASE ~midnight
    BY <1>8, <1>9, <2>2 DEF ResetDay
  <2> QED
    BY <2>1, <2>2
<1>10. CASE IndexZero \/ PowerCut \/ CutWhileWriting
  BY <1>8, <1>10 DEF IndexZero, PowerCut, CutWhileWriting, Setup
<1> QED
  BY <1>1, <1>2, <1>3, <1>4, <1>5, <1>7, <1>9, <1>10 DEF Next, Second, Commands

(* The router starts with a new day. *)
LEMMA DayStart == Init => DayInv
<1> SUFFICES ASSUME Init PROVE DayInv
  OBVIOUS
<1>1. /\ acc["routed"] \in Int /\ acc["routed"] + Quantum["routed"] = 0
  BY StartTyped, DayNumbers DEF Init
<1>2. 0 * Quantum["routed"] = 0
  BY DayNumbers, Products
<1>3. 0 <= 0 * Quantum["routed"] + (acc["routed"] + Quantum["routed"])
  BY <1>1, <1>2
<1>4. 0 * Allowance = 0 /\ Spent = 0 - 0 * Allowance
  BY AllowanceTyped, Products DEF Init, Spent
<1> QED
  BY <1>3, <1>4, DayNumbers DEF Init, DayInv, Today

(* From one midnight to the next AUTOM routes no more than one allowance   *)
(* (the limit, the increment under way and three windows) and one more for *)
(* each INDX0, each start of the ESP and each power cut of the Arduino.    *)
THEOREM DayLimited == Spec => []DailyLimit
<1>1. TypeOK /\ DayInv => DailyLimit
  <2> SUFFICES ASSUME TypeOK, DayInv PROVE DailyLimit
    OBVIOUS
  <2>1. restarts \in Int /\ dayEnergy \in Int
    BY DEF TypeOK
  <2>2. /\ restarts * Allowance \in Int
        /\ (restarts + 1) * Allowance = restarts * Allowance + Allowance
    BY <2>1, AllowanceTyped, Products
  <2>3. Spent < Allowance /\ Spent = dayEnergy - restarts * Allowance
    BY DaySpent DEF Spent
  <2> QED
    BY <2>1, <2>2, <2>3, AllowanceTyped DEF DailyLimit
<1> QED
  BY <1>1, DayStart, DayStep, EnergyTyping, PTL DEF Spec
=============================================================================
