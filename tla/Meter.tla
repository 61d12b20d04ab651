------------------------------- MODULE Meter -------------------------------
(***************************************************************************)
(* What the energy counters of the router promise: readings in whole       *)
(* increments of an energy that only grows, of which a reset keeps the     *)
(* fraction and a power cut keeps no more than was read before it, but in  *)
(* one counter that it may spoil.                                          *)
(***************************************************************************)
EXTENDS Integers

CONSTANTS
  Channels,   \* the counters
  Quantum     \* the energy of one increment of each

VARIABLES
  energy,     \* what was counted
  reading,    \* what the counters show
  torn        \* the counter that the last power cut spoiled, if any

(* The reading is the whole number of increments in the energy. *)
Reads(c) == /\ reading[c] * Quantum[c] <= energy[c]
            /\ energy[c] < (reading[c] + 1) * Quantum[c]

Starts(c) == energy[c] = reading[c] * Quantum[c]

Init ==
  /\ energy \in [Channels -> Int] /\ reading \in [Channels -> Int]
  /\ \A c \in Channels : Starts(c)
  /\ torn = {}

Count ==
  /\ \A c \in Channels : energy'[c] >= energy[c] /\ Reads(c)'
  /\ UNCHANGED torn

Zero ==
  /\ \A c \in Channels :
       /\ reading'[c] = 0
       /\ energy'[c] = energy[c] - reading[c] * Quantum[c]
  /\ UNCHANGED torn

PowerCut ==
  /\ torn' = {} \/ \E c \in Channels : torn' = {c}
  /\ \A c \in Channels :
       Starts(c)' /\ (reading'[c] <= reading[c] \/ reading'[c] = 0 \/ c \in torn')

Next == Count \/ Zero \/ PowerCut

Spec == Init /\ [][Next]_<<energy, reading, torn>>
=============================================================================
