-------------------------- MODULE RegulatorBounds --------------------------
(***************************************************************************)
(* Which tunings of the regulator (module Regulator) are safe: bounds of   *)
(* the integral, and a condition on the gains under which they hold.       *)
(***************************************************************************)
EXTENDS Regulator

CONSTANTS Floor, Ceiling   \* bounds of the integral

(* The smallest gain in use must reach full power against the proportional *)
(* term before the ceiling, the reserve must fit above the floor, and the  *)
(* largest product must fit in a long.                                     *)
Tuned(I, P, floor, ceiling) ==
  /\ floor \in Nat /\ ceiling \in Nat /\ floor >= -MinIntegral
  /\ \A g \in I, p \in P :
       /\ (Full + 1) * Scale + 2 * (p * MaxError) <= g * ceiling
       /\ 2 * (p * MaxError) <= g * floor
       /\ g * (ceiling + MaxError) + 2 * (p * MaxError) <= MaxLong
       /\ g * (floor + MaxError) + 2 * (p * MaxError) <= MaxLong

ASSUME TuningAssumption == Tuned(IGains, PGains, Floor, Ceiling)

(* The integral stays within what it takes to saturate the command against *)
(* the proportional term, and within the reserve E_RESERVE, whatever the   *)
(* measures and however the gains are retuned: however long a surplus or a *)
(* deficit lasts, the regulator leaves it again.                           *)
IntegralBounded == integral \in (-Floor)..Ceiling
=============================================================================
