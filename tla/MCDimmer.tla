------------------------------ MODULE MCDimmer ------------------------------
(* Instances of Dimmer for TLC: a dimmer of three units of power, so that  *)
(* an order may be partial, clipped, or too large to be subtracted.        *)
EXTENDS Dimmer
MCReadings == {-4, -2, 0, 2, 4}
MCRouted   == {0, 1}
=============================================================================
