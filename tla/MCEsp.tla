------------------------------- MODULE MCEsp -------------------------------
(* Instances of Esp for TLC: a day of two minutes of three units. *)
EXTENDS Esp
=============================================================================
