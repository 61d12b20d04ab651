------------------------------ MODULE MCRelay ------------------------------
(* Instances of Relay for TLC: the minimal times are a few seconds. *)
EXTENDS Relay
=============================================================================
