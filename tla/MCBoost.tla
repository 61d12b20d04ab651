------------------------------ MODULE MCBoost ------------------------------
(* Instances of Boost for TLC: a boost of a few bursts. *)
EXTENDS Boost
=============================================================================
