------------------------------ MODULE MCParams ------------------------------
(* Instances of Params for TLC: one value of a parameter besides the erased *)
(* one, two modes.                                                         *)
EXTENDS Params
MCDefault == [p \in Names |-> 1]
=============================================================================
