------------------------------ MODULE MCEnergy ------------------------------
(* Instances of Energy for TLC: two counters, small increments, of which   *)
(* one second may bring a whole one.                                       *)
EXTENDS Energy

MCQuantum   == [c \in Channels |-> IF c = "routed" THEN 2 ELSE 1]
MCMaxRate   == [c \in Channels |-> 1]
MCMaxEnergy == [c \in Channels |-> IF c = "routed" THEN 6 ELSE 1]
=============================================================================
