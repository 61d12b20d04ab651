----------------------------- MODULE MCPVRouter -----------------------------
(* Instances of PVRouter for TLC: one tick stands for about 25 counts of   *)
(* Timer1, in the order 0 < 8 < DEBOUNCE < 144 < PULSE_END < half period.  *)
EXTENDS PVRouter

MCDelays == {1, 4}
MCShortDelays == {1, 2}
=============================================================================
