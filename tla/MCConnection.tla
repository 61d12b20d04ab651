---------------------------- MODULE MCConnection ----------------------------
(* Instances of Connection for TLC: heads longer and shorter than the room *)
(* of the send buffer, contents of none to more than one buffer.           *)
EXTENDS Connection
=============================================================================
