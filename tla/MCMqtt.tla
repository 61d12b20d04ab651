------------------------------- MODULE MCMqtt -------------------------------
(* Instances of Mqtt for TLC. *)
EXTENDS Mqtt
=============================================================================
