------------------------------- MODULE Dimmer -------------------------------
(***************************************************************************)
(* The second router: MaxPV sends the surplus to dimmers over HTTP         *)
(* (MaxPV3/httprouteur.cpp), once a second, and tells the Arduino with     *)
(* SETDIM whether they are on.  A call blocks the tasks; the web handlers  *)
(* run meanwhile.  Orders are relative ("puissance=+dpow"), so the power   *)
(* that the ESP believes and the one of the dimmers may part.              *)
(*                                                                         *)
(* Powers and energies are small integers; Readings are the values of      *)
(* P_ACT and Routed those of P_ROUTED (DIMMER_IS_SSR is false: the SSR and *)
(* the dimmers add up).                                                    *)
(***************************************************************************)
EXTENDS Integers

CONSTANTS
  Sum,            \* dimmer_sumpow
  Resistance,     \* P_RESISTANCE
  Margin,         \* DMARGIN
  Low, High,      \* the surplus is halved above Low, divided by 3 above High
  Period,         \* dimmer_period, seconds
  Check,          \* DIMMER_CHECK
  Tries,          \* DIMMERTRY
  Wh,             \* watt seconds in a watt hour
  Limit,          \* d_p_limit, watt hours
  Wrap,           \* the values of a byte
  MaxBacklog,     \* bound on dimmerwattsec
  MaxWraps,       \* bound on the history wraps
  Readings, Routed

ASSUME DimmerAssumption ==
  /\ {Sum, Resistance, Period, Check, Tries, Wh, Limit, Wrap, MaxBacklog, MaxWraps}
       \subseteq Nat \ {0}
  /\ Margin \in Nat /\ Low \in Nat /\ High \in Nat
  /\ Period < Wrap /\ Check < Wrap
  /\ Wh + (MaxWraps + 1) * (Sum * Period) < MaxBacklog
  /\ Readings \subseteq Int /\ Routed \subseteq Nat

Modes == {"OFF", "FORCE", "AUTOM"}
None  == [url |-> "none", dpow |-> 0]

VARIABLES
  dimmer_m, dimmer_act, dimmer_pow,
  dimmer_count, dimmer_compute, dimmer_try,    \* bytes
  dimmerwattsec, dimmer_indexJ,
  call,       \* the HTTP call in progress
  device,     \* the power of the dimmers
  told,       \* the last SETDIM sent
  astray,     \* history: since the last OFF answered, an OFF went unanswered
  abandoned,  \* history: given up (failsafe, restart) with a dimmer on
  wraps       \* history: times dimmer_compute has wrapped since the index
              \* was last up to date at the end of a period

counters == <<dimmer_count, dimmer_compute>>
energy   == <<dimmerwattsec, dimmer_indexJ>>
history  == <<astray, abandoned, wraps>>
vars == <<dimmer_m, dimmer_act, dimmer_pow, counters, dimmer_try, energy, call,
          device, told, history>>

Clip(p) == IF p < 0 THEN 0 ELSE IF p > Sum THEN Sum ELSE p

(* The configuration gives the mode; dimmer_init0 is in its OFF call.      *)
Init ==
  /\ dimmer_m \in Modes /\ dimmer_act = FALSE /\ dimmer_pow = 0
  /\ dimmer_count = 0 /\ dimmer_compute = 0 /\ dimmer_try = 0
  /\ dimmerwattsec = 0 /\ dimmer_indexJ = 0
  /\ call = [url |-> "init", dpow |-> 0] /\ device = 0 /\ told = FALSE
  /\ astray = FALSE /\ abandoned = FALSE /\ wraps = 0

----------------------------------------------------------------------------
(* Dimmer_act_EcoPV: SETDIM. *)
DimmerActEcoPV(on) == told' = on

LateMutant(dpow) ==   \* the Arduino hears of it after the call
  /\ told' = told
  /\ call' = [url |-> IF dimmer_pow + dpow <= 0 THEN "off" ELSE "power",
              dpow |-> dpow]

(* call_dimmer, up to the answer: the Arduino hears of a dimmer before it  *)
(* is switched on ("Bloque la puissance du routage du SSR").               *)
CallDimmer(dpow) ==
  /\ IF ~dimmer_act /\ dimmer_pow + dpow > 0
     THEN DimmerActEcoPV(TRUE) ELSE UNCHANGED told
  /\ call' = [url |-> IF dimmer_pow + dpow <= 0 THEN "off" ELSE "power",
              dpow |-> dpow]

NoCall == UNCHANGED <<told, call>>

SwitchOff == -(Sum + 1)

(* The order that the regulation gives for a surplus, an import, or the    *)
(* SSR that reduces its own share.                                         *)
Damped(p) == IF p > High THEN p \div 3 ELSE IF p > Low THEN p \div 2 ELSE p
Least(a, b) == IF a < b THEN a ELSE b

Regulate(p, routed, autom) ==
  IF -p > Margin /\ dimmer_pow < Sum
  THEN CallDimmer(Least(Damped(-p), Sum - dimmer_pow))
  ELSE IF p > Margin /\ dimmer_pow > 0
  THEN LET cp == IF p > High THEN p \div 2 ELSE p
       IN CallDimmer(IF dimmer_pow < cp THEN -Sum ELSE -cp)
  ELSE IF autom /\ 0 < routed /\ routed < Resistance /\ dimmer_pow > 0
  THEN CallDimmer(-(Resistance - routed + Margin))
  ELSE NoCall

CountMutant(ws) ==   \* the watt hour is not taken from the seconds
  /\ dimmerwattsec' = ws /\ UNCHANGED wraps
  /\ dimmer_indexJ' = IF ws > Wh THEN dimmer_indexJ + 1 ELSE dimmer_indexJ

(* "ajout 1 wh": at most one in a period.                                  *)
CountWh(ws) ==
  /\ IF ws > Wh
     THEN dimmerwattsec' = ws - Wh /\ dimmer_indexJ' = dimmer_indexJ + 1
     ELSE dimmerwattsec' = ws /\ UNCHANGED dimmer_indexJ
  /\ wraps' = IF dimmerwattsec' <= Wh THEN 0 ELSE wraps

(* dimmer_compute++ on a byte, in every mode: only AUTOM sets it to zero.  *)
NextSecond == (dimmer_compute + 1) % Wrap
Wrapping   == wraps' = IF NextSecond = 0 THEN Least(wraps + 1, MaxWraps) ELSE wraps

Automatic(p, routed, autom) ==
  LET ws == Least(dimmerwattsec + dimmer_pow, MaxBacklog)
  IN IF NextSecond >= Period
     THEN /\ dimmer_compute' = 0
          /\ CountWh(ws) /\ Regulate(p, routed, autom)
     ELSE /\ dimmer_compute' = NextSecond /\ Wrapping
          /\ dimmerwattsec' = ws /\ UNCHANGED dimmer_indexJ
          /\ NoCall

Passive == dimmer_compute' = NextSecond /\ Wrapping /\ UNCHANGED energy

Ping ==
  /\ dimmer_act /\ dimmer_count >= Check
  /\ dimmer_count' = 0
  /\ call' = [url |-> "state", dpow |-> 0]
  /\ UNCHANGED <<dimmer_compute, energy, told, wraps>>

LimitReached == dimmer_m = "AUTOM" /\ dimmer_indexJ > Limit

EngineMutant ==   \* the limit stops the regulation and not the dimmer
  \/ /\ dimmer_m = "OFF" /\ dimmer_act
     /\ Passive /\ CallDimmer(SwitchOff)
  \/ /\ dimmer_m = "FORCE" /\ Passive
     /\ IF dimmer_pow < Sum THEN CallDimmer(Sum) ELSE NoCall
  \/ LimitReached /\ Passive /\ NoCall
  \/ /\ dimmer_m = "AUTOM" /\ ~LimitReached
     /\ \E p \in Readings, routed \in Routed, autom \in BOOLEAN :
          Automatic(p, routed, autom)

Engine ==
  \/ /\ dimmer_m = "OFF" /\ dimmer_act
     /\ Passive /\ CallDimmer(SwitchOff)
  \/ /\ dimmer_m = "FORCE" /\ Passive
     /\ IF dimmer_pow < Sum THEN CallDimmer(Sum) ELSE NoCall
  \/ /\ LimitReached /\ Passive
     /\ IF dimmer_act THEN CallDimmer(SwitchOff) ELSE NoCall
  \/ /\ dimmer_m = "AUTOM" /\ ~LimitReached
     /\ \E p \in Readings, routed \in Routed, autom \in BOOLEAN :
          Automatic(p, routed, autom)

(* dimmer_engine, called by the one-second task.                           *)
DimmerEngine ==
  /\ call = None
  /\ dimmer_m # "OFF" \/ dimmer_act
  /\ \/ Ping
     \/ /\ ~(dimmer_act /\ dimmer_count >= Check)
        /\ dimmer_count' = Least(dimmer_count + 1, Check)
        /\ Engine
  /\ UNCHANGED <<dimmer_m, dimmer_act, dimmer_pow, dimmer_try, device, astray,
                 abandoned>>

----------------------------------------------------------------------------
(* The end of a call: answered (200), or not, carried out or not.          *)

Unlit == device' = 0 /\ astray' = FALSE /\ abandoned' = FALSE

CallAnswered ==
  /\ call.url \in {"power", "off"} /\ call' = None
  /\ IF call.url = "off" THEN Unlit
     ELSE device' = Clip(device + call.dpow) /\ UNCHANGED <<astray, abandoned>>
  /\ dimmer_pow' = Clip(dimmer_pow + call.dpow)
  /\ dimmer_act' = (dimmer_pow' > 0)
  /\ IF dimmer_act /\ dimmer_pow' = 0
     THEN DimmerActEcoPV(FALSE) ELSE UNCHANGED told
  /\ dimmer_count' = 0 /\ dimmer_try' = 0
  /\ UNCHANGED <<dimmer_m, dimmer_compute, wraps, energy>>

PingAnswered ==
  /\ call.url = "state" /\ call' = None
  /\ UNCHANGED <<dimmer_m, dimmer_act, dimmer_pow, counters, dimmer_try, energy,
                 device, told, history>>

FailMutant ==   \* the failure is ignored
  /\ call.url \in {"power", "off", "state"} /\ call' = None
  /\ device' \in {device, IF call.url = "off" THEN 0 ELSE Clip(device + call.dpow)}
  /\ UNCHANGED <<dimmer_m, dimmer_act, dimmer_pow, counters, dimmer_try, energy,
                 told, history>>

(* A call that fails, or is not answered, leads to dimmer_init.            *)
CallFailed ==
  /\ call.url \in {"power", "off", "state"}
  /\ call' = [url |-> "init", dpow |-> 0]
  /\ device' \in {device, IF call.url = "off" THEN 0 ELSE Clip(device + call.dpow)}
  /\ UNCHANGED <<dimmer_m, dimmer_act, dimmer_pow, counters, dimmer_try, energy,
                 told, history>>

InitAnswered ==
  /\ call.url = "init" /\ call' = None
  /\ Unlit /\ dimmer_pow' = 0 /\ dimmer_act' = FALSE
  /\ DimmerActEcoPV(FALSE)
  /\ dimmer_count' = 0 /\ dimmer_try' = 0
  /\ UNCHANGED <<dimmer_m, dimmer_compute, wraps, energy>>

(* dimmer_failsafe: "Pas de connection, reset".                            *)
Failsafe ==
  /\ dimmer_m' = "OFF" /\ dimmer_act' = FALSE /\ dimmer_pow' = 0
  /\ dimmer_try' = 0 /\ DimmerActEcoPV(FALSE)
  /\ abandoned' = (abandoned \/ device' > 0)

(* The name is not resolved, or the OFF call fails.                        *)
InitFailed ==
  /\ call.url = "init" /\ call' = None
  /\ device' \in {device, 0} /\ astray' = TRUE
  /\ IF dimmer_try + 1 > Tries THEN Failsafe
     ELSE /\ dimmer_try' = dimmer_try + 1
          /\ UNCHANGED <<dimmer_m, dimmer_act, dimmer_pow, told, abandoned>>
  /\ UNCHANGED <<counters, energy, wraps>>

----------------------------------------------------------------------------
(* The page and MQTT, at any time, during a call too.                      *)
SetMode(m) ==
  /\ dimmer_m' = m
  /\ UNCHANGED <<dimmer_act, dimmer_pow, counters, dimmer_try, energy, call,
                 device, told, history>>

(* setRefIndexJour, in a task; dimmer_indexReset, from the page.           *)
NoIndex ==
  /\ dimmer_indexJ' = 0
  /\ UNCHANGED <<dimmer_m, dimmer_act, dimmer_pow, counters, dimmer_try,
                 dimmerwattsec, call, device, told, history>>

Midnight   == call = None /\ NoIndex
IndexReset == NoIndex

(* The ESP restarts with the mode of its file, and runs dimmer_init0.      *)
RebootESP ==
  /\ dimmer_m' \in Modes /\ dimmer_act' = FALSE /\ dimmer_pow' = 0
  /\ dimmer_count' = 0 /\ dimmer_compute' = 0 /\ dimmer_try' = 0
  /\ dimmerwattsec' = 0 /\ dimmer_indexJ' = 0
  /\ DimmerActEcoPV(FALSE) /\ call' = [url |-> "init", dpow |-> 0]
  /\ abandoned' = (abandoned \/ device > 0) /\ wraps' = 0
  /\ UNCHANGED <<device, astray>>

Answered == CallAnswered \/ PingAnswered \/ InitAnswered
Failed   == CallFailed \/ InitFailed

Next == \/ DimmerEngine \/ Answered \/ Failed
        \/ \E m \in Modes : SetMode(m)
        \/ Midnight \/ IndexReset \/ RebootESP

(* Seconds pass, a call ends by its time limit; the network may fail for   *)
(* long, not for ever.                                                     *)
Fairness ==
  /\ WF_vars(DimmerEngine) /\ WF_vars(Answered \/ Failed)
  /\ SF_vars(CallAnswered) /\ SF_vars(InitAnswered)

Spec     == Init /\ [][Next]_vars
FairSpec == Spec /\ Fairness

----------------------------------------------------------------------------
(* Properties *)

TypeOK ==
  /\ dimmer_m \in Modes /\ dimmer_act \in BOOLEAN /\ dimmer_pow \in 0..Sum
  /\ dimmer_count \in 0..Check /\ dimmer_compute \in 0..(Wrap - 1)
  /\ dimmer_try \in 0..Tries
  /\ dimmerwattsec \in 0..MaxBacklog /\ dimmer_indexJ \in 0..(Limit + 1)
  /\ call \in [url : {"none", "state", "init", "power", "off"}, dpow : Int]
  /\ device \in 0..Sum /\ told \in BOOLEAN
  /\ astray \in BOOLEAN /\ abandoned \in BOOLEAN /\ wraps \in 0..MaxWraps

(* "Bloque la puissance du routage du SSR. Avant appel dimmer", "Fait      *)
(* après appel dimmer au cas où la requete HTTP ne fonctionne pas": as     *)
(* long as the ESP has not given up, a dimmer that draws power is one the  *)
(* Arduino has been told of, whatever calls fail half way.                 *)
Interlock == device > 0 => told \/ abandoned

(* Orders are relative, so an order carried out and not answered parts the *)
(* two powers; the OFF of dimmer_init brings them together.  Between calls *)
(* they differ only if that OFF failed as well, or the ESP restarted.      *)
PowersAgree == call = None => device = dimmer_pow \/ astray

(* "Routeur sur OFF", "Routeur OFF si dépassement limite".                 *)
MustStop == device > 0 /\ (dimmer_m = "OFF" \/ LimitReached)

(* The ESP believes off a dimmer that draws power: an order that switched  *)
(* it on was not answered, and the OFF of dimmer_init failed as well.      *)
Forgotten == device > 0 /\ ~dimmer_act /\ call = None

(* A dimmer that draws power and must stop, by order or by the daily       *)
(* limit, is off some day, whatever calls fail: unless the order changes,  *)
(* the day ends, the ESP gives up, or forgets that it is on.  A dimmer     *)
(* forgotten stays on: with OFF the engine is not called (MaxPV3.ino 936), *)
(* over the limit it makes no call.                                        *)
StopsInTheEnd == MustStop ~> (~MustStop \/ abandoned \/ Forgotten)

(* The limit is compared with an index that counts one Wh a period.  When  *)
(* a period at full power is no more than that, the index is late by one   *)
(* Wh and one period at most, and one period more each time the byte that  *)
(* counts the seconds wraps before the period ends (FORCE lets it grow),   *)
(* until the index is up to date again.  The defaults, 1000 W and 5 s, do  *)
(* not satisfy the condition.                                              *)
IndexInTime ==
  Sum * Period <= Wh /\ wraps < MaxWraps
    => dimmerwattsec <= Wh + (wraps + 1) * (Sum * Period)
=============================================================================
