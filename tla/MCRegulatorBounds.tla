------------------------- MODULE MCRegulatorBounds -------------------------
(* RegulatorBounds with the constants of the code: default calibration,    *)
(* E_RESERVE = 5 J, P_MARGIN + P_OFFSET = -5 W, and errors on a grid that  *)
(* spans the range of the sensors.  With these gains 25 bits are enough    *)
(* for the arithmetic, so the tuned run gives MaxLong that value.          *)
EXTENDS RegulatorBounds

MCErrors == {-60000, -3000, -1000, 0, 1000, 7000, 60000}
MCSetpoint == -59
MCMinIntegral == -5841
=============================================================================
