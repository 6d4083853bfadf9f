--------------------------- MODULE MCInverterClient ---------------------------
(* Three of the seven blocks, one for each way the code decides on a       *)
(* fetch: every time, once, when old.  The storage model is the last of    *)
(* the device's headers, the one an inverter without a battery lacks.      *)
EXTENDS InverterClient

FetchOrder == <<"inverter", "controls", "storage">>
=============================================================================
