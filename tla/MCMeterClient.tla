---------------------------- MODULE MCMeterClient ----------------------------
(* Two pcbs and a window of two or three segments: enough to use up a      *)
(* connection, reconnect on the other pcb and come back to the first.      *)
EXTENDS MeterClient
=============================================================================
