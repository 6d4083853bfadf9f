------------------------------ MODULE MCHistory ------------------------------
(* Two slots and three devices, as an inverter with photovoltaics and a    *)
(* battery reports on a board built for one inverter.  A minute has two    *)
(* seconds and an hour two minutes; their buffers wrap around.             *)
EXTENDS History

Devices == <<1, 2, 3>>
=============================================================================
