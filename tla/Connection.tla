------------------------------ MODULE Connection ------------------------------
(***************************************************************************)
(* What the pcb functions of a Modbus client (src/src/meter.cpp, and word  *)
(* for word src/src/inverter.cpp) promise modbus_task: one connection at a *)
(* time, dialled once, and `connected' true from the moment it is there.   *)
(* Between its end by modbus_task and the assignment that follows          *)
(* `connected' may be true without a connection, and nothing begins then.  *)
(***************************************************************************)
VARIABLES link,      (* "none", or the state of the connection there is       *)
          connected

vars == <<link, connected>>

Established == {"open", "peerClosed"}

Init == link = "none" /\ connected = FALSE

Create == /\ link = "none" /\ ~connected
          /\ link' = "closed" /\ UNCHANGED connected

Dial == /\ link = "closed" /\ ~connected
        /\ link' = "synSent" /\ UNCHANGED connected

Up == /\ link = "synSent" /\ ~connected
      /\ link' = "open" /\ connected' = TRUE

PeerCloses == /\ link = "open" /\ connected
              /\ link' = "peerClosed" /\ UNCHANGED connected

(* An error tells of the end of the connection in the same step. *)
Lose == /\ link \in {"synSent"} \cup Established
        /\ link' = "none" /\ connected' = FALSE

(* modbus_task ends the connection, whatever has become of it, and says so *)
(* in the next step.                                                       *)
Close == link # "none" /\ link' = "none" /\ UNCHANGED connected
Forget == link = "none" /\ connected' = FALSE /\ UNCHANGED link

Next == Create \/ Dial \/ Up \/ PeerCloses \/ Lose \/ Close \/ Forget

Spec == Init /\ [][Next]_vars
=============================================================================
