---------------------------- MODULE InverterSlots ----------------------------
(***************************************************************************)
(* The slots of the inverters (src/src/inverter.cpp) while the list of     *)
(* configured inverters changes.  Slot i has a context with a connection,  *)
(* a name and readings, all of which belong to whatever address was i-th   *)
(* when they were filled.  The list is edited by the settings page         *)
(* (src/src/draw.cpp) and the USB commands (src/include/settings.h),       *)
(* modbus_task brings the slots in line with it in every round.            *)
(*                                                                         *)
(* One device answers at each address.  The discovery is one step here;    *)
(* InverterClient has its course.                                          *)
(***************************************************************************)
EXTENDS Naturals, Sequences, SequencesExt

CONSTANTS Addresses, Nobody,
          MaxInverters,
          MaxEdits, MaxTrouble      (* bounds of the model                    *)

VARIABLES configured_inverters,
          size,             (* of contexts, connected_names, ...              *)
          peer,             (* the address slot i dials or is connected to    *)
          connected,
          connected_names,  (* the device whose name and blocks are known     *)
          pc, edits,
          wifi,             (* wifi_connected                               *)
          troubles

slots == <<peer, connected, connected_names>>
vars == <<configured_inverters, size, slots, pc, edits, wifi, troubles>>

Slots == 1..MaxInverters

Init == /\ configured_inverters = << >> /\ size = 0
        /\ peer = [i \in Slots |-> Nobody]
        /\ connected = [i \in Slots |-> FALSE]
        /\ connected_names = [i \in Slots |-> Nobody]
        /\ pc = "discover" /\ edits = 0 /\ wifi = FALSE /\ troubles = 0

-----------------------------------------------------------------------------
Edit(list) == /\ edits < MaxEdits /\ edits' = edits + 1
              /\ configured_inverters' = list
              /\ UNCHANGED <<size, slots, pc, wifi, troubles>>

(* configure_button: a new address at the end. *)
Add(a) == /\ Len(configured_inverters) < MaxInverters
          /\ a \notin ToSet(configured_inverters)
          /\ Edit(Append(configured_inverters, a))

(* remove_addr: the last one takes the place of the one removed. *)
RemoveAddr(i) == LET n == Len(configured_inverters)
                 IN Edit(Front([configured_inverters EXCEPT ![i] = configured_inverters[n]]))

-----------------------------------------------------------------------------
(* A round starts only with wifi_connected.                                *)
(* initiate_discover_inverters: the slots become as many as the list has;  *)
(* those that are not connected dial, unless they do so already.           *)
Discover ==
  /\ pc = "discover" /\ wifi /\ pc' = "wait"
  /\ size' = Len(configured_inverters)
  /\ peer' = [i \in Slots |-> IF i <= size' /\ peer[i] = Nobody
                              THEN configured_inverters[i] ELSE peer[i]]
  /\ UNCHANGED <<configured_inverters, connected, connected_names, edits, wifi, troubles>>

(* tcp_connect_cb, and the discovery of a device that has no name yet.     *)
Connect(i) ==
  /\ peer[i] # Nobody /\ ~connected[i]
  /\ connected' = [connected EXCEPT ![i] = TRUE]
  /\ connected_names' = [connected_names EXCEPT ![i] = IF @ = Nobody THEN peer[i] ELSE @]
  /\ UNCHANGED <<configured_inverters, size, peer, pc, edits, wifi, troubles>>

HangUp(i) == /\ peer' = [peer EXCEPT ![i] = Nobody]
             /\ connected' = [connected EXCEPT ![i] = FALSE]

(* tcp_err_cb *)
Fail(i) == /\ peer[i] # Nobody /\ HangUp(i)
           /\ troubles < MaxTrouble /\ troubles' = troubles + 1
           /\ UNCHANGED <<configured_inverters, size, connected_names, pc, edits, wifi>>

(* wait_all closes a connection after too many strikes, or as asked by the *)
(* fetch or the discovery; the latter costs the name.                      *)
Close(i) ==
  /\ pc = "wait" /\ i <= size /\ peer[i] # Nobody /\ HangUp(i)
  /\ troubles < MaxTrouble /\ troubles' = troubles + 1
  /\ \E timeout \in BOOLEAN :
       connected_names' = IF timeout THEN connected_names
                          ELSE [connected_names EXCEPT ![i] = Nobody]
  /\ UNCHANGED <<configured_inverters, size, pc, edits, wifi>>

WaitAll == /\ pc = "wait" /\ pc' = "discover"
           /\ UNCHANGED <<configured_inverters, size, slots, edits, wifi, troubles>>

ModbusTask == Discover \/ WaitAll

(* wifi_task follows the link, and a new choice of wifi puts it down.      *)
WifiChanges == /\ wifi' = ~wifi
               /\ UNCHANGED <<configured_inverters, size, slots, pc, edits, troubles>>

Next == \/ \E a \in Addresses : Add(a)
        \/ \E i \in 1..Len(configured_inverters) : RemoveAddr(i)
        \/ ModbusTask \/ WifiChanges
        \/ \E i \in Slots : Connect(i) \/ Fail(i) \/ Close(i)

Spec == Init /\ [][Next]_vars

FairSpec == /\ Spec /\ WF_vars(ModbusTask)
            /\ \A i \in Slots : WF_vars(Connect(i))

-----------------------------------------------------------------------------
=============================================================================
