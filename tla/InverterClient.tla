---------------------------- MODULE InverterClient ----------------------------
(***************************************************************************)
(* The Modbus-TCP client of one SunSpec inverter, src/src/inverter.cpp:    *)
(* one context_t, with the entries of connected_names, read_power and      *)
(* control_infos at its index.  modbus_task runs                           *)
(* initiate_discover_inverters, initiate_retrieve_infos_all and wait_all   *)
(* in a loop; the tcpip thread runs the callbacks.  The pcb functions are  *)
(* those of meter.cpp, whose pointers MeterClient models; here the context *)
(* has a link or none.                                                     *)
(*                                                                         *)
(* The discovery walks the model headers of the device and writes two      *)
(* registers to take control; a fetch walks the chain of blocks of the     *)
(* switch in advance_context_state, GET_INVERTER_INFOS to                  *)
(* WAIT_DATA_RESPONSE, and asks for those that are due.                    *)
(***************************************************************************)
EXTENDS Naturals, Sequences, SequencesExt

CONSTANTS Chain,   (* the blocks, in the order of the fetch                  *)
          Always,  (* blocks fetched every time                              *)
          Timed,   (* blocks fetched again when they are old enough          *)
          Late,    (* those whose first fetch waits for that age as well     *)
          Scan,    (* the blocks in the order of the device's model headers  *)
          MaxTrouble  (* bound on the faults of network, device and lwIP     *)

ASSUME ChainAssumption ==
  /\ Chain \in Seq(Range(Chain)) /\ Chain # <<>>
  /\ Scan \in Seq(Range(Chain))
  /\ Always \subseteq Range(Chain) /\ Timed \subseteq Range(Chain)
  /\ Timed \cap Always = {}
  /\ Late \subseteq Timed
  /\ MaxTrouble \in Nat

VARIABLES link, connected, waitReceive, requestClose, waitCount, state,
          at,        (* state FETCH: index in Chain of the block whose GET_ *)
                     (* state it is; Len(Chain) + 1 is WAIT_DATA_RESPONSE   *)
          pos,       (* index in Scan of the header asked for next; 0 once  *)
                     (* next_hdr_addr has left the chain of headers         *)
          found,     (* blocks whose address is known                       *)
          due,       (* blocks whose ..._fetched_s asks for a fetch         *)
          named,     (* connected_names is not empty                        *)
          active,    (* the last answer is less than 10 s old               *)
          power,     (* read_power: "zero" or "read"                        *)
          notified, pc, expired,
          device,    (* what answers at the address                         *)
          wire,      (* the segments on their way to the client             *)
          enabled,   (* the two control registers have been written         *)
          complete,  (* the fetch of this round: "none", "started" or "done"  *)
          trouble,   (* how often something may still go wrong              *)
          wifi,      (* wifi_connected: no round of modbus_task without it  *)
          halted

context == <<connected, waitReceive, requestClose, waitCount, state, at, pos, found, due>>
infos == <<named, active, power>>
net == <<device, wire>>
task == <<notified, pc, expired>>
ghost == <<enabled, complete>>
vars == <<link, context, infos, task, net, ghost, trouble, wifi, halted>>

Blocks == Range(Chain)
AwaitLast == Len(Chain) + 1

(* "bare" lacks the last model of Scan, "alien" is no SunSpec device, and  *)
(* where the device is "gone" nothing answers any more.                    *)
Devices == {"inverter", "bare", "alien", "gone"}
Models(d) == IF d = "bare" THEN Len(Scan) - 1 ELSE Len(Scan)

Discovery == {"CHECK_SUNS", "FIND_COMMON_HDR", "GET_COMMON_INFOS", "FIND_DATA_HDR",
              "ENABLE_STORAGE_CONTROL", "ENABLE_INVERTER_CONTROL"}
States == {"IDLE", "CONNECTING", "FETCH"} \cup Discovery
MaxWaits == 3

Init == /\ link = "none" /\ connected = FALSE /\ waitReceive = FALSE
        /\ requestClose = FALSE /\ waitCount = 0 /\ state = "IDLE"
        /\ at = 1 /\ pos = 0 /\ found = {}
        /\ due = Blocks \ (Always \cup Late)
        /\ named = FALSE /\ active = FALSE /\ power = "zero"
        /\ notified = FALSE /\ pc = "d_pcb" /\ expired = FALSE
        /\ device = "inverter" /\ wire = <<>>
        /\ enabled = FALSE /\ complete = "none"
        /\ trouble = MaxTrouble /\ wifi = FALSE /\ halted = FALSE

-----------------------------------------------------------------------------
(* request_modbus_registers and its _write form; a request that could not  *)
(* be sent, as on a link that an error has taken away, is never answered.  *)
Send(owed) == wire' = IF link' = "open" THEN Append(owed, "answer") ELSE owed

(* parse_modbus_frame: whether the mirror now holds the registers asked    *)
(* for last.  Any segment but the one answer owed leaves what was there:   *)
(* nothing, or the registers as an earlier discovery read them.            *)
Completes(k) == IF k = "answer" /\ Len(wire) = 1 THEN {TRUE} ELSE BOOLEAN

(* Any segment counts as a sign of life, and publishes what the mirror     *)
(* holds at last_modbus_addr if that is the address of a block.            *)
SignOfLife == /\ active' = TRUE
              /\ power' \in {power} \cup (IF found = {} THEN {} ELSE {"read"})
ParseNull(k) == halted' \in (IF k = "null" THEN BOOLEAN ELSE {FALSE})

IdleStep(owed) ==
  /\ state = "IDLE"
  /\ waitCount' = 0 /\ wire' = owed
  /\ UNCHANGED <<connected, requestClose, state, at, pos, found, due, infos, ghost, halted>>

ConnectingStep(owed) ==
  /\ state = "CONNECTING"
  /\ connected' = TRUE
  /\ IF named THEN state' = "IDLE" /\ wire' = owed
              ELSE state' = "CHECK_SUNS" /\ Send(owed)
  /\ UNCHANGED <<requestClose, waitCount, at, pos, found, due, infos, ghost, halted>>

(* No register of an alien device reads SunS. *)
CheckSunsStep(k, owed) ==
  /\ state = "CHECK_SUNS"
  /\ ParseNull(k) /\ SignOfLife
  /\ \/ /\ TRUE \in Completes(k) /\ (device = "alien" => FALSE \in Completes(k))
        /\ state' = "FIND_COMMON_HDR" /\ pos' = 1 /\ Send(owed) /\ UNCHANGED requestClose
     \/ /\ FALSE \in Completes(k) \/ device = "alien"
        /\ requestClose' = TRUE /\ wire' = owed /\ UNCHANGED <<state, pos>>
  /\ UNCHANGED <<connected, waitCount, at, found, due, named, ghost>>

(* A header that was not read sends the search on through registers that   *)
(* are no headers, until an address the mirror does not cover ends it: of  *)
(* those requests at most one is kept.                                     *)
LoseTrack(owed) ==
  /\ pos' = 0
  /\ \/ pos # 0 /\ Send(owed) /\ UNCHANGED requestClose
     \/ requestClose' = TRUE /\ wire' = owed

(* The common model is the first of every device. *)
FindCommonHdrStep(k, owed) ==
  /\ state = "FIND_COMMON_HDR"
  /\ ParseNull(k) /\ SignOfLife
  /\ \/ /\ pos # 0 /\ TRUE \in Completes(k)
        /\ state' = "GET_COMMON_INFOS" /\ Send(owed) /\ UNCHANGED <<pos, requestClose>>
     \/ /\ pos = 0 \/ FALSE \in Completes(k)
        /\ LoseTrack(owed) /\ UNCHANGED state
  /\ UNCHANGED <<connected, waitCount, at, found, due, named, ghost>>

(* The name is set, of blanks if it was not read, before the rest of the   *)
(* discovery has happened.                                                 *)
GetCommonInfosStep(k, owed) ==
  /\ state = "GET_COMMON_INFOS"
  /\ ParseNull(k) /\ SignOfLife
  /\ named' = TRUE
  /\ state' = "FIND_DATA_HDR" /\ pos' = 1 /\ Send(owed)
  /\ UNCHANGED <<connected, requestClose, waitCount, at, found, due, ghost>>

(* model_end falls through to ENABLE_STORAGE_CONTROL. *)
EnableStorage(owed) ==
  IF "storage" \in found
  THEN state' = "ENABLE_INVERTER_CONTROL" /\ Send(owed) /\ UNCHANGED requestClose
  ELSE state' = "ENABLE_STORAGE_CONTROL" /\ requestClose' = TRUE /\ wire' = owed

FindDataHdrStep(k, owed) ==
  /\ state = "FIND_DATA_HDR"
  /\ ParseNull(k) /\ SignOfLife
  /\ \/ /\ TRUE \in Completes(k) /\ pos \in 1..Models(device)
        /\ found' = found \cup {Scan[pos]} /\ pos' = pos + 1
        /\ Send(owed) /\ UNCHANGED <<state, requestClose>>
     \/ /\ TRUE \in Completes(k) /\ pos > Models(device)
        /\ EnableStorage(owed) /\ UNCHANGED <<found, pos>>
     \/ /\ FALSE \in Completes(k) \/ pos = 0
        /\ LoseTrack(owed) /\ UNCHANGED <<state, found>>
  /\ UNCHANGED <<connected, waitCount, at, due, named, ghost>>

EnableStorageStep(owed) ==
  /\ state = "ENABLE_STORAGE_CONTROL"
  /\ EnableStorage(owed)
  /\ UNCHANGED <<connected, waitCount, at, pos, found, due, infos, ghost, halted>>

EnableInverterStep(owed) ==
  /\ state = "ENABLE_INVERTER_CONTROL"
  /\ IF "controls" \in found
     THEN /\ state' = "FETCH" /\ at' = AwaitLast
          /\ Send(owed) /\ enabled' = TRUE
          /\ UNCHANGED requestClose
     ELSE requestClose' = TRUE /\ wire' = owed /\ UNCHANGED <<state, at, enabled>>
  /\ UNCHANGED <<connected, waitCount, pos, found, due, infos, complete, halted>>

(* The chain from block `at' on: blocks that are not due are passed over,  *)
(* one without an address stops the fetch.  ..._fetched_s is set when the  *)
(* block is asked for, not when the answer comes.                          *)
Stops == {j \in at..Len(Chain) : Chain[j] \notin found \/ Chain[j] \in Always \cup due}

Ask(b, j, owed) ==
  /\ Send(owed)
  /\ due' = due \ {b} /\ at' = j + 1
  /\ UNCHANGED <<state, requestClose, complete>>

FetchStep(k, owed) ==
  /\ state = "FETCH"
  /\ IF k = "null" \/ at = 1 THEN UNCHANGED <<active, power>>
                             ELSE SignOfLife
  /\ IF Stops = {}
     THEN /\ state' = "IDLE" /\ wire' = owed
          /\ complete' = IF complete = "started" /\ k = "answer" THEN "done" ELSE complete
          /\ UNCHANGED <<requestClose, due, at>>
     ELSE \E j \in Stops :
            /\ \A i \in Stops : j <= i
            /\ IF Chain[j] \in found
               THEN Ask(Chain[j], j, owed)
               ELSE /\ state' = "IDLE" /\ requestClose' = TRUE /\ wire' = owed
                    /\ UNCHANGED <<due, at, complete>>
  /\ UNCHANGED <<connected, waitCount, pos, found, named, enabled, halted>>

(* advance_context_state: k is the segment in p or "null", owed the        *)
(* answers still owed without it.                                          *)
Advance(k, owed) ==
  /\ \/ IdleStep(owed) \/ ConnectingStep(owed) \/ CheckSunsStep(k, owed)
     \/ FindCommonHdrStep(k, owed) \/ GetCommonInfosStep(k, owed)
     \/ FindDataHdrStep(k, owed) \/ EnableStorageStep(owed)
     \/ EnableInverterStep(owed) \/ FetchStep(k, owed)
  /\ waitReceive' = (waitReceive /\ state' # "IDLE")
  /\ notified' = (notified \/ (state' = "IDLE" /\ state # "IDLE"))
  /\ UNCHANGED <<device, wifi>>

-----------------------------------------------------------------------------
(* modbus_task *)

Fault == trouble > 0 /\ trouble' = trouble - 1
Fine == UNCHANGED trouble

(* A callback lwIP will run once the network has delivered what is on its way. *)
Deliverable == (link = "synSent" /\ device # "gone") \/ (link = "open" /\ wire # <<>>)

(* A round starts only with wifi_connected: without it modbus_task sleeps  *)
(* a second and looks again.  Then initiate_discover_inverters.  What is   *)
(* on its way arrives before the next round (main.cpp 264-265), unless it  *)
(* is late.                                                                *)
DiscoverPcb ==
  /\ pc = "d_pcb" /\ wifi
  /\ complete' = "none"
  /\ \/ Deliverable /\ Fault /\ pc' = "d_check" /\ UNCHANGED link
     \/ link = "none" /\ Fine /\ pc' = "d_check" /\ link' = "closed"
     \/ link = "none" /\ Fault /\ pc' = "r_clear" /\ UNCHANGED link   (* tcp_new failed *)
     \/ link # "none" /\ ~Deliverable /\ Fine /\ pc' = "d_check" /\ UNCHANGED link
  /\ UNCHANGED <<context, infos, notified, expired, net, enabled, wifi, halted>>

DiscoverCheck ==
  /\ pc = "d_check"
  /\ pc' = IF link = "none" \/ connected THEN "r_clear" ELSE "d_mark"
  /\ UNCHANGED <<link, context, infos, notified, expired, net, ghost, trouble, wifi, halted>>

DiscoverMark ==
  /\ pc = "d_mark" /\ pc' = "d_await"
  /\ state' = "CONNECTING"
  /\ UNCHANGED <<link, connected, waitReceive, requestClose, waitCount, at, pos, found, due,
                 infos, notified, expired, net, ghost, trouble, wifi, halted>>

Await == /\ waitReceive' = TRUE
         /\ UNCHANGED <<link, connected, requestClose, waitCount, state, at, pos, found, due,
                        infos, notified, expired, net, ghost, trouble, wifi, halted>>

(* The connection dialled earlier may come up before this assignment.      *)
DiscoverAwait == pc = "d_await" /\ pc' = "d_connect" /\ Await

DiscoverConnect ==
  /\ pc = "d_connect" /\ pc' = "r_clear"
  /\ \/ /\ link = "closed" /\ link' = "synSent"
        /\ \/ Fine /\ device' = IF device = "gone" THEN "gone" ELSE "inverter"
           \/ Fault /\ device # "gone" /\ device' \in Devices \ {"inverter"}
     \/ link = "closed" /\ Fault /\ UNCHANGED <<link, device>>
     \/ link # "closed" /\ Fine /\ UNCHANGED <<link, device>>
  /\ UNCHANGED <<context, infos, notified, expired, wire, ghost, wifi, halted>>

(* initiate_retrieve_infos_all *)
RetrieveClear ==
  /\ pc = "r_clear" /\ pc' = "r_check"
  /\ notified' = FALSE
  /\ UNCHANGED <<link, context, infos, expired, net, ghost, trouble, wifi, halted>>

RetrieveCheck ==
  /\ pc = "r_check"
  /\ pc' = IF named /\ connected /\ state = "IDLE" THEN "r_await" ELSE "w_check"
  /\ UNCHANGED <<link, context, infos, notified, expired, net, ghost, trouble, wifi, halted>>

RetrieveAwait == pc = "r_await" /\ pc' = "r_mark" /\ Await

(* START_DATA_FETCH falls through to GET_INVERTER_INFOS.  A late answer in  *)
(* IDLE may have taken wait_receive back by now.                           *)
RetrieveMark ==
  /\ pc = "r_mark" /\ pc' = "r_send"
  /\ state' = "FETCH" /\ at' = 1 /\ complete' = "started"
  /\ UNCHANGED <<link, connected, waitReceive, requestClose, waitCount, pos, found, due,
                 infos, notified, expired, net, enabled, trouble, wifi, halted>>

RetrieveSend ==
  /\ pc = "r_send" /\ pc' = "w_check"
  /\ UNCHANGED <<link, expired, trouble>>
  /\ Advance("null", wire)

(* wait_all *)
WaitCheck ==
  /\ pc = "w_check"
  /\ pc' = IF connected /\ waitReceive THEN "w_take" ELSE "w_active"
  /\ UNCHANGED <<link, context, infos, notified, expired, net, ghost, trouble, wifi, halted>>

WaitTake ==
  /\ pc = "w_take" /\ pc' = "w_active"
  /\ IF notified \/ ~Deliverable THEN Fine ELSE Fault     (* the time is over *)
  /\ notified' = FALSE
  /\ UNCHANGED <<link, context, infos, expired, net, ghost, wifi, halted>>

WaitActiveOnlyWhenClosing ==
  /\ pc = "w_active" /\ pc' = IF active \/ ~requestClose THEN "w_judge" ELSE "w_zero"
  /\ UNCHANGED <<link, context, infos, notified, expired, net, ghost, trouble, wifi, halted>>

WaitActive ==
  /\ pc = "w_active" /\ pc' = IF active THEN "w_judge" ELSE "w_zero"
  /\ UNCHANGED <<link, context, infos, notified, expired, net, ghost, trouble, wifi, halted>>

WaitZero ==
  /\ pc = "w_zero" /\ pc' = "w_judge"
  /\ power' = "zero"
  /\ UNCHANGED <<link, context, named, active, notified, expired, net, ghost, trouble, wifi, halted>>

(* The definitions that end in a mistake's name (ForgetsReset, ...) are    *)
(* mutants, used by no action: PROJECT.json lists what catches each.       *)
CountForgetsReset(waits) == expired' = (waits > MaxWaits) /\ waitCount' = waits
Count(waits) == /\ expired' = (waits > MaxWaits)
                /\ waitCount' = IF waits > MaxWaits THEN 0 ELSE waits

WaitJudge ==
  /\ pc = "w_judge"
  /\ Count((IF state = "IDLE" THEN 0 ELSE waitCount) + 1)
  /\ waitReceive' = (waitReceive /\ state # "IDLE")
  /\ pc' = IF requestClose \/ expired' THEN "w_close" ELSE "d_pcb"
  /\ UNCHANGED <<link, connected, requestClose, state, at, pos, found, due, infos,
                 notified, net, ghost, trouble, wifi, halted>>

HangUp == link' = "none" /\ wire' = <<>>

WaitClose ==
  /\ pc = "w_close" /\ pc' = "w_reset"
  /\ HangUp
  /\ UNCHANGED <<context, infos, notified, expired, device, ghost, trouble, wifi, halted>>

ResetKeepsName == UNCHANGED named
ResetName == named' = (named /\ expired)

WaitReset ==
  /\ pc = "w_reset" /\ pc' = "d_pcb"
  /\ connected' = FALSE /\ requestClose' = FALSE /\ ResetName
  /\ expired' = FALSE
  /\ UNCHANGED <<link, waitReceive, waitCount, state, at, pos, found, due, active, power,
                 notified, net, ghost, trouble, wifi, halted>>

ModbusTask == DiscoverPcb \/ DiscoverCheck \/ DiscoverMark \/ DiscoverAwait \/ DiscoverConnect
              \/ RetrieveClear \/ RetrieveCheck \/ RetrieveAwait \/ RetrieveMark \/ RetrieveSend
              \/ WaitCheck \/ WaitTake \/ WaitActive \/ WaitZero \/ WaitJudge
              \/ WaitClose \/ WaitReset

-----------------------------------------------------------------------------
(* The tcpip thread *)

ConnectCb ==
  /\ link = "synSent" /\ device # "gone" /\ link' = "open"
  /\ Advance("null", wire)
  /\ UNCHANGED <<pc, expired, trouble>>

(* For the end of the peer's stream lwIP passes a null pbuf. *)
RecvCb ==
  /\ link = "open" /\ wire # <<>>
  /\ IF Head(wire) = "fin"
     THEN link' = "peerClosed" /\ Advance("null", <<>>)
     ELSE UNCHANGED link /\ Advance(Head(wire), Tail(wire))
  /\ UNCHANGED <<pc, expired, trouble>>

(* tcp_err_cb: lwIP has freed the pcb. *)
ErrCbForgetsNotify ==
  /\ Fault /\ link \in {"synSent", "open", "peerClosed", "stalled"}
  /\ HangUp
  /\ connected' = FALSE /\ state' = "IDLE"
  /\ UNCHANGED <<waitReceive, requestClose, waitCount, at, pos, found, due, infos,
                 task, device, ghost, wifi, halted>>

ErrCbForgetsConnected ==
  /\ Fault /\ link \in {"synSent", "open", "peerClosed", "stalled"}
  /\ HangUp
  /\ state' = "IDLE" /\ notified' = TRUE
  /\ UNCHANGED <<connected, waitReceive, requestClose, waitCount, at, pos, found, due, infos,
                 pc, expired, device, ghost, wifi, halted>>

ErrCb ==
  /\ Fault /\ link \in {"synSent", "open", "peerClosed", "stalled"}
  /\ HangUp
  /\ connected' = FALSE /\ state' = "IDLE" /\ notified' = TRUE
  /\ UNCHANGED <<waitReceive, requestClose, waitCount, at, pos, found, due, infos,
                 pc, expired, device, ghost, wifi, halted>>

TcpIp == ConnectCb \/ RecvCb \/ ErrCb

(* What the network and the device do: a request was not sent or is not    *)
(* answered; an answer comes in two segments; the peer closes its side; or *)
(* the receive window is used up, as nothing calls tcp_recved.             *)
Unanswered == Last(wire) = "answer" /\ wire' = Front(wire) /\ UNCHANGED link
Split == Last(wire) = "answer" /\ wire' = Front(wire) \o <<"part", "rest">> /\ UNCHANGED link
PeerCloses == /\ "fin" \notin Range(wire) /\ wire' = Append(wire, "fin")
              /\ UNCHANGED link
Stall == link' = "stalled" /\ wire' = <<>>

Network ==
  /\ Fault /\ link = "open"
  /\ (wire # <<>> /\ (Unanswered \/ Split)) \/ PeerCloses \/ Stall
  /\ UNCHANGED <<context, infos, task, device, ghost, wifi, halted>>

(* Ten seconds without an answer, and none on its way. *)
Silence == /\ active /\ active' = FALSE /\ ~Deliverable
           /\ UNCHANGED <<link, context, named, power, task, net, ghost, trouble, wifi, halted>>

(* A block is old enough to be fetched again. *)
GrowsOld(b) == /\ b \in Timed \ due
               /\ due' = due \cup {b}
               /\ UNCHANGED <<link, connected, waitReceive, requestClose, waitCount, state,
                              at, pos, found, infos, task, net, ghost, trouble, wifi, halted>>

Clock == Silence \/ \E b \in Timed : GrowsOld(b)

(* wifi_task follows the link, and a new choice of wifi puts it down.      *)
WifiChanges == /\ wifi' = ~wifi
               /\ UNCHANGED <<link, context, infos, task, net, ghost, trouble, halted>>

(* The panic of a failed lwIP assertion stops the board. *)
Halted == halted /\ UNCHANGED vars

Next == \/ ~halted /\ (ModbusTask \/ TcpIp \/ Network \/ Clock \/ WifiChanges)
        \/ Halted

Spec == Init /\ [][Next]_vars

(* modbus_task keeps running, between rounds only for as long as           *)
(* wifi_connected stays TRUE; lwIP delivers what arrived.                  *)
Fairness == /\ WF_vars(~halted /\ ModbusTask)
            /\ WF_vars(~halted /\ (ConnectCb \/ RecvCb))

FairSpec == Spec /\ Fairness

-----------------------------------------------------------------------------
(* The values of context_t and what inverters() publishes of its index,    *)
(* and of the connection; a fetch is at one block of the chain.            *)
TypeOK ==
  /\ link \in {"none", "closed", "synSent", "open", "peerClosed", "stalled"}
  /\ connected \in BOOLEAN /\ waitReceive \in BOOLEAN /\ requestClose \in BOOLEAN
  /\ waitCount \in 0..MaxWaits /\ state \in States
  /\ at \in 1..AwaitLast /\ pos \in 0..(Len(Scan) + 1)
  /\ found \subseteq Blocks /\ due \subseteq Blocks
  /\ named \in BOOLEAN /\ active \in BOOLEAN /\ power \in {"zero", "read"}
  /\ notified \in BOOLEAN /\ expired \in BOOLEAN
  /\ pc \in {"d_pcb", "d_check", "d_mark", "d_await", "d_connect", "r_clear", "r_check",
             "r_await", "r_mark", "r_send", "w_check", "w_take", "w_active", "w_zero", "w_judge", "w_close",
             "w_reset"}
  /\ device \in Devices /\ wire \in Seq({"answer", "part", "rest", "fin"})
  /\ enabled \in BOOLEAN /\ complete \in {"none", "started", "done"}
  /\ trouble \in 0..MaxTrouble /\ wifi \in BOOLEAN /\ halted \in BOOLEAN

(* modbus_task does not sleep in wait_all on an inverter that is done. *)
NoMissedWakeup == pc = "w_take" /\ state = "IDLE" => notified

(* The connection of an inverter is the one of the meter: it stalls        *)
(* without anyone noticing, comes up only when it is being waited for, and *)
(* connected says when it is there.                                        *)
Conn == INSTANCE Connection WITH link <- IF link = "stalled" THEN "open" ELSE link
ImplementsConnection == Conn!Spec

(* As long as there is an inverter and the wifi is up, fetches of it keep  *)
(* completing, whatever was going on when the last trouble came, the       *)
(* discovery included.                                                     *)
Recovers == []<>(complete = "done" \/ device = "gone" \/ ~wifi \/ halted)

(* The readings of an inverter that has fallen silent do not stand,        *)
(* provided that the wifi stays up: while it is down nobody comes to       *)
(* wait_all (main.cpp 211-214), and the last readings stand as new.        *)
StaleIsZeroed == ~active ~> (power = "zero" \/ active \/ ~wifi \/ halted)

(* src/include/inverter.h:8 "used to retrieve and set power information    *)
(* for all inverters": once the wifi stays up, an inverter is told to obey *)
(* the control registers.                                                  *)
ControlGetsEnabled == <>[]wifi => <>(enabled \/ device = "gone" \/ halted)

=============================================================================
