----------------------------- MODULE MeterClient -----------------------------
(***************************************************************************)
(* The Modbus-TCP client of the SunSpec meter, src/src/meter.cpp.          *)
(*                                                                         *)
(* Two threads work on one context: modbus_task runs initiate_discover,    *)
(* initiate_retrieve_infos and wait_requests in a loop (src/src/main.cpp)  *)
(* and takes the lwIP core lock only around its lwIP calls; the tcpip      *)
(* thread runs the callbacks with that lock held.  A step of modbus_task   *)
(* here is the code between two points at which a callback can make a      *)
(* difference; a callback is one step.                                     *)
(*                                                                         *)
(* lwIP and the device are external, modelled from how the code uses       *)
(* them.  The settings' address is identified with the device that answers *)
(* there; an open connection stays with the device it was made to.         *)
(***************************************************************************)
EXTENDS Naturals, Sequences

CONSTANTS Slots,    (* the tcp_pcb structures lwIP can hand out             *)
          NoPcb,    (* the null pointer                                     *)
          Window    (* segments a peer may send on one connection: nothing  *)
                    (* calls tcp_recved, so the receive window never        *)
                    (* opens again                                          *)

ASSUME ConstantsAssumption == /\ NoPcb \notin Slots
                              /\ Window \in Nat

VARIABLES pcb, connected, requestClose, waitCount, state,  (* context_t      *)
          name,                                            (* meter_info     *)
          regs,      (* what the register mirror holds: sid, common header  *)
          fresh,     (* power_info was set from a new reading of the meter  *)
                     (* in this round of modbus_task                        *)
          notified,  (* task notification MAX_INVERTERS of modbus_task      *)
          pc, expired,               (* modbus_task: place, local `timeout` *)
          pool,                      (* lwIP: state of every pcb            *)
          peer, wire, window,        (* the connection: device at the other *)
                                     (* end, answers it owes, window left   *)
          calm, halted,
          wifi       (* wifi_connected: without it modbus_task starts no round  *)

client == <<pcb, connected, requestClose, waitCount, state, name, regs, fresh>>
net == <<pool, peer, wire, window>>
vars == <<client, notified, pc, expired, net, calm, wifi, halted>>

(* "meter" is SunSpec with the common and meter models, "inverter" is      *)
(* SunSpec without the meter model, "alien" is no SunSpec device.          *)
Devices == {"meter", "inverter", "alien"}
Requests == {"suns", "hdr", "data"}
States == {"IDLE", "CONNECTING", "CHECK_SUNS", "FIND_COMMON_HDR", "FETCH_DATA",
           "WAIT_DATA_RESPONSE"}
Names == {"NOT_CONNECTED", "CONNECTING", "known"}
Attached == {"closed", "synSent", "open", "peerClosed"}  (* has our callbacks *)
Established == {"open", "peerClosed"}
MaxWaits == 3

Init == /\ pcb = NoPcb /\ connected = FALSE /\ requestClose = FALSE
        /\ waitCount = 0 /\ state = "IDLE"
        /\ name = "NOT_CONNECTED"
        /\ regs = [suns |-> FALSE, hdr |-> FALSE]
        /\ fresh = FALSE /\ notified = FALSE
        /\ pc = "d_pcb" /\ expired = FALSE
        /\ pool = [s \in Slots |-> "free"]
        /\ peer = "meter" /\ wire = <<>> /\ window = 0
        /\ calm = FALSE /\ wifi = FALSE /\ halted = FALSE

-----------------------------------------------------------------------------
(* request_modbus_registers, request_send: errors are only logged, so the  *)
(* request joins the answers owed, `owed', or is lost.  Without a          *)
(* connection nobody looks at wire until the next tcp_connect empties it.  *)
Send(r, owed) == \/ wire' = Append(owed, r)
                 \/ ~calm /\ wire' = owed

(* What the mirror is waiting for in each state. *)
Expected == CASE state = "CHECK_SUNS" -> "suns"
              [] state = "FIND_COMMON_HDR" -> "hdr"
              [] OTHER -> "data"

(* parse_modbus_frame: whether a frame is complete after segment k.  The   *)
(* first part of a frame completes nothing; whether the rest of one does   *)
(* depends on what the parser was reset to in between.                     *)
Completes(k) == IF k = Expected THEN {TRUE}
                ELSE IF k = "rest" THEN BOOLEAN ELSE {FALSE}

(* A null pbuf in parse_modbus_frame is logged and then dereferenced.      *)
ParseNull(k) == halted' \in (IF k = "null" THEN BOOLEAN ELSE {FALSE})

IdleStep(owed) ==
  /\ state = "IDLE"
  /\ waitCount' = 0 /\ wire' = owed
  /\ UNCHANGED <<connected, requestClose, state, name, regs, fresh, halted>>

ConnectingStep(owed) ==
  /\ state = "CONNECTING"
  /\ connected' = TRUE
  /\ IF name = "known" THEN state' = "IDLE" /\ wire' = owed
                       ELSE state' = "CHECK_SUNS" /\ Send("suns", owed)
  /\ UNCHANGED <<requestClose, waitCount, name, regs, fresh, halted>>

CheckSunsStep(k, owed) ==
  /\ state = "CHECK_SUNS"
  /\ ParseNull(k)
  /\ \E done \in Completes(k) :
       LET sid == IF done THEN peer # "alien" ELSE regs.suns IN
       /\ regs' = [regs EXCEPT !.suns = sid]
       /\ IF sid
          THEN state' = "FIND_COMMON_HDR" /\ Send("hdr", owed) /\ UNCHANGED requestClose
          ELSE requestClose' = TRUE /\ wire' = owed /\ UNCHANGED state
  /\ UNCHANGED <<connected, waitCount, name, fresh>>

FindCommonHdrStep(k, owed) ==
  /\ state = "FIND_COMMON_HDR"
  /\ ParseNull(k)
  /\ \E done \in Completes(k) :
       LET ok == IF done THEN peer = "meter" ELSE regs.hdr IN
       /\ regs' = [regs EXCEPT !.hdr = ok]
       /\ IF ok THEN name' = "known" /\ UNCHANGED requestClose
                ELSE requestClose' = TRUE /\ UNCHANGED name
  /\ state' = "IDLE" /\ wire' = owed
  /\ UNCHANGED <<connected, waitCount, fresh>>

FetchDataStep(owed) ==
  /\ state = "FETCH_DATA"
  /\ state' = "WAIT_DATA_RESPONSE" /\ Send("data", owed)
  /\ UNCHANGED <<connected, requestClose, waitCount, name, regs, fresh, halted>>

(* The power is published whatever was parsed: after a null pbuf or a part *)
(* of a frame it is the previous reading once more.                        *)
WaitDataStep(k, owed) ==
  /\ state = "WAIT_DATA_RESPONSE"
  /\ \E done \in Completes(k) : fresh' = (fresh \/ (done /\ peer = "meter"))
  /\ state' = "IDLE" /\ wire' = owed
  /\ UNCHANGED <<connected, requestClose, waitCount, name, regs, halted>>

(* advance_context_state: k is the segment in p or "null", owed the        *)
(* answers still owed without it.                                          *)
Advance(k, owed) ==
  /\ \/ IdleStep(owed) \/ ConnectingStep(owed) \/ CheckSunsStep(k, owed)
     \/ FindCommonHdrStep(k, owed) \/ FetchDataStep(owed) \/ WaitDataStep(k, owed)
  /\ notified' = (notified \/ (state' = "IDLE" /\ state # "IDLE"))
  /\ UNCHANGED <<peer, calm, wifi>>

-----------------------------------------------------------------------------
(* What modbus_task and tcp_err_cb write when the connection is gone.  The *)
(* definitions that end in a mistake's name (ForgetsPcb, ...) are mutants, *)
(* used by no action: PROJECT.json lists the property that catches each.   *)
DisconnectForgetsPcb == connected' = FALSE /\ UNCHANGED pcb
DisconnectForgetsConnected == pcb' = NoPcb /\ UNCHANGED connected
Disconnect == pcb' = NoPcb /\ connected' = FALSE

(* modbus_task *)

(* A callback lwIP will run once the network has delivered what is on its way. *)
Deliverable == \E s \in Slots : \/ pool[s] = "synSent"
                                \/ pool[s] = "open" /\ wire # <<>> /\ window > 0

(* A round starts only with wifi_connected: without it modbus_task sleeps  *)
(* a second and looks again.  Then initiate_discover, skipped without a    *)
(* configured meter: a pcb if there is none.  In calm times what is on its *)
(* way arrives in the second the rest of the loop waits (main.cpp          *)
(* 264-265).                                                               *)
DiscoverPcb ==
  /\ pc = "d_pcb" /\ wifi
  /\ calm => ~Deliverable
  /\ fresh' = FALSE
  /\ \/ /\ pcb = NoPcb
        /\ \E s \in Slots : /\ pool[s] = "free"
                            /\ pool' = [pool EXCEPT ![s] = "closed"]
                            /\ pcb' = s
        /\ pc' = "d_check"
     \/ /\ pcb # NoPcb
        /\ pc' = "d_check" /\ UNCHANGED <<pcb, pool>>
     \/ /\ ~calm                             (* no meter, or tcp_new failed *)
        /\ pc' = "r_clear" /\ UNCHANGED <<pcb, pool>>
  /\ UNCHANGED <<connected, requestClose, waitCount, state, name, regs, notified,
                 expired, peer, wire, window, calm, wifi, halted>>

DiscoverCheck ==
  /\ pc = "d_check"
  /\ pc' = IF connected THEN "r_clear" ELSE "d_mark"
  /\ UNCHANGED <<client, notified, expired, net, calm, wifi, halted>>

(* Outside the lock: connect_cb may have run since the check. *)
DiscoverMark ==
  /\ pc = "d_mark" /\ pc' = "d_connect"
  /\ state' = "CONNECTING"
  /\ UNCHANGED <<pcb, connected, requestClose, waitCount, name, regs, fresh,
                 notified, expired, net, calm, wifi, halted>>

(* tcp_connect refuses a null pcb and one that is not closed.  The address *)
(* is the one the settings had in this round.                              *)
CanConnect == pcb # NoPcb /\ pool[pcb] = "closed"

DiscoverConnect ==
  /\ pc = "d_connect" /\ pc' = "r_clear"
  /\ \/ /\ CanConnect
        /\ pool' = [pool EXCEPT ![pcb] = "synSent"]
        /\ peer' \in (IF calm THEN {"meter"} ELSE Devices)
        /\ wire' = <<>> /\ window' = Window
     \/ /\ ~(CanConnect /\ calm)
        /\ UNCHANGED net
  /\ UNCHANGED <<client, notified, expired, calm, wifi, halted>>

(* initiate_retrieve_infos *)
RetrieveClear ==
  /\ pc = "r_clear" /\ pc' = "r_check"
  /\ notified' = FALSE
  /\ UNCHANGED <<client, expired, net, calm, wifi, halted>>

RetrieveCheck ==
  /\ pc = "r_check"
  /\ pc' = IF connected /\ state = "IDLE" THEN "r_mark" ELSE "w_check"
  /\ UNCHANGED <<client, notified, expired, net, calm, wifi, halted>>

RetrieveMark ==
  /\ pc = "r_mark" /\ pc' = "r_send"
  /\ state' = "FETCH_DATA"
  /\ UNCHANGED <<pcb, connected, requestClose, waitCount, name, regs, fresh,
                 notified, expired, net, calm, wifi, halted>>

RetrieveSend ==
  /\ pc = "r_send" /\ pc' = "w_check"
  /\ Advance("null", wire)
  /\ UNCHANGED <<pcb, pool, window, expired>>

(* wait_requests *)
WaitCheckClearsNotification ==
  /\ pc = "w_check"
  /\ pc' = IF connected THEN "w_take" ELSE "d_pcb"
  /\ notified' = FALSE
  /\ UNCHANGED <<client, expired, net, calm, wifi, halted>>

WaitCheck ==
  /\ pc = "w_check"
  /\ pc' = IF connected THEN "w_take" ELSE "d_pcb"
  /\ UNCHANGED <<client, notified, expired, net, calm, wifi, halted>>

WaitTake ==
  /\ pc = "w_take" /\ pc' = "w_judge"
  /\ \/ notified
     \/ ~calm \/ ~Deliverable                       (* timeout_ms is over *)
  /\ notified' = FALSE
  /\ UNCHANGED <<client, expired, net, calm, wifi, halted>>

CountForgetsReset(waits) == expired' = (waits > MaxWaits) /\ waitCount' = waits
CountForgetsStrikes(waits) == expired' = FALSE /\ waitCount' = waitCount
Count(waits) == /\ expired' = (waits > MaxWaits)
                /\ waitCount' = IF waits > MaxWaits THEN 0 ELSE waits

WaitJudge ==
  /\ pc = "w_judge"
  /\ Count((IF state = "IDLE" THEN 0 ELSE waitCount) + 1)
  /\ pc' = IF requestClose \/ expired' THEN "w_close" ELSE "d_pcb"
  /\ UNCHANGED <<pcb, connected, requestClose, state, name, regs, fresh,
                 notified, net, calm, wifi, halted>>

(* What the model knew of a connection that is gone. *)
HangUp == peer' = "meter" /\ wire' = <<>> /\ window' = 0

(* tcp_pcb_close: after it no callback comes from this connection. *)
WaitClose ==
  /\ pc = "w_close" /\ pc' = "w_reset"
  /\ IF pcb = NoPcb THEN UNCHANGED pool ELSE pool' = [pool EXCEPT ![pcb] = "free"]
  /\ HangUp
  /\ UNCHANGED <<client, notified, expired, calm, wifi, halted>>

WaitReset ==
  /\ pc = "w_reset" /\ pc' = "d_pcb"
  /\ Disconnect /\ requestClose' = FALSE
  /\ name' = IF expired THEN name ELSE "CONNECTING"
  /\ expired' = FALSE
  /\ UNCHANGED <<waitCount, state, regs, fresh, notified, net, calm, wifi, halted>>

ModbusTask == DiscoverPcb \/ DiscoverCheck \/ DiscoverMark \/ DiscoverConnect
              \/ RetrieveClear \/ RetrieveCheck \/ RetrieveMark \/ RetrieveSend
              \/ WaitCheck \/ WaitTake \/ WaitJudge \/ WaitClose \/ WaitReset

-----------------------------------------------------------------------------
(* The tcpip thread *)

ConnectCb(s) ==
  /\ pool[s] = "synSent"
  /\ pool' = [pool EXCEPT ![s] = "open"]
  /\ pcb' = s
  /\ Advance("null", wire)
  /\ UNCHANGED <<pc, expired, window>>

(* The first answer owed arrives whole, or its first part does. *)
RecvCb(s) ==
  /\ pool[s] = "open" /\ wire # <<>> /\ window > 0
  /\ window' = window - 1
  /\ \/ Advance(Head(wire), Tail(wire))
     \/ ~calm /\ Head(wire) # "rest" /\ Advance("part", <<"rest">> \o Tail(wire))
  /\ UNCHANGED <<pcb, pool, pc, expired>>

(* The peer closes its side: lwIP calls tcp_recv_cb with a null pbuf. *)
RecvFin(s) ==
  /\ ~calm /\ pool[s] = "open"
  /\ pool' = [pool EXCEPT ![s] = "peerClosed"]
  /\ Advance("null", <<>>)
  /\ UNCHANGED <<pcb, pc, expired, window>>

(* tcp_err_cb: lwIP gave up on the connection and has freed the pcb. *)
ErrCb(s) ==
  /\ ~calm /\ pool[s] \in Attached \ {"closed"}
  /\ pool' = [pool EXCEPT ![s] = "free"]
  /\ Disconnect /\ state' = "IDLE"
  /\ notified' = TRUE
  /\ HangUp
  /\ UNCHANGED <<requestClose, waitCount, name, regs, fresh, pc, expired, calm, wifi, halted>>

(* What the network and the meter do for sure once all is calm. *)
Deliver == \E s \in Slots : ConnectCb(s) \/ RecvCb(s)

TcpIp == Deliver \/ \E s \in Slots : RecvFin(s) \/ ErrCb(s)

(* wifi_task follows the link, and a new choice of wifi puts it down.  The *)
(* sockets know nothing of it: lwIP's own timers tell what became of them. *)
WifiChanges == /\ ~calm /\ wifi' = ~wifi
               /\ UNCHANGED <<client, notified, pc, expired, net, calm, halted>>

(* From here on the wifi is up, the settings name the meter and nothing    *)
(* goes wrong.                                                             *)
Calm == /\ ~calm /\ wifi /\ calm' = TRUE
        /\ UNCHANGED <<client, notified, pc, expired, net, wifi, halted>>

(* The panic of a failed lwIP assertion stops the board. *)
Halted == halted /\ UNCHANGED vars

Next == \/ ~halted /\ (ModbusTask \/ TcpIp \/ WifiChanges \/ Calm)
        \/ Halted

Spec == Init /\ [][Next]_vars

(* Equal priorities with time slicing: modbus_task keeps running, between  *)
(* rounds only for as long as wifi_connected stays TRUE.  In calm times    *)
(* the network delivers.                                                   *)
Fairness == /\ WF_vars(~halted /\ ModbusTask)
            /\ WF_vars(~halted /\ calm /\ Deliver)

FairSpec == Spec /\ Fairness

-----------------------------------------------------------------------------
(* The values of context_t and meter_info, and lwIP's side of them: every  *)
(* pcb is in one state of a connection, and what is sent is an answer.     *)
TypeOK ==
  /\ pcb \in Slots \cup {NoPcb} /\ connected \in BOOLEAN /\ requestClose \in BOOLEAN
  /\ waitCount \in 0..MaxWaits /\ state \in States
  /\ name \in Names
  /\ regs \in [suns : BOOLEAN, hdr : BOOLEAN]
  /\ fresh \in BOOLEAN /\ notified \in BOOLEAN
  /\ pc \in {"d_pcb", "d_check", "d_mark", "d_connect", "r_clear", "r_check", "r_mark",
             "r_send", "w_check", "w_take", "w_judge", "w_close", "w_reset"}
  /\ expired \in BOOLEAN
  /\ pool \in [Slots -> Attached \cup {"free"}]
  /\ peer \in Devices /\ wire \in Seq(Requests \cup {"rest"}) /\ window \in 0..Window
  /\ calm \in BOOLEAN /\ wifi \in BOOLEAN /\ halted \in BOOLEAN

(* The context owns exactly the pcb whose callbacks reach it: no forgotten *)
(* connection can still drive the state machine, and modbus_task never     *)
(* hands lwIP a pcb that was freed.  Only between tcp_pcb_close and        *)
(* `context.pcb = {}' does the pointer dangle.                             *)
PcbOwned ==
  /\ \A s \in Slots : pool[s] \in Attached => pcb = s
  /\ pcb # NoPcb /\ pc # "w_reset" => pool[pcb] \in Attached

(* connected is never left TRUE after the connection is gone, so a fetch   *)
(* goes to an established connection.                                      *)
ConnectedIsEstablished ==
  connected /\ pc # "w_reset" => pcb # NoPcb /\ pool[pcb] \in Established

(* modbus_task does not sleep its whole timeout in wait_requests when the  *)
(* answer, or the loss of the connection, came before it went to sleep.    *)
NoMissedWakeup == pc = "w_take" /\ state = "IDLE" => notified

(* The pcbs, whichever of them lwIP hands out, and the order of callbacks  *)
(* and assignments make one connection: none is dialled twice or while an  *)
(* old one is still told of, and connected says when there is one.         *)
Link == IF pcb = NoPcb \/ pool[pcb] = "free" THEN "none" ELSE pool[pcb]
Conn == INSTANCE Connection WITH link <- Link
ImplementsConnection == Conn!Spec

(* Whatever the peer does, a request is answered or its connection is torn *)
(* down: three waits are the most modbus_task spends on it, provided that  *)
(* the wifi stays up.  While it is down no round runs and no wait is       *)
(* counted (main.cpp 211-214), so the context may stay where it is.        *)
NeverStuck ==
  connected /\ state # "IDLE" ~> (state = "IDLE" \/ ~connected \/ ~wifi \/ halted)

(* Once the settings name a meter that answers, readings of it keep coming *)
(* whatever went wrong before, although every connection stalls when its   *)
(* receive window is used up.                                              *)
Recovers == calm ~> (fresh \/ halted)

=============================================================================
