------------------------------ MODULE TcpServer ------------------------------
(***************************************************************************)
(* tcp_server (src/include/tcp_server/tcp_server.h): client_pcbs, in which *)
(* a slot is taken on accept and freed on the ways a connection ends, and  *)
(* the buffers a request and its answer take.  All its callbacks run in    *)
(* lwIP's tcpip thread, so one is over before the next begins; `call' is   *)
(* the request in progress.                                                *)
(*                                                                         *)
(* lwIP is a pool of pcbs.  An ended connection is freed at once or left   *)
(* closing, and a pcb that is free again may be given to a new connection. *)
(* Nothing calls tcp_recved, so a connection takes no more than Window     *)
(* segments; an answer fills one unit of the Room of the send buffer.      *)
(***************************************************************************)
EXTENDS Naturals

CONSTANTS Pcbs, NoPcb, NoCall,
          MaxClients,   (* message_buffers: slots, and buffers each way      *)
          Window,       (* TCP_WND                                           *)
          Room          (* TCP_SND_BUF                                       *)

ASSUME ServerAssumption ==
  /\ MaxClients \in Nat \ {0} /\ Window \in Nat /\ Room \in Nat \ {0}
  /\ NoPcb \notin Pcbs
  /\ NoCall \notin [pcb : Pcbs, recv : 1..MaxClients, send : 0..MaxClients]

VARIABLES client_pcbs,
          used,         (* the buffers taken, to receive and to send         *)
          call,         (* the pcb and the buffers of the request, send = 0  *)
                        (* as long as it has none                            *)
          pool,         (* of each pcb, lwIP's side of it                    *)
          window,       (* of each pcb, the segments that may still come     *)
          unacked,      (* of each pcb, what it has in the send buffer       *)
          owed,         (* of each pcb, the requests not answered            *)
          stopped       (* why the tcpip thread does nothing sensible more   *)

conn == <<window, unacked, owed>>
vars == <<client_pcbs, used, call, pool, conn, stopped>>

Slots == 1..MaxClients

(* Those whose callbacks are the ones of the server. *)
Served == {p \in Pcbs : pool[p] = "served"}
SlotsOf(p) == {i \in Slots : client_pcbs[i] = p}
Unused(buffers) == Slots \ buffers
First(i, S) == i \in S /\ \A j \in S : i <= j

(* A connection that ended leaves nothing to its pcb. *)
Forget(pcbs) ==
  /\ window' = [p \in Pcbs |-> IF p \in pcbs THEN 0 ELSE window[p]]
  /\ unacked' = [p \in Pcbs |-> IF p \in pcbs THEN 0 ELSE unacked[p]]
  /\ owed' = [p \in Pcbs |-> IF p \in pcbs THEN 0 ELSE owed[p]]

Init == /\ client_pcbs = [i \in Slots |-> NoPcb]
        /\ used = [recv |-> {}, send |-> {}]
        /\ call = NoCall
        /\ pool = [p \in Pcbs |-> "free"]
        /\ window = [p \in Pcbs |-> 0]
        /\ unacked = [p \in Pcbs |-> 0]
        /\ owed = [p \in Pcbs |-> 0]
        /\ stopped = "no"

-----------------------------------------------------------------------------
(* clear_client_pcb for the slots I; lwIP frees `gone' afterwards anyway.  *)
(* tcp_close of a pcb that is free already leaves the pool corrupt.        *)
Clear(I, gone) ==
  LET pcbs == {client_pcbs[i] : i \in I} \cap Pcbs
  IN \E freed \in SUBSET pcbs :
       /\ client_pcbs' = [i \in Slots |-> IF i \in I THEN NoPcb ELSE client_pcbs[i]]
       /\ pool' = [p \in Pcbs |-> CASE p \in freed \cup gone -> "free"
                                    [] p \in pcbs \ (freed \cup gone) -> "closing"
                                    [] OTHER -> pool[p]]
       /\ stopped' = IF \/ \E p \in pcbs : pool[p] = "free"
                        \/ \E i, j \in I : i # j /\ client_pcbs[i] = client_pcbs[j]
                                           /\ client_pcbs[i] \in freed
                     THEN "corrupt" ELSE stopped
       /\ Forget(pcbs \cup gone)

(* tcp_server_result of a failure: with a client its slots are cleared,    *)
(* without one all are.                                                    *)
FailedFor(p) == Clear(SlotsOf(p), {})
FailedForNone(gone) == Clear(Slots, gone)

Idle == stopped = "no" /\ call = NoCall

(* Mutant: an exchange that does not compare. *)
FirstSlot(i) == First(i, Slots)

(* compare_exchange_strong finds the first slot that is free. *)
FreeSlot(i) == First(i, SlotsOf(NoPcb))

(* tcp_server_accept *)
Accept(p) ==
  /\ Idle /\ pool[p] = "free"
  /\ \/ \E i \in Slots :
          /\ FreeSlot(i)
          /\ client_pcbs' = [client_pcbs EXCEPT ![i] = p]
          /\ pool' = [pool EXCEPT ![p] = "served"]
          /\ window' = [window EXCEPT ![p] = Window]
     \/ /\ SlotsOf(NoPcb) = {}
        /\ pool' = [pool EXCEPT ![p] = "closing"]
        /\ UNCHANGED <<client_pcbs, window>>
  /\ UNCHANGED <<used, call, unacked, owed, stopped>>

(* tcp_server_accept when lwIP had no pcb for the connection *)
AcceptFails == /\ Idle /\ FailedForNone({})
               /\ UNCHANGED <<used, call>>

-----------------------------------------------------------------------------
(* tcp_server_recv: a message longer than a buffer is dropped. *)
RecvTooBig(p) ==
  /\ Idle /\ p \in Served /\ window[p] > 0
  /\ window' = [window EXCEPT ![p] = @ - 1]
  /\ UNCHANGED <<client_pcbs, used, call, pool, unacked, owed, stopped>>

Recv(p) ==
  /\ Idle /\ p \in Served /\ window[p] > 0
  /\ window' = [window EXCEPT ![p] = @ - 1]
  /\ owed' = [owed EXCEPT ![p] = @ + 1]
  /\ \/ \E r \in Slots :
          /\ First(r, Unused(used.recv))
          /\ used' = [used EXCEPT !.recv = @ \cup {r}]
          /\ call' = [pcb |-> p, recv |-> r, send |-> 0]
     \/ Unused(used.recv) = {} /\ UNCHANGED <<used, call>>
  /\ UNCHANGED <<client_pcbs, pool, unacked, stopped>>

(* lwIP aborts connections whose interface goes down.  tcp_server_err does *)
(* nothing on ERR_ABRT.                                                    *)
Abort(pcbs) ==
  /\ pool' = [p \in Pcbs |-> IF p \in pcbs THEN "free" ELSE pool[p]]
  /\ Forget(pcbs)

(* process_request up to the end of the endpoint callback, which may take  *)
(* the access point down, and the connections made through it.             *)
Process ==
  /\ stopped = "no" /\ call # NoCall /\ call.send = 0
  /\ \/ \E s \in Slots :
          /\ First(s, Unused(used.send))
          /\ used' = [used EXCEPT !.send = @ \cup {s}]
          /\ call' = [call EXCEPT !.send = s]
          /\ \E pcbs \in SUBSET Served : Abort(pcbs)
     \/ /\ Unused(used.send) = {}
        /\ used' = [used EXCEPT !.recv = @ \ {call.recv}]
        /\ call' = NoCall
        /\ UNCHANGED <<pool, conn>>
  /\ UNCHANGED <<client_pcbs, stopped>>

(* Mutant: only the buffer of the request is cleared. *)
ClearRecvOnly ==
  /\ used' = [used EXCEPT !.recv = @ \ {call.recv}]
  /\ call' = NoCall

(* recieve_buffer.clear() and send_buffer.clear() *)
ClearBuffers ==
  /\ used' = [recv |-> used.recv \ {call.recv}, send |-> used.send \ {call.send}]
  /\ call' = NoCall

(* Mutant: tcp_sndbuf is not asked. *)
WrittenBlindly(p) == /\ unacked' = [unacked EXCEPT ![p] = @ + 1]
                     /\ owed' = [owed EXCEPT ![p] = @ - 1]

(* tcp_write and tcp_output of what tcp_sndbuf has room for *)
Written(p) == /\ unacked[p] < Room
              /\ unacked' = [unacked EXCEPT ![p] = @ + 1]
              /\ owed' = [owed EXCEPT ![p] = @ - 1]

(* send_data and the rest of process_request.  The ten tries of a write    *)
(* without memory end in a failure; with the send buffer full, tcp_write   *)
(* of nothing succeeds and the loop goes on.                               *)
Answer ==
  LET p == call.pcb
  IN /\ stopped = "no" /\ call # NoCall /\ call.send # 0
     /\ \/ /\ p \in Served
           /\ Written(p) /\ ClearBuffers
           /\ UNCHANGED <<client_pcbs, pool, window, stopped>>
        \/ /\ p \in Served /\ unacked[p] < Room
           /\ FailedFor(p) /\ ClearBuffers
        \/ /\ p \in Served /\ unacked[p] = Room
           /\ stopped' = "spins"
           /\ UNCHANGED <<client_pcbs, used, call, pool, conn>>
        \/ /\ p \notin Served
           /\ stopped' = "corrupt"
           /\ UNCHANGED <<client_pcbs, used, call, pool, conn>>

-----------------------------------------------------------------------------
(* tcp_server_recv without a pbuf: the peer closes. *)
RecvFin(p) == /\ Idle /\ p \in Served /\ FailedFor(p)
              /\ UNCHANGED <<used, call>>

(* Mutant: only a client that waits for a response is removed. *)
PollUnanswered(p) == /\ Idle /\ p \in Served /\ owed[p] > 0 /\ FailedFor(p)
                     /\ UNCHANGED <<used, call>>

(* tcp_server_poll *)
Poll(p) == /\ Idle /\ p \in Served /\ FailedFor(p)
           /\ UNCHANGED <<used, call>>

(* tcp_server_err for a reset *)
ErrReset(p) == /\ Idle /\ p \in Served /\ FailedForNone({p})
               /\ UNCHANGED <<used, call>>

(* tcp_server_err for aborts: wifi_search_task turns the station off. *)
ErrAbort == /\ Idle
            /\ \E pcbs \in (SUBSET Served) \ {{}} : Abort(pcbs)
            /\ UNCHANGED <<client_pcbs, used, call, stopped>>

(* tcp_server_sent does nothing, lwIP has Room again. *)
Acked(p) == /\ Idle /\ p \in Served /\ unacked[p] > 0
            /\ unacked' = [unacked EXCEPT ![p] = @ - 1]
            /\ UNCHANGED <<client_pcbs, used, call, pool, window, owed, stopped>>

Closed(p) == /\ Idle /\ pool[p] = "closing"
             /\ pool' = [pool EXCEPT ![p] = "free"]
             /\ UNCHANGED <<client_pcbs, used, call, conn, stopped>>

Halted == stopped # "no" /\ UNCHANGED vars

Next == \/ \E p \in Pcbs : \/ Accept(p) \/ RecvTooBig(p) \/ Recv(p) \/ RecvFin(p)
                           \/ Poll(p) \/ ErrReset(p) \/ Acked(p) \/ Closed(p)
        \/ AcceptFails \/ Process \/ Answer \/ ErrAbort
        \/ Halted

Spec == Init /\ [][Next]_vars

(* The tcpip thread serves due timers between any two messages, and a      *)
(* connection whose window is used up is polled sooner or later.           *)
Fairness == /\ WF_vars(Process) /\ WF_vars(Answer)
            /\ \A p \in Pcbs : SF_vars(Poll(p))

FairSpec == Spec /\ Fairness

-----------------------------------------------------------------------------
TypeOK ==
  /\ client_pcbs \in [Slots -> Pcbs \cup {NoPcb}]
  /\ used \in [recv : SUBSET Slots, send : SUBSET Slots]
  /\ call \in [pcb : Pcbs, recv : Slots, send : 0..MaxClients] \cup {NoCall}
  /\ pool \in [Pcbs -> {"free", "served", "closing"}]
  /\ window \in [Pcbs -> 0..Window]
  /\ unacked \in [Pcbs -> 0..Room]
  /\ owed \in [Pcbs -> Nat]
  /\ stopped \in {"no", "spins", "corrupt"}

(* The server knows every connection it serves: one in no slot would take  *)
(* the server's callbacks but neither poll nor error could ever close it.  *)
ServedIsHeld == \A p \in Served : SlotsOf(p) # {}

(* No request is dropped for want of a buffer, however many came before    *)
(* and whatever became of them: between callbacks a served connection has  *)
(* the answer to all it asked.                                             *)
NothingOwed == Idle => \A p \in Served : owed[p] = 0

(* A connection is not served for ever, even if the peer falls silent.     *)
ServedEnds == \A p \in Pcbs : p \in Served ~> (p \notin Served \/ stopped # "no")

(* tcp_server.h:164 says a failure without a client deinitializes no       *)
(* client: only the end of its own connection frees a slot.                *)
FailureSparesOthers ==
  [][\A p \in Pcbs, q \in Pcbs : ErrReset(p) /\ q # p /\ q \in Served => q \in Served']_vars

=============================================================================
