------------------------------ MODULE NtpClient ------------------------------
(***************************************************************************)
(* The time of the board (src/src/ntp_client.cpp).  update_time looks the  *)
(* server up in every round of wifi_search_task; only the callback of a    *)
(* lookup that had to be sent out (ntp_dns_found) sends a request.  As     *)
(* long as lwIP has the name in its table nothing is asked.                *)
(*                                                                         *)
(* The table of names, the network and the servers are external.  The time *)
(* is reduced to whether there is one (synched).                           *)
(***************************************************************************)
EXTENDS Naturals

CONSTANTS Servers, NoServer

ASSUME NtpAssumption == NoServer \notin Servers

VARIABLES ntp_server_address,
          synched,
          resolved,  (* what lwIP's table has for the name                    *)
          question,  (* is the name being asked for                           *)
          requested  (* the servers with a request on the way or an answer    *)

time == <<ntp_server_address, synched, resolved, question, requested>>

NtpInit == /\ ntp_server_address = NoServer /\ synched = FALSE
           /\ resolved = NoServer /\ question = FALSE /\ requested = {}

(* dns_gethostbyname answers from its table or starts to ask.  The name is *)
(* not asked for when ntp_init found no pcb or lwIP no room.               *)
UpdateTime ==
  /\ \/ resolved # NoServer /\ ntp_server_address' = resolved /\ UNCHANGED question
     \/ resolved = NoServer /\ question' = TRUE /\ UNCHANGED ntp_server_address
     \/ UNCHANGED <<ntp_server_address, question>>
  /\ UNCHANGED <<synched, resolved, requested>>

(* Mutant of DnsFound: the address is kept, as a lookup in the table does, *)
(* and nothing is asked.                                                   *)
DnsFoundOnly(s) ==
  /\ question /\ question' = FALSE
  /\ resolved' = s /\ ntp_server_address' = s
  /\ UNCHANGED <<synched, requested>>

(* ntp_dns_found with an address, and ntp_request. *)
DnsFound(s) ==
  /\ question /\ question' = FALSE
  /\ resolved' = s /\ ntp_server_address' = s
  /\ requested' = requested \cup {s}
  /\ UNCHANGED synched

DnsFails == /\ question /\ question' = FALSE
            /\ UNCHANGED <<ntp_server_address, synched, resolved, requested>>

(* The entry of the table is used up. *)
Expires == /\ resolved # NoServer /\ resolved' = NoServer
           /\ UNCHANGED <<ntp_server_address, synched, question, requested>>

(* ntp_recv takes the answer of the server it knows now only. *)
Answer(s) ==
  /\ s \in requested /\ requested' = requested \ {s}
  /\ synched' = (synched \/ s = ntp_server_address)
  /\ UNCHANGED <<ntp_server_address, resolved, question>>

AnswerLost(s) ==
  /\ s \in requested /\ requested' = requested \ {s}
  /\ UNCHANGED <<ntp_server_address, synched, resolved, question>>

(* set_time of the web page; a text that is no number is the time 0. *)
SetTime == /\ synched' \in BOOLEAN
           /\ UNCHANGED <<ntp_server_address, resolved, question, requested>>

NtpTypeOK == /\ {ntp_server_address, resolved} \subseteq Servers \cup {NoServer}
             /\ {synched, question} \subseteq BOOLEAN
             /\ requested \subseteq Servers
=============================================================================
