--------------------------- MODULE WifiConnection ---------------------------
(***************************************************************************)
(* wifi_search_task (src/src/main.cpp) with wifi_storage and access_point  *)
(* (src/include): the board joins the network of the stored credentials,   *)
(* and opens its own access point when it has been offline for a while.    *)
(*                                                                         *)
(* The credentials are written by the web server, the USB commands and the *)
(* page of the display, all in the same way, while the task runs.  A       *)
(* password is named after the network it opens; those that are too short  *)
(* to be tried are Nothing.  The driver is asked for a pair and brings the *)
(* link up, if it is a right one and the network is in range.              *)
(*                                                                         *)
(* `dt' is in seconds of which one round takes one or two, and the seconds *)
(* are cut to Period (30), RetryAt (7) and ApTimeout (10).                 *)
(***************************************************************************)
EXTENDS Naturals, FiniteSets, NtpClient

CONSTANTS Networks, Nothing,
          WrongPassword,               (* one that opens none of the networks *)
          Others,                      (* networks nobody has a password for  *)
          MaxWifis,                    (* MAX_DISCOVERED_WIFIS               *)
          Period, RetryAt, ApTimeout

Passwords == Networks \cup {WrongPassword}

ASSUME WifiAssumption ==
  /\ Nothing \notin Passwords /\ WrongPassword \notin Networks
  /\ Others \cap Networks = {}
  /\ MaxWifis \in Nat \ {0}
  /\ RetryAt \in Nat /\ ApTimeout \in Nat /\ Period \in Nat
  /\ RetryAt < ApTimeout /\ ApTimeout < Period

VARIABLES ssid_wifi, pwd_wifi,
          wifi_changed, wifi_connected,
          wifis,      (* the networks found                                  *)
          typed,      (* the password of a writer that has set the ssid only *)
          asked,      (* the credentials the driver was last asked to join   *)
          link,       (* is the link up                                      *)
          active,     (* the access point                                    *)
          pc,         (* of wifi_search_task                                 *)
          dt

memory == <<ssid_wifi, pwd_wifi, typed>>
driver == <<asked, link>>
wifi == <<memory, driver, wifi_changed, wifi_connected, wifis, active, pc, dt>>
vars == <<wifi, time>>

NoCredentials == <<Nothing, Nothing>>

Init == /\ ssid_wifi \in Networks \cup {Nothing}
        /\ pwd_wifi \in Passwords \cup {Nothing}
        /\ wifi_changed = TRUE /\ wifi_connected = FALSE
        /\ wifis = {} /\ typed = Nothing
        /\ asked = NoCredentials /\ link = FALSE
        /\ active = (ssid_wifi = Nothing)
        /\ pc = "look" /\ dt = 0
        /\ NtpInit

-----------------------------------------------------------------------------
(* A writer sets the ssid, then the password and the flags. *)
SetSsid ==
  /\ typed = Nothing
  /\ ssid_wifi' \in Networks /\ typed' \in Passwords
  /\ UNCHANGED <<pwd_wifi, driver, wifi_changed, wifi_connected, wifis, active, pc, dt, time>>

SetPassword ==
  /\ typed # Nothing
  /\ pwd_wifi' = typed /\ typed' = Nothing
  /\ wifi_connected' = FALSE /\ wifi_changed' = TRUE
  /\ UNCHANGED <<ssid_wifi, driver, wifis, active, pc, dt, time>>

(* The access point switched by hand, from the web page or by USB. *)
ApByHand == /\ active' = ~active
            /\ UNCHANGED <<memory, driver, wifi_changed, wifi_connected, wifis, pc, dt, time>>

(* disable_wifi by USB. *)
DisableWifi == /\ link' = FALSE /\ asked' = NoCredentials
               /\ UNCHANGED <<memory, wifi_changed, wifi_connected, wifis, active, pc, dt, time>>

(* Mutant of Room: the list is not full before it has overflown.           *)
RoomForOneMore == Cardinality(wifis) <= MaxWifis
Room == Cardinality(wifis) < MaxWifis

(* _scan_result: a network is found, if there is room for it. *)
ScanResult ==
  /\ Room
  /\ \E n \in (Networks \cup Others) \ wifis : wifis' = wifis \cup {n}
  /\ UNCHANGED <<memory, driver, wifi_changed, wifi_connected, active, pc, dt, time>>

(* The driver joins, or the link is lost. *)
LinkUp ==
  /\ ~link /\ asked # NoCredentials /\ asked[1] = asked[2]
  /\ link' = TRUE
  /\ UNCHANGED <<memory, asked, wifi_changed, wifi_connected, wifis, active, pc, dt, time>>

LinkDown ==
  /\ link /\ link' = FALSE
  /\ UNCHANGED <<memory, asked, wifi_changed, wifi_connected, wifis, active, pc, dt, time>>

-----------------------------------------------------------------------------
(* update_wifi_connection: look at the link and at what there is to do. *)
Look ==
  /\ pc = "look"
  /\ wifi_connected' = link
  /\ pc' = IF wifi_changed /\ ssid_wifi \in wifis /\ pwd_wifi # Nothing
           THEN "restart" ELSE "judge"
  /\ UNCHANGED <<memory, driver, wifi_changed, wifis, active, dt, time>>

RestartSta ==
  /\ pc = "restart" /\ pc' = "connect"
  /\ asked' = NoCredentials /\ link' = FALSE
  /\ UNCHANGED <<memory, wifi_changed, wifi_connected, wifis, active, dt, time>>

(* cyw43_arch_wifi_connect_async, which may fail. *)
Connect ==
  /\ pc = "connect" /\ pc' = "connected"
  /\ asked' = <<ssid_wifi, pwd_wifi>>
  /\ UNCHANGED <<memory, link, wifi_changed, wifi_connected, wifis, active, dt, time>>

ConnectFails ==
  /\ pc = "connect" /\ pc' = "judge"
  /\ UNCHANGED <<memory, driver, wifi_changed, wifi_connected, wifis, active, dt, time>>

ResetChanged ==
  /\ pc = "connected" /\ pc' = "judge"
  /\ wifi_changed' = FALSE
  /\ UNCHANGED <<memory, driver, wifi_connected, wifis, active, dt, time>>

(* Mutants of Judge: the retry only once; the access point not again.      *)
RetryDueOnce(d) == d = RetryAt
RetryDue(d) == d % Period = RetryAt

TimedOutOnce(d) == d = ApTimeout + 1
TimedOut(d) == d > ApTimeout

(* dt counts on from one round to the next; beyond its last use it repeats *)
(* with the period.                                                        *)
Elapsed(seconds) ==
  LET d == (IF wifi_connected THEN 0 ELSE dt) + seconds
  IN IF d > ApTimeout + Period THEN d - Period ELSE d

(* Every round scans again and drops the networks not seen for a while.    *)
UpdateScanned == wifis' \in SUBSET wifis

(* The rest of the round: retry, access point, scan and time. *)
Judge ==
  /\ pc = "judge" /\ pc' = "look"
  /\ wifi_changed' = (wifi_changed \/ RetryDue(dt))
  /\ active' = (active \/ TimedOut(dt))
  /\ UpdateScanned
  /\ \E seconds \in {1, 2} : dt' = Elapsed(seconds)
  /\ IF wifi_connected THEN UpdateTime ELSE UNCHANGED time
  /\ UNCHANGED <<memory, driver, wifi_connected>>

WifiTask == Look \/ RestartSta \/ Connect \/ ConnectFails \/ ResetChanged \/ Judge

(* A restart of the board.  The credentials are two members of the flash,  *)
(* so they may be of two different writes.                                 *)
Reboot ==
  /\ ssid_wifi' \in {ssid_wifi, Nothing} \cup Networks
  /\ pwd_wifi' \in {pwd_wifi, Nothing} \cup Passwords
  /\ wifi_changed' = TRUE /\ wifi_connected' = FALSE
  /\ wifis' = {} /\ typed' = Nothing
  /\ asked' = NoCredentials /\ link' = FALSE
  /\ active' = (ssid_wifi' = Nothing)
  /\ pc' = "look" /\ dt' = 0
  /\ ntp_server_address' = NoServer /\ synched' = FALSE
  /\ resolved' = NoServer /\ question' = FALSE /\ requested' = {}

(* The network carries names and times while there is a link. *)
TimeStep ==
  /\ \/ link /\ \E s \in Servers : DnsFound(s) \/ Answer(s)
     \/ DnsFails \/ Expires \/ SetTime
     \/ \E s \in Servers : AnswerLost(s)
  /\ UNCHANGED wifi

Next == \/ WifiTask
        \/ SetSsid \/ SetPassword \/ ApByHand \/ DisableWifi
        \/ ScanResult \/ LinkUp \/ LinkDown
        \/ TimeStep
        \/ Reboot

Spec == Init /\ [][Next]_vars

(* The task runs on, a retry is not missed by the second for ever, and the *)
(* driver does not refuse for ever.  Names are found, entries of the table *)
(* are used up, and not every answer is lost.                              *)
FairSpec == /\ Spec /\ WF_vars(WifiTask) /\ SF_vars(Connect)
            /\ SF_vars(Judge /\ RetryDue(dt'))
            /\ SF_vars(Judge /\ ~question /\ question')
            /\ SF_vars(TimeStep /\ question /\ resolved' # NoServer)
            /\ WF_vars(TimeStep /\ Expires)
            /\ SF_vars(TimeStep /\ requested' # requested /\ synched')

-----------------------------------------------------------------------------
TypeOK ==
  /\ ssid_wifi \in Networks \cup {Nothing}
  /\ {pwd_wifi, typed} \subseteq Passwords \cup {Nothing}
  /\ {wifi_changed, wifi_connected, link, active} \subseteq BOOLEAN
  /\ wifis \subseteq Networks \cup Others /\ Cardinality(wifis) <= MaxWifis
  /\ asked \in (Networks \cup {Nothing}) \X (Passwords \cup {Nothing})
  /\ pc \in {"look", "restart", "connect", "connected", "judge"}
  /\ dt \in 0..(ApTimeout + Period)
  /\ NtpTypeOK

(* The board is never out of reach for good: whatever the credentials are, *)
(* also those that a power cut mixed, or somebody switched off, there is   *)
(* again and again a link or an access point.  Unless it keeps rebooting.  *)
StaysReachable == []<>(link \/ active) \/ []<><<Reboot>>_vars

(* The network of the credentials is there to be joined and nobody changes *)
(* them any more.                                                          *)
Settled == /\ ssid_wifi # Nothing /\ ssid_wifi = pwd_wifi /\ typed = Nothing
           /\ ssid_wifi \in wifis

(* As long as the network is there the board is not offline for good,      *)
(* whatever became of earlier attempts.                                    *)
Reconnects == SF_vars(LinkUp) /\ <>[]Settled => []<>link

(* Whoever sets a wrong time, whatever answers are lost: with a link that  *)
(* stays the board has the time again and again, although a name in lwIP's *)
(* table keeps it from asking.                                             *)
TimeIsKnown == <>[]link => []<>synched
=============================================================================
