----------------------------- MODULE DhcpServer -----------------------------
(***************************************************************************)
(* The DHCP server of the access point (src/src/dhcpserver.c): its leases, *)
(* and the clients that ask for them.                                      *)
(*                                                                         *)
(* Time is counted in units of 65536 ms, what `expiry' is measured in; the *)
(* tick counter wraps after Wrap of them.  A lease ends within the unit    *)
(* `expiry' and counts as expired from the next unit on.  The comparison   *)
(* of dhcp_server_process is signed, so half a wrap later it counts as     *)
(* valid again.                                                            *)
(*                                                                         *)
(* Clients ask whenever they like.  They request what they were offered at *)
(* some time, for offers and requests may be late or repeated, and an      *)
(* answer may be lost.  Renewals name the address in another field and are *)
(* ignored: such a client asks again when its lease is over.               *)
(***************************************************************************)
EXTENDS Integers

CONSTANTS Clients, NoClient,
          Patient,        (* a client that stays and keeps asking            *)
          Addresses,      (* DHCPS_MAX_IP of them, in the order of the array *)
          NoAddress,
          LeaseUnits,     (* whole units in DEFAULT_LEASE_TIME_S             *)
          Wrap            (* units until the tick counter wraps, 2^16        *)

ASSUME DhcpAssumption ==
  /\ NoClient \notin Clients /\ Patient \in Clients
  /\ Addresses \subseteq Nat /\ NoAddress \notin Addresses
  /\ LeaseUnits \in Nat
  /\ Wrap \in Nat /\ Wrap > 2 * (LeaseUnits + 1)

VARIABLES mac,       (* of each lease, whose it is                           *)
          expiry,    (* of each lease                                        *)
          now,       (* cyw43_hal_ticks_ms, in units                         *)
          late,      (* is the unit so far on that the end of a new lease    *)
                     (* falls one unit later                                 *)
          offered,   (* what clients were offered at some time               *)
          address,   (* of each client, the one it uses                      *)
          left       (* of each client, the units its lease still runs       *)

vars == <<mac, expiry, now, late, offered, address, left>>

(* The leases as dhcp_server_init clears them. *)
NoOwners == [i \in Addresses |-> NoClient]
NoTimes == [i \in Addresses |-> 0]

Init == /\ mac = NoOwners
        /\ expiry = NoTimes
        /\ now = 0
        /\ late = FALSE
        /\ offered = {}
        /\ address = [c \in Clients |-> NoAddress]
        /\ left = [c \in Clients |-> 0]

-----------------------------------------------------------------------------
(* Mutant of After: the sum is not cut to the width of expiry. *)
AfterWide(n) == now + n

After(n) == IF now + n < Wrap THEN now + n ELSE now + n - Wrap
UnitsSince(t) == IF t <= now THEN now - t ELSE now - t + Wrap

(* Mutants of Expired: the counters compared without their wrap; leases    *)
(* that are kept for ever.                                                 *)
ExpiredUnsigned(i) == expiry[i] < now
ExpiredNever(i) == FALSE

(* (int32_t)(expiry - cyw43_hal_ticks_ms()) < 0                            *)
Expired(i) == UnitsSince(expiry[i]) \in 1..(Wrap \div 2)

First(i, S) == i \in S /\ \A j \in S : i <= j

LeasesOf(c) == {i \in Addresses : mac[i] = c}

(* DHCPDISCOVER: the walk through the leases ends at the one of this       *)
(* client; on its way it settles on the first that is free or expired, and *)
(* clears it.                                                              *)
Discover(c) ==
  LET walked == {i \in Addresses : \A own \in LeasesOf(c) : i < own}
      usable == {i \in walked : mac[i] = NoClient \/ Expired(i)}
      Offer(i) == offered' = offered \cup {<<c, i>>}
  IN /\ mac' = [i \in Addresses |->
                  IF First(i, usable) /\ Expired(i) THEN NoClient ELSE mac[i]]
     /\ IF LeasesOf(c) # {}
        THEN \E i \in LeasesOf(c) : First(i, LeasesOf(c)) /\ Offer(i)
        ELSE \E i \in usable : First(i, usable) /\ Offer(i)
     /\ UNCHANGED <<expiry, now, late, address, left>>

(* Mutant of MayHave: a request is granted whoever has the lease.          *)
MayHaveAny(c, i) == TRUE

MayHave(c, i) == mac[i] \in {c, NoClient}

NewUnits == IF late THEN LeaseUnits + 1 ELSE LeaseUnits

(* DHCPREQUEST of an address: the lease is taken or renewed, or there is   *)
(* no answer.                                                              *)
Request(c, i) ==
  /\ <<c, i>> \in offered
  /\ MayHave(c, i)
  /\ mac' = [mac EXCEPT ![i] = c]
  /\ expiry' = [expiry EXCEPT ![i] = After(NewUnits)]
  /\ \/ /\ address' = [address EXCEPT ![c] = i]
        /\ left' = [left EXCEPT ![c] = NewUnits]
     \/ UNCHANGED <<address, left>>
  /\ UNCHANGED <<now, late, offered>>

(* Time passes; a client whose lease is over stops using the address.      *)
Tick ==
  /\ late
  /\ late' = FALSE
  /\ now' = After(1)
  /\ address' = [c \in Clients |-> IF left[c] = 0 THEN NoAddress ELSE address[c]]
  /\ left' = [c \in Clients |-> IF left[c] = 0 THEN 0 ELSE left[c] - 1]
  /\ UNCHANGED <<mac, expiry, offered>>

HalfTick == /\ ~late
            /\ late' = TRUE
            /\ UNCHANGED <<mac, expiry, now, offered, address, left>>

(* A client leaves without a word: DHCPRELEASE is ignored.                 *)
Leave(c) ==
  /\ address[c] # NoAddress
  /\ address' = [address EXCEPT ![c] = NoAddress]
  /\ left' = [left EXCEPT ![c] = 0]
  /\ UNCHANGED <<mac, expiry, now, late, offered>>

(* dhcp_server_deinit and later dhcp_server_init: the clients lose their   *)
(* link in between, though not their memory of an address.                 *)
Restart ==
  /\ mac' = NoOwners
  /\ expiry' = NoTimes
  /\ address' = [c \in Clients |-> NoAddress]
  /\ left' = [c \in Clients |-> 0]
  /\ UNCHANGED <<now, late, offered>>

Next == \/ \E c \in Clients : Discover(c) \/ Leave(c)
        \/ \E c \in Clients, i \in Addresses : Request(c, i)
        \/ HalfTick \/ Tick \/ Restart

Spec == Init /\ [][Next]_vars

(* Time does not stop; one client keeps asking as long as it has no        *)
(* address, many times in each unit, and not all of its answers are lost.  *)
Wants == address[Patient] = NoAddress
Joins == \E i \in Addresses : Request(Patient, i) /\ address'[Patient] = i
FairSpec == /\ Spec /\ WF_vars(HalfTick \/ Tick)
            /\ SF_vars(Wants /\ Discover(Patient)) /\ SF_vars(Wants /\ Joins)

-----------------------------------------------------------------------------
TypeOK ==
  /\ mac \in [Addresses -> Clients \cup {NoClient}]
  /\ expiry \in [Addresses -> 0..(Wrap - 1)]
  /\ now \in 0..(Wrap - 1) /\ late \in BOOLEAN
  /\ offered \subseteq (Clients \X Addresses)
  /\ address \in [Clients -> Addresses \cup {NoAddress}]
  /\ left \in [Clients -> 0..(LeaseUnits + 1)]

(* No two clients use an address at the same time, whatever was lost, late *)
(* or repeated, whoever left, and wherever the tick counter wraps: an      *)
(* expired lease is handed on only when its client has stopped using it.   *)
NoSharedAddress ==
  \A c, d \in Clients : c # d /\ address[c] # NoAddress => address[c] # address[d]

(* Leases come free again: once the others are not granted any more, the   *)
(* client that keeps asking gets an address and, whenever its lease has    *)
(* run out, again.                                                         *)
LeasesComeFree ==
  <>[][\A c \in Clients \ {Patient}, i \in Addresses : ~Request(c, i)]_vars
    => []<>~Wants
=============================================================================
