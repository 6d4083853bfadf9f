-------------------------- MODULE DhcpServerProofs --------------------------
(***************************************************************************)
(* That no two clients ever share an address, for any clients, addresses,  *)
(* lease time and width of the tick counter, as long as a lease is shorter *)
(* than half a wrap.  The argument: a client that uses an address is the   *)
(* one its lease is written for, and the lease ends, on the circle of the  *)
(* tick counter, no earlier than the client stops.                         *)
(***************************************************************************)
EXTENDS DhcpServer, TLAPS

(* The way ahead from now to a time on the circle. *)
UnitsUntil(t) == IF now <= t THEN t - now ELSE t - now + Wrap

(* A client that uses an address has its lease, which is not over before   *)
(* the client stops.                                                       *)
HeldIsLeased ==
  \A c \in Clients : address[c] # NoAddress =>
    /\ mac[address[c]] = c
    /\ left[c] <= UnitsUntil(expiry[address[c]])
    /\ UnitsUntil(expiry[address[c]]) <= LeaseUnits + 1

(* No lease runs longer than one granted now would. *)
NewestIsLongest == \A c \in Clients : left[c] <= NewUnits

IInv == TypeOK /\ HeldIsLeased /\ NewestIsLongest

-----------------------------------------------------------------------------
(* Time on the circle: a lease granted now ends the units ahead that it    *)
(* lasts, and one that ends within a lease's time is not expired.          *)
LEMMA AfterFacts ==
  ASSUME TypeOK, NEW n \in 0..(LeaseUnits + 1)
  PROVE  /\ After(n) \in 0..(Wrap - 1)
         /\ UnitsUntil(After(n)) = n
  BY DhcpAssumption DEF TypeOK, After, UnitsUntil

LEMMA AheadIsValid ==
  ASSUME TypeOK, NEW i \in Addresses, UnitsUntil(expiry[i]) <= LeaseUnits + 1
  PROVE  ~Expired(i)
<1>1. expiry[i] \in 0..(Wrap - 1) /\ now \in 0..(Wrap - 1)
  BY DEF TypeOK
<1>2. Wrap \div 2 < Wrap - (LeaseUnits + 1) /\ Wrap \in Nat /\ LeaseUnits \in Nat
  BY DhcpAssumption
<1> QED BY <1>1, <1>2 DEF Expired, UnitsSince, UnitsUntil

(* Initially nobody has an address. *)
LEMMA InitIInv == Init => IInv
<1> SUFFICES ASSUME Init PROVE IInv
  OBVIOUS
<1>1. 0 \in 0..(Wrap - 1) /\ 0 \in 0..(LeaseUnits + 1)
  BY DhcpAssumption
<1>2. TypeOK
  BY <1>1 DEF Init, NoOwners, NoTimes, TypeOK
<1>3. HeldIsLeased
  BY DEF Init, HeldIsLeased
<1>4. NewestIsLongest
  <2>1. \A c \in Clients : left[c] = 0
    BY DEF Init
  <2>2. NewUnits = LeaseUnits
    BY DEF Init, NewUnits
  <2>3. 0 <= LeaseUnits
    BY DhcpAssumption
  <2> QED BY <2>1, <2>2, <2>3 DEF NewestIsLongest
<1> QED BY <1>2, <1>3, <1>4 DEF IInv

(* Discover clears expired leases only, which nobody uses. *)
LEMMA DiscoverStep ==
  ASSUME IInv, NEW c \in Clients, Discover(c) PROVE IInv'
<1> USE DEF IInv
<1>1. /\ UNCHANGED <<expiry, now, late, address, left>>
      /\ mac' \in [Addresses -> Clients \cup {NoClient}]
      /\ \A i \in Addresses : mac'[i] = mac[i] \/ Expired(i)
  BY DEF Discover, TypeOK
<1>2. offered' \subseteq (Clients \X Addresses)
  <2>1. offered \subseteq (Clients \X Addresses) BY DEF TypeOK
  <2>2. \E i \in Addresses : offered' = offered \cup {<<c, i>>}
    BY DEF Discover, LeasesOf
  <2> QED BY <2>1, <2>2
<1>3. TypeOK'
  BY <1>1, <1>2 DEF TypeOK
<1>4. HeldIsLeased'
  <2> SUFFICES ASSUME NEW d \in Clients, address[d] # NoAddress
               PROVE  /\ mac'[address[d]] = d
                      /\ left[d] <= UnitsUntil(expiry[address[d]])
                      /\ UnitsUntil(expiry[address[d]]) <= LeaseUnits + 1
    BY <1>1 DEF HeldIsLeased, UnitsUntil
  <2>1. address[d] \in Addresses BY DEF TypeOK
  <2>2. ~Expired(address[d]) BY <2>1, AheadIsValid DEF HeldIsLeased
  <2> QED BY <1>1, <2>1, <2>2 DEF HeldIsLeased
<1>5. NewestIsLongest'
  BY <1>1 DEF NewestIsLongest, NewUnits
<1> QED BY <1>3, <1>4, <1>5

(* A granted request gives the lease to its client, who had it or finds it *)
(* free, and moves its end ahead.                                          *)
LEMMA RequestStep ==
  ASSUME IInv, NEW c \in Clients, NEW i \in Addresses, Request(c, i) PROVE IInv'
<1> USE DEF IInv
<1>1. NewUnits \in 0..(LeaseUnits + 1) /\ NewUnits <= LeaseUnits + 1
  BY DhcpAssumption DEF NewUnits, TypeOK
<1>2. /\ After(NewUnits) \in 0..(Wrap - 1)
      /\ UnitsUntil(After(NewUnits)) = NewUnits
  BY <1>1, AfterFacts
<1>3. /\ mac' = [mac EXCEPT ![i] = c]
      /\ expiry' = [expiry EXCEPT ![i] = After(NewUnits)]
      /\ UNCHANGED <<now, late, offered>>
      /\ MayHave(c, i)
  BY DEF Request
<1>4. \/ UNCHANGED <<address, left>>
      \/ /\ address' = [address EXCEPT ![c] = i]
         /\ left' = [left EXCEPT ![c] = NewUnits]
  BY DEF Request
<1>5. TypeOK'
  BY <1>1, <1>2, <1>3, <1>4 DEF TypeOK
<1>6. HeldIsLeased'
  <2> SUFFICES ASSUME NEW d \in Clients, address'[d] # NoAddress
               PROVE  /\ mac'[address'[d]] = d
                      /\ left'[d] <= UnitsUntil(expiry'[address'[d]])
                      /\ UnitsUntil(expiry'[address'[d]]) <= LeaseUnits + 1
    BY <1>3 DEF HeldIsLeased, UnitsUntil
  <2>1. address'[d] \in Addresses /\ left[d] <= NewUnits
    BY <1>5 DEF TypeOK, NewestIsLongest
  <2>2. \/ address'[d] = address[d] /\ left'[d] = left[d]
        \/ d = c /\ address'[d] = i /\ left'[d] = NewUnits
    BY <1>4 DEF TypeOK
  <2>3. CASE address'[d] = i
    <3>1. expiry'[i] = After(NewUnits) /\ mac'[i] = c
      BY <1>3 DEF TypeOK
    <3>2. left'[d] <= NewUnits
      BY <2>1, <2>2, <1>1
    <3>3. d = c
      BY <2>2, <2>3, <1>3, DhcpAssumption DEF HeldIsLeased, MayHave
    <3> QED BY <2>3, <3>1, <3>2, <3>3, <1>1, <1>2
  <2>4. CASE address'[d] # i
    <3>1. address'[d] = address[d] /\ left'[d] = left[d]
      BY <2>2, <2>4
    <3>2. /\ mac'[address'[d]] = mac[address[d]]
          /\ expiry'[address'[d]] = expiry[address[d]]
      BY <1>3, <2>1, <2>4, <3>1 DEF TypeOK
    <3> QED BY <3>1, <3>2 DEF HeldIsLeased
  <2> QED BY <2>3, <2>4
<1>7. NewestIsLongest'
  BY <1>1, <1>3, <1>4 DEF NewestIsLongest, NewUnits, TypeOK
<1> QED BY <1>5, <1>6, <1>7

(* With the unit all ends come one nearer; who is at its end stops. *)
LEMMA TickStep ==
  ASSUME IInv, Tick PROVE IInv'
<1> USE DEF IInv
<1>1. TypeOK'
  <2>1. now' \in 0..(Wrap - 1) /\ late' \in BOOLEAN
    <3>1. 1 \in 0..(LeaseUnits + 1)
      BY DhcpAssumption
    <3>2. After(1) \in 0..(Wrap - 1)
      BY <3>1, AfterFacts
    <3> QED BY <3>2 DEF Tick
  <2>2. address' \in [Clients -> Addresses \cup {NoAddress}]
    BY DEF Tick, TypeOK
  <2>3. left' \in [Clients -> 0..(LeaseUnits + 1)]
    BY DhcpAssumption DEF Tick, TypeOK
  <2> QED BY <2>1, <2>2, <2>3 DEF Tick, TypeOK
<1>2. HeldIsLeased'
  <2> SUFFICES ASSUME NEW d \in Clients, address'[d] # NoAddress
               PROVE  (/\ mac[address[d]] = d
                       /\ left[d] <= UnitsUntil(expiry[address[d]])
                       /\ UnitsUntil(expiry[address[d]]) <= LeaseUnits + 1)'
    BY DEF HeldIsLeased
  <2>1. left[d] # 0 /\ address'[d] = address[d] /\ left'[d] = left[d] - 1
    BY DEF Tick
  <2>2. /\ mac[address[d]] = d
        /\ left[d] <= UnitsUntil(expiry[address[d]])
        /\ UnitsUntil(expiry[address[d]]) <= LeaseUnits + 1
    BY <2>1 DEF HeldIsLeased
  <2>3. /\ expiry[address[d]] \in 0..(Wrap - 1) /\ expiry' = expiry
        /\ left[d] \in 0..(LeaseUnits + 1)
        /\ now \in 0..(Wrap - 1) /\ now' = After(1)
    BY <2>1 DEF TypeOK, Tick
  <2> DEFINE end == expiry[address[d]]
  <2>4. /\ UnitsUntil(end)' = UnitsUntil(end) - 1
        /\ UnitsUntil(end) \in Int
    <3>1. end' = end
      BY <2>1, <2>3
    <3>3. UnitsUntil(end) >= 1
      <4>1. UnitsUntil(end) \in Int
        BY <2>3, DhcpAssumption DEF UnitsUntil
      <4>2. left[d] >= 1 /\ left[d] <= UnitsUntil(end)
        BY <2>1, <2>2, <2>3
      <4> HIDE DEF end
      <4> QED BY <4>1, <4>2, <2>3, DhcpAssumption
    <3>2. now' = IF now + 1 < Wrap THEN now + 1 ELSE now + 1 - Wrap
      BY <2>3 DEF After
    <3> HIDE DEF end
    <3> QED BY <2>3, <3>1, <3>2, <3>3, DhcpAssumption DEF UnitsUntil, end
  <2>5. mac' = mac
    BY DEF Tick
  <2> QED BY <2>1, <2>2, <2>3, <2>4, <2>5, DhcpAssumption
<1>3. NewestIsLongest'
  BY DhcpAssumption DEF NewestIsLongest, NewUnits, TypeOK, Tick
<1> QED BY <1>1, <1>2, <1>3

LEMMA HalfTickStep ==
  ASSUME IInv, HalfTick PROVE IInv'
  BY DhcpAssumption DEF IInv, HalfTick, TypeOK, HeldIsLeased, NewestIsLongest,
     NewUnits, UnitsUntil

(* A client that leaves, or all when the access point restarts, use no     *)
(* address.                                                                *)
LEMMA LeaveStep ==
  ASSUME IInv, NEW c \in Clients, Leave(c) PROVE IInv'
  BY DhcpAssumption DEF IInv, Leave, TypeOK, HeldIsLeased, NewestIsLongest,
     NewUnits, UnitsUntil

LEMMA RestartStep ==
  ASSUME IInv, Restart PROVE IInv'
  BY DhcpAssumption DEF IInv, Restart, NoOwners, NoTimes, TypeOK, HeldIsLeased,
     NewestIsLongest, NewUnits, UnitsUntil

(* The invariant holds in every state. *)
THEOREM Invariance == Spec => []IInv
<1>1. Init => IInv BY InitIInv
<1>2. IInv /\ [Next]_vars => IInv'
  <2> SUFFICES ASSUME IInv, [Next]_vars PROVE IInv' OBVIOUS
  <2>1. ASSUME NEW c \in Clients, Discover(c) PROVE IInv' BY <2>1, DiscoverStep
  <2>2. ASSUME NEW c \in Clients, Leave(c) PROVE IInv' BY <2>2, LeaveStep
  <2>3. ASSUME NEW c \in Clients, NEW i \in Addresses, Request(c, i) PROVE IInv'
    BY <2>3, RequestStep
  <2>4. CASE HalfTick BY <2>4, HalfTickStep
  <2>5. CASE Tick BY <2>5, TickStep
  <2>6. CASE Restart BY <2>6, RestartStep
  <2>7. CASE UNCHANGED vars
    BY <2>7 DEF vars, IInv, TypeOK, HeldIsLeased, NewestIsLongest, NewUnits, UnitsUntil
  <2> QED BY <2>1, <2>2, <2>3, <2>4, <2>5, <2>6, <2>7 DEF Next
<1> QED BY <1>1, <1>2, PTL DEF Spec

(* The leases, the clock and the clients' state keep their types: the end  *)
(* of a lease always fits the width of its field.                          *)
THEOREM TypeCorrect == Spec => []TypeOK
  BY Invariance, PTL DEF IInv

(* No two clients use an address at the same time. *)
THEOREM AddressesAreNotShared == Spec => []NoSharedAddress
<1>1. IInv => NoSharedAddress
  BY DEF IInv, HeldIsLeased, NoSharedAddress
<1> QED BY <1>1, Invariance, PTL
=============================================================================
