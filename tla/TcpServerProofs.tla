--------------------------- MODULE TcpServerProofs ---------------------------
(***************************************************************************)
(* Proofs about TcpServer, for any pcbs, slots, window and send buffer.    *)
(***************************************************************************)
EXTENDS TcpServer, TLAPS

(* The buffers taken are those of the request in progress. *)
UsedByCall ==
  /\ call = NoCall => used.recv = {} /\ used.send = {}
  /\ call # NoCall => /\ used.recv = {call.recv}
                      /\ used.send = (IF call.send = 0 THEN {} ELSE {call.send})

(* Nothing is owed but the answer to the request in progress. *)
OwedToCaller ==
  \A p \in Pcbs : owed[p] = IF p \in Served /\ call # NoCall /\ call.pcb = p THEN 1 ELSE 0

IInv == TypeOK /\ ServedIsHeld /\ UsedByCall /\ OwedToCaller

-----------------------------------------------------------------------------
(* What is forgotten of a pcb is nothing more than the types allow. *)
LEMMA ForgetFacts ==
  ASSUME TypeOK, NEW pcbs \in SUBSET Pcbs, Forget(pcbs)
  PROVE  /\ window' \in [Pcbs -> 0..Window] /\ unacked' \in [Pcbs -> 0..Room]
         /\ owed' \in [Pcbs -> Nat]
         /\ \A p \in pcbs : owed'[p] = 0
         /\ \A p \in Pcbs \ pcbs : owed'[p] = owed[p]
  BY ServerAssumption DEF TypeOK, Forget

(* clear_client_pcb ends the connections of the slots it frees, and no     *)
(* other but those lwIP frees by itself.                                   *)
LEMMA ClearFacts ==
  ASSUME TypeOK, NEW I \in SUBSET Slots, NEW gone \in SUBSET Pcbs, Clear(I, gone)
  PROVE  /\ client_pcbs' \in [Slots -> Pcbs \cup {NoPcb}]
         /\ pool' \in [Pcbs -> {"free", "served", "closing"}]
         /\ window' \in [Pcbs -> 0..Window] /\ unacked' \in [Pcbs -> 0..Room]
         /\ owed' \in [Pcbs -> Nat]
         /\ stopped' \in {"no", "spins", "corrupt"}
         /\ \A i \in Slots \ I : client_pcbs'[i] = client_pcbs[i]
         /\ Served' \subseteq Served
         /\ \A i \in I : client_pcbs[i] \in Pcbs =>
              client_pcbs[i] \notin Served' /\ owed'[client_pcbs[i]] = 0
         /\ \A p \in Served' : owed'[p] = owed[p]
         /\ \A p \in Pcbs : owed'[p] = owed[p] \/ owed'[p] = 0
<1> DEFINE pcbs == {client_pcbs[i] : i \in I} \cap Pcbs
<1>1. PICK freed \in SUBSET pcbs :
        /\ client_pcbs' = [i \in Slots |-> IF i \in I THEN NoPcb ELSE client_pcbs[i]]
        /\ pool' = [p \in Pcbs |-> CASE p \in freed \cup gone -> "free"
                                     [] p \in pcbs \ (freed \cup gone) -> "closing"
                                     [] OTHER -> pool[p]]
        /\ stopped' \in {"corrupt", stopped}
        /\ Forget(pcbs \cup gone)
  BY DEF Clear
<1>2. pcbs \cup gone \in SUBSET Pcbs
  OBVIOUS
<1>3. /\ window' \in [Pcbs -> 0..Window] /\ unacked' \in [Pcbs -> 0..Room]
      /\ owed' \in [Pcbs -> Nat]
      /\ \A p \in pcbs \cup gone : owed'[p] = 0
      /\ \A p \in Pcbs \ (pcbs \cup gone) : owed'[p] = owed[p]
  BY <1>1, <1>2, ForgetFacts
<1>4. pool' \in [Pcbs -> {"free", "served", "closing"}]
  BY <1>1 DEF TypeOK
<1>5. \A p \in Pcbs : /\ p \in pcbs \cup gone => pool'[p] # "served"
                      /\ p \notin pcbs \cup gone => pool'[p] = pool[p]
  BY <1>1
<1>6. Served' = Served \ (pcbs \cup gone)
  BY <1>5 DEF Served
<1>7. /\ client_pcbs' \in [Slots -> Pcbs \cup {NoPcb}]
      /\ stopped' \in {"no", "spins", "corrupt"}
      /\ \A i \in Slots \ I : client_pcbs'[i] = client_pcbs[i]
  BY <1>1 DEF TypeOK
<1>8. \A i \in I : client_pcbs[i] \in Pcbs => client_pcbs[i] \in pcbs
  OBVIOUS
<1>9. Served \subseteq Pcbs
  BY DEF Served
<1> HIDE DEF pcbs
<1> QED BY <1>3, <1>4, <1>6, <1>7, <1>8, <1>9

(* An abort ends the connections it is for. *)
LEMMA AbortFacts ==
  ASSUME TypeOK, NEW pcbs \in SUBSET Served, Abort(pcbs)
  PROVE  /\ pool' \in [Pcbs -> {"free", "served", "closing"}]
         /\ window' \in [Pcbs -> 0..Window] /\ unacked' \in [Pcbs -> 0..Room]
         /\ owed' \in [Pcbs -> Nat]
         /\ Served' = Served \ pcbs
         /\ \A p \in pcbs : owed'[p] = 0
         /\ \A p \in Pcbs \ pcbs : owed'[p] = owed[p]
<1>1. pcbs \in SUBSET Pcbs
  BY DEF Served
<1>2. Forget(pcbs) /\ pool' = [p \in Pcbs |-> IF p \in pcbs THEN "free" ELSE pool[p]]
  BY DEF Abort
<1>3. pool' \in [Pcbs -> {"free", "served", "closing"}] /\ Served' = Served \ pcbs
  BY <1>1, <1>2 DEF TypeOK, Served
<1> QED BY <1>1, <1>2, <1>3, ForgetFacts

(* Whoever is served after slots were cleared is still in one: those that  *)
(* were in a cleared slot are not served any more.                         *)
LEMMA ClearKeepsHeld ==
  ASSUME TypeOK, ServedIsHeld, NEW I \in SUBSET Slots, NEW gone \in SUBSET Pcbs,
         Clear(I, gone)
  PROVE  ServedIsHeld'
<1> SUFFICES ASSUME NEW p \in Served' PROVE (SlotsOf(p) # {})'
  BY DEF ServedIsHeld
<1>1. p \in Served /\ p \in Pcbs
  BY ClearFacts DEF Served
<1>2. PICK i \in Slots : client_pcbs[i] = p
  BY <1>1 DEF ServedIsHeld, SlotsOf
<1>3. i \notin I
  BY <1>1, <1>2, ClearFacts
<1>4. client_pcbs'[i] = p
  BY <1>2, <1>3, ClearFacts
<1> QED BY <1>4 DEF SlotsOf

(* With nothing in progress, and so nothing owed, clearing slots keeps all. *)
LEMMA IdleClear ==
  ASSUME IInv, Idle, NEW I \in SUBSET Slots, NEW gone \in SUBSET Pcbs,
         Clear(I, gone), UNCHANGED <<used, call>>
  PROVE  IInv'
<1>1. TypeOK'
  BY ClearFacts DEF IInv, TypeOK
<1>2. ServedIsHeld'
  BY ClearKeepsHeld DEF IInv
<1>3. UsedByCall'
  BY DEF IInv, UsedByCall
<1>4. OwedToCaller'
  BY ClearFacts DEF IInv, OwedToCaller, Idle
<1> QED BY <1>1, <1>2, <1>3, <1>4 DEF IInv

-----------------------------------------------------------------------------
LEMMA InitInv == Init => IInv
<1> SUFFICES ASSUME Init PROVE IInv
  OBVIOUS
<1>1. TypeOK
  BY ServerAssumption DEF Init, TypeOK
<1>2. Served = {}
  BY DEF Init, Served
<1> QED BY <1>1, <1>2 DEF Init, IInv, ServedIsHeld, UsedByCall, OwedToCaller

LEMMA AcceptInv ==
  ASSUME IInv, NEW p \in Pcbs, Accept(p) PROVE IInv'
<1> USE DEF IInv
<1>1. CASE SlotsOf(NoPcb) = {} /\ pool' = [pool EXCEPT ![p] = "closing"]
           /\ UNCHANGED <<client_pcbs, window, used, call, unacked, owed, stopped>>
  <2>1. Served' = Served
    BY <1>1 DEF Served, Accept, TypeOK
  <2>2. TypeOK'
    BY <1>1 DEF TypeOK
  <2> QED BY <1>1, <2>1, <2>2 DEF ServedIsHeld, SlotsOf, UsedByCall, OwedToCaller
<1>2. CASE \E i \in Slots : /\ FreeSlot(i)
                            /\ client_pcbs' = [client_pcbs EXCEPT ![i] = p]
                            /\ pool' = [pool EXCEPT ![p] = "served"]
                            /\ window' = [window EXCEPT ![p] = Window]
                            /\ UNCHANGED <<used, call, unacked, owed, stopped>>
  <2>1. PICK i \in Slots : /\ client_pcbs[i] = NoPcb
                           /\ client_pcbs' = [client_pcbs EXCEPT ![i] = p]
    BY <1>2 DEF FreeSlot, First, SlotsOf
  <2>2. Served' = Served \cup {p}
    BY <1>2 DEF Served, TypeOK
  <2>3. TypeOK'
    BY <1>2, ServerAssumption DEF TypeOK
  <2>4. ServedIsHeld'
    <3> SUFFICES ASSUME NEW q \in Served' PROVE \E j \in Slots : client_pcbs'[j] = q
      BY DEF ServedIsHeld, SlotsOf
    <3>1. CASE q = p
      BY <2>1, <3>1 DEF TypeOK
    <3>2. CASE q # p
      <4>1. PICK j \in Slots : client_pcbs[j] = q
        BY <2>2, <3>2 DEF ServedIsHeld, SlotsOf
      <4>2. j # i
        BY <2>1, <2>2, <3>2, <4>1, ServerAssumption DEF Served
      <4> QED BY <2>1, <4>1, <4>2 DEF TypeOK
    <3> QED BY <3>1, <3>2
  <2>5. UsedByCall' /\ OwedToCaller'
    BY <1>2, <2>2 DEF UsedByCall, OwedToCaller, Accept, Idle
  <2> QED BY <2>3, <2>4, <2>5
<1> QED BY <1>1, <1>2 DEF Accept

LEMMA RecvInv ==
  ASSUME IInv, NEW p \in Pcbs, Recv(p) PROVE IInv'
<1> USE DEF IInv
<1>1. call = NoCall /\ used.recv = {} /\ used.send = {}
  BY DEF Recv, Idle, UsedByCall
<1>2. 1 \in Slots
  BY ServerAssumption DEF Slots
<1>3. PICK r \in Slots : /\ used' = [used EXCEPT !.recv = @ \cup {r}]
                         /\ call' = [pcb |-> p, recv |-> r, send |-> 0]
  BY <1>1, <1>2 DEF Recv, Unused
<1>4. call' # NoCall /\ 0 \in 0..MaxClients
  BY <1>3, ServerAssumption DEF Slots
<1>5. p \in Served /\ Served' = Served
  BY DEF Recv, Served
<1>6. owed' = [owed EXCEPT ![p] = @ + 1] /\ window' = [window EXCEPT ![p] = @ - 1]
      /\ window[p] > 0
  BY DEF Recv
<1>7. window' \in [Pcbs -> 0..Window] /\ owed' \in [Pcbs -> Nat]
  BY <1>6, ServerAssumption DEF TypeOK
<1>8. TypeOK'
  BY <1>3, <1>4, <1>7 DEF TypeOK, Recv
<1>9. ServedIsHeld'
  BY <1>5 DEF ServedIsHeld, SlotsOf, Recv
<1>10. UsedByCall'
  BY <1>1, <1>3, <1>4 DEF UsedByCall, TypeOK
<1>11. OwedToCaller'
  BY <1>1, <1>3, <1>4, <1>5, <1>6 DEF OwedToCaller, TypeOK
<1> QED BY <1>8, <1>9, <1>10, <1>11

LEMMA ProcessInv == ASSUME IInv, Process PROVE IInv'
<1> USE DEF IInv
<1>1. /\ call # NoCall /\ call.send = 0 /\ used.send = {}
      /\ call \in [pcb : Pcbs, recv : Slots, send : 0..MaxClients]
  BY DEF Process, UsedByCall, TypeOK
<1>2. 1 \in Slots
  BY ServerAssumption DEF Slots
<1>3. PICK s \in Slots, pcbs \in SUBSET Served :
         /\ used' = [used EXCEPT !.send = @ \cup {s}]
         /\ call' = [call EXCEPT !.send = s]
         /\ Abort(pcbs)
  BY <1>1, <1>2 DEF Process, Unused
<1>4. /\ call' \in [pcb : Pcbs, recv : Slots, send : 0..MaxClients]
      /\ call' # NoCall /\ call'.pcb = call.pcb /\ call'.recv = call.recv
      /\ call'.send = s /\ s # 0
  BY <1>1, <1>3, ServerAssumption DEF Slots
<1>5. TypeOK'
  BY <1>3, <1>4, AbortFacts DEF TypeOK, Process
<1>6. ServedIsHeld'
  BY <1>3, AbortFacts DEF ServedIsHeld, SlotsOf, Process
<1>7. UsedByCall'
  BY <1>1, <1>3, <1>4 DEF UsedByCall, TypeOK
<1>8. OwedToCaller'
  BY <1>1, <1>3, <1>4, AbortFacts DEF OwedToCaller
<1> QED BY <1>5, <1>6, <1>7, <1>8

LEMMA AnswerInv == ASSUME IInv, Answer PROVE IInv'
<1> USE DEF IInv
<1> DEFINE p == call.pcb
<1>1. /\ call # NoCall /\ call.send # 0
      /\ call \in [pcb : Pcbs, recv : Slots, send : 0..MaxClients]
      /\ p \in Pcbs
  BY DEF Answer, TypeOK
<1>2. ClearBuffers => /\ call' = NoCall /\ used' = [recv |-> {}, send |-> {}]
                      /\ UsedByCall'
  BY <1>1 DEF ClearBuffers, UsedByCall
<1>3. CASE /\ p \in Served /\ Written(p) /\ ClearBuffers
           /\ UNCHANGED <<client_pcbs, pool, window, stopped>>
  <2>1. owed[p] = 1 /\ Served' = Served
    BY <1>1, <1>3 DEF OwedToCaller, Served
  <2>2. /\ unacked[p] < Room
        /\ unacked' = [unacked EXCEPT ![p] = @ + 1]
        /\ owed' = [owed EXCEPT ![p] = @ - 1]
    BY <1>3 DEF Written
  <2>3. unacked' \in [Pcbs -> 0..Room] /\ owed' \in [Pcbs -> Nat]
    BY <1>1, <2>1, <2>2, ServerAssumption DEF TypeOK
  <2>4. TypeOK'
    BY <1>2, <1>3, <2>3 DEF TypeOK
  <2>5. ServedIsHeld'
    BY <1>3, <2>1 DEF ServedIsHeld, SlotsOf
  <2>6. OwedToCaller'
    BY <1>1, <1>2, <1>3, <2>1, <2>2 DEF OwedToCaller, TypeOK
  <2> QED BY <1>2, <1>3, <2>4, <2>5, <2>6
<1>4. CASE p \in Served /\ FailedFor(p) /\ ClearBuffers
  <2>1. SlotsOf(p) \in SUBSET Slots /\ Clear(SlotsOf(p), {})
    BY <1>4 DEF FailedFor, SlotsOf
  <2> HIDE DEF p
  <2>9. /\ client_pcbs' \in [Slots -> Pcbs \cup {NoPcb}]
        /\ pool' \in [Pcbs -> {"free", "served", "closing"}]
        /\ window' \in [Pcbs -> 0..Window] /\ unacked' \in [Pcbs -> 0..Room]
        /\ owed' \in [Pcbs -> Nat]
        /\ stopped' \in {"no", "spins", "corrupt"}
        /\ \A i \in SlotsOf(p) : client_pcbs[i] \in Pcbs => owed'[client_pcbs[i]] = 0
        /\ \A q \in Pcbs : owed'[q] = owed[q] \/ owed'[q] = 0
    BY <2>1, ClearFacts
  <2>2. TypeOK'
    BY <1>2, <1>4, <2>9 DEF TypeOK
  <2>3. ServedIsHeld'
    BY <2>1, ClearKeepsHeld
  <2>4. PICK i \in SlotsOf(p) : client_pcbs[i] = p
    BY <1>4 DEF ServedIsHeld, SlotsOf
  <2>5. owed'[p] = 0
    BY <1>1, <2>4, <2>9
  <2>6. \A q \in Pcbs : owed'[q] = owed[q] \/ owed'[q] = 0
    BY <2>9
  <2>7. OwedToCaller'
    BY <1>1, <1>2, <1>4, <2>5, <2>6 DEF OwedToCaller, p
  <2> QED BY <1>2, <1>4, <2>2, <2>3, <2>7
<1>5. CASE stopped' \in {"spins", "corrupt"} /\ UNCHANGED <<client_pcbs, used, call, pool, conn>>
  <2>1. TypeOK'
    BY <1>5 DEF TypeOK, conn
  <2> QED
    BY <1>5, <2>1 DEF conn, ServedIsHeld, SlotsOf, Served, UsedByCall, OwedToCaller
<1> QED BY <1>3, <1>4, <1>5 DEF Answer

(* The steps of lwIP that only touch its side, and those that end          *)
(* connections while no request is in progress.                            *)
LEMMA LwipInv ==
  ASSUME IInv, NEW p \in Pcbs, RecvTooBig(p) \/ Acked(p) \/ Closed(p) \/ ErrAbort
  PROVE  IInv'
<1> USE DEF IInv
<1>1. CASE RecvTooBig(p)
  <2>1. window' \in [Pcbs -> 0..Window]
    BY <1>1, ServerAssumption DEF RecvTooBig, TypeOK
  <2> QED BY <1>1, <2>1 DEF RecvTooBig, TypeOK, ServedIsHeld, SlotsOf, Served,
                            UsedByCall, OwedToCaller
<1>2. CASE Acked(p)
  <2>1. unacked' \in [Pcbs -> 0..Room]
    BY <1>2, ServerAssumption DEF Acked, TypeOK
  <2> QED BY <1>2, <2>1 DEF Acked, TypeOK, ServedIsHeld, SlotsOf, Served,
                            UsedByCall, OwedToCaller
<1>3. CASE Closed(p)
  <2>1. Served' = Served
    BY <1>3 DEF Closed, Served, TypeOK
  <2>2. UNCHANGED <<client_pcbs, used, call, window, unacked, owed, stopped>>
    BY <1>3 DEF Closed, conn
  <2>3. pool' \in [Pcbs -> {"free", "served", "closing"}]
    BY <1>3 DEF Closed, TypeOK
  <2>4. TypeOK'
    BY <2>2, <2>3 DEF TypeOK
  <2> QED BY <2>1, <2>2, <2>4 DEF ServedIsHeld, SlotsOf, UsedByCall, OwedToCaller
<1>4. CASE ErrAbort
  <2>1. PICK pcbs \in SUBSET Served : Abort(pcbs)
    BY <1>4 DEF ErrAbort
  <2>2. TypeOK'
    BY <1>4, <2>1, AbortFacts DEF ErrAbort, TypeOK
  <2>3. ServedIsHeld'
    BY <1>4, <2>1, AbortFacts DEF ErrAbort, ServedIsHeld, SlotsOf
  <2>4. UsedByCall' /\ OwedToCaller'
    BY <1>4, <2>1, AbortFacts DEF ErrAbort, Idle, UsedByCall, OwedToCaller
  <2> QED BY <2>2, <2>3, <2>4
<1> QED BY <1>1, <1>2, <1>3, <1>4

LEMMA EndInv ==
  ASSUME IInv, NEW p \in Pcbs, RecvFin(p) \/ Poll(p) \/ ErrReset(p)
  PROVE  IInv'
<1>1. SlotsOf(p) \in SUBSET Slots /\ Slots \in SUBSET Slots
  BY DEF SlotsOf
<1>2. Idle /\ UNCHANGED <<used, call>>
  BY DEF RecvFin, Poll, ErrReset
<1>3. CASE RecvFin(p) \/ Poll(p)
  <2>1. Clear(SlotsOf(p), {})
    BY <1>3 DEF RecvFin, Poll, FailedFor
  <2> QED BY <1>1, <1>2, <2>1, IdleClear
<1>4. CASE ErrReset(p)
  <2>1. Clear(Slots, {p})
    BY <1>4 DEF ErrReset, FailedForNone
  <2> QED BY <1>1, <1>2, <2>1, IdleClear
<1> QED BY <1>3, <1>4

LEMMA StepInv == IInv /\ [Next]_vars => IInv'
<1> SUFFICES ASSUME IInv, [Next]_vars PROVE IInv'
  OBVIOUS
<1>1. CASE \E p \in Pcbs : Accept(p)
  BY <1>1, AcceptInv
<1>2. CASE \E p \in Pcbs : Recv(p)
  BY <1>2, RecvInv
<1>3. CASE Process
  BY <1>3, ProcessInv
<1>4. CASE Answer
  BY <1>4, AnswerInv
<1>5. CASE \E p \in Pcbs : RecvTooBig(p) \/ Acked(p) \/ Closed(p)
  BY <1>5, LwipInv
<1>6. CASE ErrAbort
  <2>1. PICK p \in Pcbs : TRUE
    BY <1>6 DEF ErrAbort, Served
  <2> QED BY <1>6, <2>1, LwipInv
<1>7. CASE \E p \in Pcbs : RecvFin(p) \/ Poll(p) \/ ErrReset(p)
  BY <1>7, EndInv
<1>8. CASE AcceptFails
  <2>1. Clear(Slots, {}) /\ Idle /\ UNCHANGED <<used, call>>
    BY <1>8 DEF AcceptFails, FailedForNone
  <2> QED BY <2>1, IdleClear
<1>9. CASE UNCHANGED vars
  BY <1>9 DEF vars, conn, IInv, TypeOK, ServedIsHeld, SlotsOf, Served, UsedByCall, OwedToCaller
<1>10. CASE Halted
  BY <1>9, <1>10 DEF Halted
<1> QED BY <1>1, <1>2, <1>3, <1>4, <1>5, <1>6, <1>7, <1>8, <1>9, <1>10 DEF Next

THEOREM Invariance == Spec => []IInv
<1> QED BY InitInv, StepInv, PTL DEF Spec

-----------------------------------------------------------------------------
(* The types, among them that no buffer of lwIP is overrun. *)
THEOREM TypeCorrect == Spec => []TypeOK
<1>1. IInv => TypeOK
  BY DEF IInv
<1> QED BY <1>1, Invariance, PTL

(* Every connection with the server's callbacks is in one of its slots.    *)
THEOREM EveryServedIsHeld == Spec => []ServedIsHeld
<1>1. IInv => ServedIsHeld
  BY DEF IInv
<1> QED BY <1>1, Invariance, PTL

(* No request is ever dropped for want of a buffer. *)
THEOREM NothingIsOwed == Spec => []NothingOwed
<1>1. IInv => NothingOwed
  BY DEF IInv, NothingOwed, OwedToCaller, Idle, Served
<1> QED BY <1>1, Invariance, PTL
=============================================================================
