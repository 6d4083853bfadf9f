-------------------------- MODULE MeterClientProofs --------------------------
(***************************************************************************)
(* Safety of the meter's client for any pool of pcbs and any window:       *)
(* types, ownership of the pcb, and the wake-up of modbus_task.            *)
(***************************************************************************)
EXTENDS MeterClient, SequenceTheorems, TLAPS

(* A pcb that is still connecting finds the context in CONNECTING: no      *)
(* round passes initiate_discover with another state, and a fetch starts   *)
(* only on an established connection.                                      *)
ConnectingIsKnown ==
  /\ \A s \in Slots : pool[s] = "synSent" =>
       state = "CONNECTING" /\ pc \notin {"r_mark", "r_send"}
  /\ pc = "d_connect" => \A s \in Slots : pool[s] = "closed" => state = "CONNECTING"
  /\ pc = "r_send" => state # "CONNECTING"

(* tcp_connect_cb leaves no established connection the context denies. *)
EstablishedIsConnected == \A s \in Slots : pool[s] \in Established => connected

(* At `w_reset' the connection is gone already. *)
ClosedBeforeReset == pc = "w_reset" => \A s \in Slots : pool[s] \notin Attached

(* From the clearing of the notification on, an IDLE state that            *)
(* modbus_task may go to sleep on has been notified.                       *)
IdleIsNotified ==
  /\ pc \in {"r_send", "w_take"} /\ state = "IDLE" => notified
  /\ pc = "w_check" /\ connected /\ state = "IDLE" => notified

IInv == /\ PcbOwned /\ ConnectedIsEstablished /\ ConnectingIsKnown
        /\ EstablishedIsConnected /\ ClosedBeforeReset /\ IdleIsNotified

Segments == Seq(Requests \cup {"rest"})

-----------------------------------------------------------------------------
(* The answers owed stay answers when the first one is taken or split. *)
LEMMA WireTypes ==
  ASSUME NEW w \in Segments, w # <<>>
  PROVE  /\ Head(w) \in Requests \cup {"rest"}
         /\ Tail(w) \in Segments
         /\ <<"rest">> \o Tail(w) \in Segments
<1>1. Head(w) \in Requests \cup {"rest"} /\ Tail(w) \in Segments
  BY HeadTailProperties DEF Segments
<1>2. <<"rest">> \in Segments
  BY DEF Segments
<1>3. QED BY <1>1, <1>2, ConcatProperties DEF Segments

(* What advance_context_state does to the fields the invariants speak of,  *)
(* whatever state it was called in.                                        *)
LEMMA AdvanceFacts ==
  ASSUME TypeOK, NEW k, NEW owed \in Segments, Advance(k, owed)
  PROVE  /\ connected' \in BOOLEAN /\ requestClose' \in BOOLEAN
         /\ waitCount' \in 0..MaxWaits /\ state' \in States /\ name' \in Names
         /\ regs' \in [suns : BOOLEAN, hdr : BOOLEAN] /\ fresh' \in BOOLEAN
         /\ notified' \in BOOLEAN /\ wire' \in Segments
         /\ peer' \in Devices /\ calm' \in BOOLEAN /\ wifi' \in BOOLEAN /\ halted' \in BOOLEAN
         /\ connected => connected'
         /\ state = "CONNECTING" => connected'
         /\ notified => notified'
         /\ state' = "IDLE" /\ state # "IDLE" => notified'
<1> USE DEF TypeOK, States, Names, Devices, MaxWaits, Requests
<1>w. ASSUME NEW r \in Requests, Send(r, owed) PROVE wire' \in Segments
  BY <1>w, AppendProperties DEF Send, Segments
<1>k. Completes(k) \subseteq BOOLEAN
  BY DEF Completes
<1>p. ASSUME ParseNull(k) PROVE halted' \in BOOLEAN
  BY <1>p DEF ParseNull
<1>n. /\ notified' = (notified \/ (state' = "IDLE" /\ state # "IDLE"))
      /\ peer' = peer /\ calm' = calm /\ wifi' = wifi
  BY DEF Advance
<1>1. CASE IdleStep(owed)
  BY <1>1, <1>n DEF IdleStep
<1>2. CASE ConnectingStep(owed)
  BY <1>2, <1>n, <1>w DEF ConnectingStep
<1>3. CASE CheckSunsStep(k, owed)
  BY <1>3, <1>n, <1>w, <1>k, <1>p DEF CheckSunsStep
<1>4. CASE FindCommonHdrStep(k, owed)
  BY <1>4, <1>n, <1>k, <1>p DEF FindCommonHdrStep
<1>5. CASE FetchDataStep(owed)
  BY <1>5, <1>n, <1>w DEF FetchDataStep
<1>6. CASE WaitDataStep(k, owed)
  BY <1>6, <1>n, <1>k DEF WaitDataStep
<1>7. QED BY <1>1, <1>2, <1>3, <1>4, <1>5, <1>6 DEF Advance

(* A new connection owes nothing. *)
LEMMA EmptyWire == <<>> \in Segments
BY DEF Segments

-----------------------------------------------------------------------------
(* The first state satisfies the inductive invariant. *)
LEMMA InitInvariant == Init => TypeOK /\ IInv
<1> SUFFICES ASSUME Init PROVE TypeOK /\ IInv
  OBVIOUS
<1> USE ConstantsAssumption DEF Init
<1>1. TypeOK
  <2>1. wire \in Segments
    BY EmptyWire
  <2>2. pool \in [Slots -> Attached \cup {"free"}]
    BY DEF Attached
  <2>3. regs \in [suns : BOOLEAN, hdr : BOOLEAN] /\ window \in 0..Window
    OBVIOUS
  <2>4. pcb \in Slots \cup {NoPcb} /\ waitCount \in 0..MaxWaits
    BY DEF MaxWaits
  <2>5. state \in States /\ name \in Names /\ peer \in Devices
    BY DEF States, Names, Devices
  <2>6. /\ connected \in BOOLEAN /\ requestClose \in BOOLEAN /\ fresh \in BOOLEAN
        /\ notified \in BOOLEAN /\ expired \in BOOLEAN /\ calm \in BOOLEAN
        /\ wifi \in BOOLEAN /\ halted \in BOOLEAN /\ pc \in {"d_pcb"}
    OBVIOUS
  <2> HIDE DEF Init
  <2>7. QED
    BY <2>1, <2>2, <2>3, <2>4, <2>5, <2>6 DEF TypeOK, Segments
<1>2. IInv
  BY DEF IInv, PcbOwned, ConnectedIsEstablished, ConnectingIsKnown,
         EstablishedIsConnected, ClosedBeforeReset, IdleIsNotified, Attached, Established
<1>3. QED BY <1>1, <1>2

(* Every action keeps the types; only Advance needs a lemma. *)
LEMMA TypeStep == TypeOK /\ [Next]_vars => TypeOK'
<1> SUFFICES ASSUME TypeOK, [Next]_vars PROVE TypeOK'
  OBVIOUS
<1> USE ConstantsAssumption DEF TypeOK, Attached
<1>1. CASE ModbusTask
  <2> USE DEF client, net
  <2>1. CASE DiscoverPcb
    BY <2>1 DEF DiscoverPcb
  <2>2. CASE DiscoverCheck
    BY <2>2 DEF DiscoverCheck
  <2>3. CASE DiscoverMark
    BY <2>3 DEF DiscoverMark, States
  <2>4. CASE DiscoverConnect
    <3>1. wire' \in Segments
      BY <2>4, EmptyWire DEF DiscoverConnect, Segments
    <3>2. window' \in 0..Window
      BY <2>4 DEF DiscoverConnect
    <3>3. peer' \in Devices
      BY <2>4 DEF DiscoverConnect, Devices
    <3>4. pool' \in [Slots -> Attached \cup {"free"}]
      BY <2>4 DEF DiscoverConnect, CanConnect
    <3>5. QED BY <2>4, <3>1, <3>2, <3>3, <3>4 DEF DiscoverConnect, Segments
  <2>5. CASE RetrieveClear
    BY <2>5 DEF RetrieveClear
  <2>6. CASE RetrieveCheck
    BY <2>6 DEF RetrieveCheck
  <2>7. CASE RetrieveMark
    BY <2>7 DEF RetrieveMark, States
  <2>8. CASE RetrieveSend
    BY <2>8, AdvanceFacts DEF RetrieveSend, Segments
  <2>9. CASE WaitCheck
    BY <2>9 DEF WaitCheck
  <2>10. CASE WaitTake
    BY <2>10 DEF WaitTake
  <2>11. CASE WaitJudge
    BY <2>11 DEF WaitJudge, Count, MaxWaits
  <2>12. CASE WaitClose
    BY <2>12, EmptyWire DEF WaitClose, HangUp, Devices, Segments
  <2>13. CASE WaitReset
    BY <2>13 DEF WaitReset, Disconnect, Names
  <2>14. QED
    BY <1>1, <2>1, <2>2, <2>3, <2>4, <2>5, <2>6, <2>7, <2>8, <2>9, <2>10, <2>11,
       <2>12, <2>13 DEF ModbusTask
<1>2. ASSUME NEW s \in Slots, ConnectCb(s) PROVE TypeOK'
  BY <1>2, AdvanceFacts DEF ConnectCb, Segments
<1>3. ASSUME NEW s \in Slots, RecvCb(s) PROVE TypeOK'
  <2>1. wire \in Segments /\ wire # <<>>
    BY <1>3 DEF RecvCb, Segments
  <2>2. /\ Tail(wire) \in Segments /\ <<"rest">> \o Tail(wire) \in Segments
    BY <2>1, WireTypes
  <2>3. window' \in 0..Window
    BY <1>3 DEF RecvCb
  <2>4. CASE Advance(Head(wire), Tail(wire))
    BY <1>3, <2>2, <2>3, <2>4, AdvanceFacts DEF RecvCb, Segments
  <2>5. CASE Advance("part", <<"rest">> \o Tail(wire))
    BY <1>3, <2>2, <2>3, <2>5, AdvanceFacts DEF RecvCb, Segments
  <2>6. QED BY <1>3, <2>4, <2>5 DEF RecvCb
<1>4. ASSUME NEW s \in Slots, RecvFin(s) PROVE TypeOK'
  BY <1>4, EmptyWire, AdvanceFacts DEF RecvFin, Segments
<1>5. ASSUME NEW s \in Slots, ErrCb(s) PROVE TypeOK'
  <2>1. wire' \in Segments /\ window' \in 0..Window /\ peer' \in Devices
    BY <1>5, EmptyWire DEF ErrCb, HangUp, Devices
  <2>2. QED BY <1>5, <2>1 DEF ErrCb, Disconnect, States, Segments
<1>6. CASE Calm
  BY <1>6 DEF Calm, client, net
<1>7. CASE WifiChanges
  <2>1. wifi' \in BOOLEAN
    BY <1>7, Zenon DEF WifiChanges
  <2>2. QED BY <1>7, <2>1 DEF WifiChanges, client, net
<1>8. CASE UNCHANGED vars
  BY <1>8 DEF vars, client, net
<1>9. QED BY <1>1, <1>2, <1>3, <1>4, <1>5, <1>6, <1>7, <1>8
          DEF Next, TcpIp, Deliver, Halted

(* A callback that leaves its connection established, in whatever state:   *)
(* connect_cb and recv_cb.                                                 *)
LEMMA LiveCallback ==
  ASSUME TypeOK, IInv, NEW s \in Slots, NEW k, NEW owed \in Segments, Advance(k, owed),
         pool[s] \in {"synSent", "open"}, NEW t \in Established,
         pool' = [pool EXCEPT ![s] = t], pcb' = s, pc' = pc
  PROVE  IInv'
<1>1. /\ pcb = s /\ s # NoPcb /\ pc # "w_reset"
      /\ \A r \in Slots \ {s} : pool[r] \notin Attached
  BY ConstantsAssumption DEF TypeOK, IInv, PcbOwned, ClosedBeforeReset, Attached
<1>2. /\ pool'[s] \in Established
      /\ \A r \in Slots \ {s} : pool'[r] \notin Attached
  BY <1>1 DEF TypeOK
<1>3. connected' = TRUE
  <2>1. state = "CONNECTING" \/ connected = TRUE
    BY DEF TypeOK, IInv, ConnectingIsKnown, EstablishedIsConnected, Established
  <2>2. connected' \in BOOLEAN
    BY AdvanceFacts
  <2>3. QED BY <2>1, <2>2, AdvanceFacts
<1>4. PcbOwned' /\ ClosedBeforeReset'
  BY <1>1, <1>2 DEF PcbOwned, ClosedBeforeReset, Attached, Established
<1>5. ConnectedIsEstablished' /\ EstablishedIsConnected'
  BY <1>1, <1>2, <1>3 DEF ConnectedIsEstablished, EstablishedIsConnected
<1>6. ConnectingIsKnown'
  <2>1. \A r \in Slots : pool'[r] \notin {"synSent", "closed"}
    BY <1>2 DEF Attached, Established
  <2>2. state' = "CONNECTING" => state = "CONNECTING"
    BY DEF Advance, IdleStep, CheckSunsStep, FindCommonHdrStep, FetchDataStep,
           WaitDataStep, ConnectingStep
  <2>3. QED BY <2>1, <2>2 DEF IInv, ConnectingIsKnown
<1>7. IdleIsNotified'
  <2>1. /\ state' = "IDLE" /\ state # "IDLE" => notified'
        /\ notified => notified'
    BY AdvanceFacts
  <2>2. state = "IDLE" => connected
    BY DEF IInv, ConnectingIsKnown, EstablishedIsConnected, Established
  <2>3. QED BY <2>1, <2>2 DEF IInv, IdleIsNotified
<1>8. QED BY <1>4, <1>5, <1>6, <1>7 DEF IInv

(* Every action keeps the inductive invariant. *)
LEMMA InvariantStep == TypeOK /\ IInv /\ [Next]_vars => IInv'
<1> SUFFICES ASSUME TypeOK, IInv, [Next]_vars PROVE IInv'
  OBVIOUS
<1>t. TypeOK'
  BY TypeStep
<1> USE ConstantsAssumption DEF IInv, PcbOwned, ConnectedIsEstablished, ConnectingIsKnown,
        EstablishedIsConnected, ClosedBeforeReset, IdleIsNotified, Attached, Established
<1>ty. /\ pcb \in Slots \cup {NoPcb} /\ pool \in [Slots -> Attached \cup {"free"}]
       /\ connected \in BOOLEAN /\ notified \in BOOLEAN /\ wire \in Segments
  BY DEF TypeOK, Segments
<1>1. CASE ModbusTask
  <2> USE <1>ty DEF client, net
  <2>1. CASE DiscoverPcb
    BY <2>1 DEF DiscoverPcb
  <2>2. CASE DiscoverCheck
    BY <2>2 DEF DiscoverCheck
  <2>3. CASE DiscoverMark
    BY <2>3 DEF DiscoverMark
  <2>4. CASE DiscoverConnect
    BY <2>4 DEF DiscoverConnect, CanConnect
  <2>5. CASE RetrieveClear
    BY <2>5 DEF RetrieveClear
  <2>6. CASE RetrieveCheck
    BY <2>6 DEF RetrieveCheck
  <2>7. CASE RetrieveMark
    BY <2>7 DEF RetrieveMark
  <2>8. CASE RetrieveSend
    <3>1. /\ connected => connected' 
          /\ notified => notified'
          /\ state' = "IDLE" /\ state # "IDLE" => notified'
          /\ connected' \in BOOLEAN
      BY <2>8, AdvanceFacts DEF RetrieveSend
    <3>2. /\ pc = "r_send" /\ pc' = "w_check" /\ UNCHANGED <<pcb, pool>>
      BY <2>8 DEF RetrieveSend
    <3>3. connected' = connected /\ (state' = "CONNECTING" => state = "CONNECTING")
      BY <2>8 DEF RetrieveSend, Advance, IdleStep, CheckSunsStep, FindCommonHdrStep,
                  FetchDataStep, WaitDataStep, ConnectingStep
    <3>4. QED BY <3>1, <3>2, <3>3
  <2>9. CASE WaitCheck
    BY <2>9 DEF WaitCheck
  <2>10. CASE WaitTake
    BY <2>10 DEF WaitTake
  <2>11. CASE WaitJudge
    BY <2>11 DEF WaitJudge
  <2>12. CASE WaitClose
    BY <2>12 DEF WaitClose
  <2>13. CASE WaitReset
    BY <2>13 DEF WaitReset, Disconnect
  <2>14. QED
    BY <1>1, <2>1, <2>2, <2>3, <2>4, <2>5, <2>6, <2>7, <2>8, <2>9, <2>10, <2>11,
       <2>12, <2>13 DEF ModbusTask
<1> HIDE DEF IInv
<1>2. ASSUME NEW s \in Slots, ConnectCb(s) PROVE IInv'
  BY <1>2, <1>ty, LiveCallback DEF ConnectCb
<1>3. ASSUME NEW s \in Slots, RecvCb(s) PROVE IInv'
  <2>1. /\ pool[s] = "open" /\ UNCHANGED <<pcb, pool, pc>> /\ wire # <<>>
    BY <1>3 DEF RecvCb
  <2>2. pcb' = s /\ pool' = [pool EXCEPT ![s] = "open"]
    BY <1>ty, <2>1 DEF IInv
  <2>3. Tail(wire) \in Segments /\ <<"rest">> \o Tail(wire) \in Segments
    BY <1>ty, <2>1, WireTypes
  <2>4. QED BY <1>3, <2>1, <2>2, <2>3, LiveCallback DEF RecvCb
<1>4. ASSUME NEW s \in Slots, RecvFin(s) PROVE IInv'
  <2>1. pool[s] = "open" /\ pcb = s
    BY <1>4, <1>ty DEF RecvFin, IInv
  <2>2. QED BY <1>4, <2>1, EmptyWire, LiveCallback DEF RecvFin
<1> USE DEF IInv
<1>5. ASSUME NEW s \in Slots, ErrCb(s) PROVE IInv'
  BY <1>5, <1>ty DEF ErrCb, Disconnect
<1>6. CASE Calm \/ WifiChanges
  BY <1>6 DEF Calm, WifiChanges, client, net
<1>7. CASE UNCHANGED vars
  BY <1>7 DEF vars, client, net
<1>8. QED BY <1>1, <1>2, <1>3, <1>4, <1>5, <1>6, <1>7 DEF Next, TcpIp, Deliver, Halted

(* Types and the inductive invariant hold in every reachable state. *)
LEMMA Invariance == Spec => [](TypeOK /\ IInv)
<1>1. TypeOK /\ IInv /\ [Next]_vars => (TypeOK /\ IInv)'
  BY TypeStep, InvariantStep
<1>2. QED BY <1>1, InitInvariant, PTL DEF Spec

-----------------------------------------------------------------------------
(* Type correctness, for every pool and every window. *)
THEOREM TypeCorrect == Spec => []TypeOK
BY Invariance, PTL

(* The context's pointer and lwIP's callbacks never disagree about which   *)
(* connection is the meter's: no use of a freed pcb, no orphan.            *)
THEOREM PcbIsOwned == Spec => []PcbOwned
<1>1. TypeOK /\ IInv => PcbOwned
  BY DEF IInv
<1>2. QED BY <1>1, Invariance, PTL

(* Whatever the order of err_cb, connect_cb and the steps of modbus_task,  *)
(* connected means an established connection.                              *)
THEOREM ConnectedHasConnection == Spec => []ConnectedIsEstablished
<1>1. TypeOK /\ IInv => ConnectedIsEstablished
  BY DEF IInv
<1>2. QED BY <1>1, Invariance, PTL

(* No answer and no error is slept through. *)
THEOREM WakeupNotMissed == Spec => []NoMissedWakeup
<1>1. TypeOK /\ IInv => NoMissedWakeup
  BY DEF IInv, IdleIsNotified, NoMissedWakeup
<1>2. QED BY <1>1, Invariance, PTL

-----------------------------------------------------------------------------
(* The implementation of Connection: what the context and the pool make of *)
(* a connection goes only the way the abstract specification allows.       *)

(* Where the context's pcb has our callbacks its state is the link. *)
LEMMA LinkOf ==
  ASSUME TypeOK, IInv, NEW s \in Slots, pool[s] \in Attached
  PROVE  Link = pool[s] /\ pcb = s /\ s # NoPcb /\ pc # "w_reset"
BY ConstantsAssumption DEF TypeOK, IInv, PcbOwned, ClosedBeforeReset, Link, Attached

(* The pointer to no pcb, or to a freed one, is no link. *)
LEMMA NoLink ==
  ASSUME TypeOK, IInv, pcb = NoPcb \/ pc = "w_reset"
  PROVE  Link = "none"
<1>1. CASE pcb = NoPcb
  BY <1>1 DEF Link
<1>2. CASE pcb # NoPcb
  <2>1. pcb \in Slots /\ pool[pcb] \in Attached \cup {"free"}
    BY <1>2 DEF TypeOK
  <2>2. pool[pcb] = "free"
    BY <1>2, <2>1 DEF IInv, ClosedBeforeReset
  <2>3. QED BY <2>2 DEF Link
<1>3. QED BY <1>1, <1>2

(* In modbus_task nothing but tcp_new, tcp_connect, tcp_pcb_close and the  *)
(* assignments after it touch the connection.                              *)
LEMMA TaskImplements ==
  ASSUME TypeOK, IInv, ModbusTask
  PROVE  [Conn!Next]_(Conn!vars)
<1> USE DEF Conn!vars, Conn!Next, client, net
<1>ty. /\ pcb \in Slots \cup {NoPcb} /\ pool \in [Slots -> Attached \cup {"free"}]
       /\ connected \in BOOLEAN
  BY DEF TypeOK
<1>s. ASSUME UNCHANGED <<pcb, pool, connected>> PROVE UNCHANGED Conn!vars
  BY <1>s DEF Link
<1>1. CASE DiscoverPcb
  <2>1. CASE UNCHANGED <<pcb, pool>>
    BY <1>1, <1>s, <2>1 DEF DiscoverPcb
  <2>2. ASSUME NEW s \in Slots, pcb = NoPcb, pool' = [pool EXCEPT ![s] = "closed"],
               pcb' = s, UNCHANGED connected, pc = "d_pcb"
        PROVE  Conn!Create
    <3>1. Link = "none" /\ ~connected
      BY <2>2 DEF Link, IInv, ConnectedIsEstablished
    <3>2. Link' = "closed"
      BY <1>ty, <2>2, ConstantsAssumption DEF Link
    <3>3. QED BY <2>2, <3>1, <3>2 DEF Conn!Create
  <2>3. QED BY <1>1, <2>1, <2>2 DEF DiscoverPcb
<1>2. CASE DiscoverConnect
  <2>1. CASE UNCHANGED net
    BY <1>2, <1>s, <2>1 DEF DiscoverConnect
  <2>2. CASE CanConnect /\ pool' = [pool EXCEPT ![pcb] = "synSent"]
    <3>1. pcb \in Slots /\ pool[pcb] = "closed" /\ pcb # NoPcb
      BY <1>ty, <2>2 DEF CanConnect
    <3>2. Link = "closed" /\ Link' = "synSent"
      BY <1>2, <1>ty, <2>2, <3>1 DEF DiscoverConnect, Link
    <3>3. ~connected
      BY <1>2, <3>1 DEF DiscoverConnect, IInv, ConnectedIsEstablished, Established
    <3>4. QED BY <1>2, <3>2, <3>3 DEF DiscoverConnect, Conn!Dial
  <2>3. QED BY <1>2, <2>1, <2>2 DEF DiscoverConnect
<1>3. CASE RetrieveSend
  <2>1. UNCHANGED <<pcb, pool>> /\ Advance("null", wire) /\ state # "CONNECTING"
    BY <1>3 DEF RetrieveSend, IInv, ConnectingIsKnown
  <2>2. UNCHANGED connected
    BY <2>1 DEF Advance, IdleStep, ConnectingStep, CheckSunsStep, FindCommonHdrStep,
                FetchDataStep, WaitDataStep
  <2>3. QED BY <1>s, <2>1, <2>2
<1>4. CASE WaitClose
  <2>1. pc = "w_close" /\ UNCHANGED <<pcb, connected>>
    BY <1>4 DEF WaitClose
  <2>2. CASE pcb = NoPcb
    BY <1>4, <1>s, <2>1, <2>2 DEF WaitClose
  <2>3. CASE pcb # NoPcb
    <3>1. pcb \in Slots /\ pool[pcb] \in Attached
      BY <1>ty, <2>1, <2>3 DEF IInv, PcbOwned
    <3>2. Link # "none"
      BY <3>1, LinkOf DEF Attached
    <3>3. Link' = "none"
      BY <1>4, <1>ty, <2>1, <2>3, <3>1 DEF WaitClose, Link
    <3>4. QED BY <2>1, <3>2, <3>3 DEF Conn!Close
  <2>4. QED BY <2>2, <2>3
<1>5. CASE WaitReset
  <2>1. pc = "w_reset" /\ pcb' = NoPcb /\ connected' = FALSE
    BY <1>5 DEF WaitReset, Disconnect
  <2>2. Link = "none" /\ Link' = "none"
    BY <2>1, NoLink DEF Link
  <2>3. QED BY <2>1, <2>2 DEF Conn!Forget
<1>6. CASE \/ DiscoverCheck \/ DiscoverMark \/ RetrieveClear \/ RetrieveCheck
           \/ RetrieveMark \/ WaitCheck \/ WaitTake \/ WaitJudge
  BY <1>6, <1>s DEF DiscoverCheck, DiscoverMark, RetrieveClear, RetrieveCheck,
                    RetrieveMark, WaitCheck, WaitTake, WaitJudge
<1>7. QED BY <1>1, <1>2, <1>3, <1>4, <1>5, <1>6 DEF ModbusTask

(* A callback of lwIP is a step of the connection it is about, which is    *)
(* the one the context has.                                                *)
LEMMA CallbackImplements ==
  ASSUME TypeOK, IInv, TcpIp
  PROVE  [Conn!Next]_(Conn!vars)
<1> USE DEF Conn!vars, Conn!Next
<1>ty. /\ pool \in [Slots -> Attached \cup {"free"}] /\ connected \in BOOLEAN
       /\ wire \in Segments
  BY DEF TypeOK, Segments
<1>1. ASSUME NEW s \in Slots, ConnectCb(s) PROVE Conn!Up
  <2>1. /\ pool[s] = "synSent" /\ pool' = [pool EXCEPT ![s] = "open"] /\ pcb' = s
        /\ Advance("null", wire)
    BY <1>1 DEF ConnectCb
  <2>2. Link = "synSent" /\ pcb = s /\ s # NoPcb /\ pc # "w_reset"
    BY <2>1, LinkOf DEF Attached
  <2>3. ~connected /\ state = "CONNECTING"
    BY <2>1, <2>2 DEF IInv, ConnectedIsEstablished, ConnectingIsKnown, Established
  <2>4. Link' = "open"
    BY <1>ty, <2>1, <2>2 DEF Link
  <2>5. connected' = TRUE
    BY <1>ty, <2>1, <2>3, AdvanceFacts
  <2>6. QED BY <2>2, <2>3, <2>4, <2>5 DEF Conn!Up
<1>2. ASSUME NEW s \in Slots, RecvCb(s) PROVE UNCHANGED Conn!vars
  <2>1. pool[s] = "open" /\ UNCHANGED <<pcb, pool>> /\ wire # <<>>
    BY <1>2 DEF RecvCb
  <2>2. connected = TRUE
    BY <1>ty, <2>1 DEF IInv, EstablishedIsConnected, Established
  <2>3. Tail(wire) \in Segments /\ <<"rest">> \o Tail(wire) \in Segments
    BY <1>ty, <2>1, WireTypes
  <2>4. connected' = TRUE
    BY <1>2, <2>2, <2>3, AdvanceFacts DEF RecvCb
  <2>5. QED BY <2>1, <2>2, <2>4 DEF Link
<1>3. ASSUME NEW s \in Slots, RecvFin(s) PROVE Conn!PeerCloses
  <2>1. /\ pool[s] = "open" /\ pool' = [pool EXCEPT ![s] = "peerClosed"]
        /\ UNCHANGED pcb /\ Advance("null", <<>>)
    BY <1>3 DEF RecvFin
  <2>2. Link = "open" /\ pcb = s /\ s # NoPcb
    BY <2>1, LinkOf DEF Attached
  <2>3. connected = TRUE
    BY <1>ty, <2>1 DEF IInv, EstablishedIsConnected, Established
  <2>4. connected' = TRUE
    BY <2>1, <2>3, EmptyWire, AdvanceFacts
  <2>5. Link' = "peerClosed"
    BY <1>ty, <2>1, <2>2 DEF Link
  <2>6. QED BY <2>2, <2>3, <2>4, <2>5 DEF Conn!PeerCloses
<1>4. ASSUME NEW s \in Slots, ErrCb(s) PROVE Conn!Lose
  <2>1. pool[s] \in Attached \ {"closed"} /\ pcb' = NoPcb /\ connected' = FALSE
    BY <1>4 DEF ErrCb, Disconnect
  <2>2. Link = pool[s] /\ Link' = "none"
    BY <2>1, LinkOf DEF Link
  <2>3. QED BY <2>1, <2>2 DEF Conn!Lose, Conn!Established, Attached
<1>5. QED BY <1>1, <1>2, <1>3, <1>4 DEF TcpIp, Deliver

(* Whichever pcb lwIP hands out and however callbacks and the steps of     *)
(* modbus_task interleave, the client has one connection at a time, dials  *)
(* it once, and `connected' follows it.                                    *)
THEOREM ConnectionImplemented == Spec => ImplementsConnection
<1>1. Init => Conn!Init
  BY DEF Init, Conn!Init, Link
<1>2. TypeOK /\ IInv /\ [Next]_vars => [Conn!Next]_(Conn!vars)
  <2> SUFFICES ASSUME TypeOK, IInv, [Next]_vars PROVE [Conn!Next]_(Conn!vars)
    OBVIOUS
  <2>1. CASE UNCHANGED vars \/ Calm \/ WifiChanges
    BY <2>1 DEF vars, Calm, WifiChanges, client, net, Conn!vars, Link
  <2>2. QED BY <2>1, TaskImplements, CallbackImplements DEF Next, Halted
<1>3. QED BY <1>1, <1>2, Invariance, PTL DEF Spec, ImplementsConnection, Conn!Spec

=============================================================================
