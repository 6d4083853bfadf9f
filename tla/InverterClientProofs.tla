------------------------- MODULE InverterClientProofs -------------------------
(***************************************************************************)
(* Safety of an inverter's client for any chain of blocks, any order of    *)
(* the device's model headers and any number of faults: types, and the     *)
(* wake-up of modbus_task.                                                 *)
(***************************************************************************)
EXTENDS InverterClient, SequenceTheorems, TLAPS

(* wait_receive is taken back wherever the context comes to rest, so a     *)
(* connected inverter that is idle is awaited only where modbus_task has   *)
(* just said so; if that was for a connection that came up before, there   *)
(* is a name and a fetch follows.                                          *)
IdleIsNotAwaited ==
  connected /\ waitReceive /\ state = "IDLE" =>
    \/ pc \in {"d_connect", "r_clear", "r_check"} /\ named
    \/ pc \in {"r_await", "r_mark"}

(* The states before the name of the device is set.                        *)
Nameless == {"CONNECTING", "CHECK_SUNS", "FIND_COMMON_HDR", "GET_COMMON_INFOS"}

NamedOrNew == connected => named \/ state \in Nameless
DialledIsNamedOrNew == pc = "d_await" => NamedOrNew

IInv == TypeOK /\ IdleIsNotAwaited /\ DialledIsNamedOrNew /\ NoMissedWakeup

Segments == Seq({"answer", "part", "rest", "fin"})

-----------------------------------------------------------------------------
(* What is on the wire stays so under the steps of network and client.     *)
LEMMA WireTypes ==
  ASSUME NEW w \in Segments, w # <<>>
  PROVE  /\ Head(w) \in {"answer", "part", "rest", "fin"}
         /\ Tail(w) \in Segments /\ Front(w) \in Segments
         /\ Front(w) \o <<"part", "rest">> \in Segments
<1>1. Head(w) \in {"answer", "part", "rest", "fin"} /\ Tail(w) \in Segments
  BY HeadTailProperties DEF Segments
<1>2. Len(w) \in Nat \ {0}
  BY LenProperties, EmptySeq DEF Segments
<1>3. Front(w) \in Segments
  BY <1>2, SubSeqProperties DEF Front, Segments
<1>4. <<"part", "rest">> \in Segments
  BY DEF Segments
<1>5. QED BY <1>1, <1>3, <1>4, ConcatProperties DEF Segments

LEMMA SendTypes ==
  ASSUME NEW owed \in Segments, Send(owed)
  PROVE  wire' \in Segments
<1>1. wire' = Append(owed, "answer") \/ wire' = owed
  BY DEF Send
<1>2. QED BY <1>1, AppendProperties DEF Segments

LEMMA EmptyWire == <<>> \in Segments
BY DEF Segments

(* The elements of the two sequences of blocks are blocks. *)
LEMMA BlockTypes ==
  /\ Len(Chain) \in Nat \ {0} /\ Len(Scan) \in Nat
  /\ \A j \in 1..Len(Chain) : Chain[j] \in Blocks
  /\ \A j \in 1..Len(Scan) : Scan[j] \in Blocks
<1>1. Chain \in Seq(Blocks) /\ Scan \in Seq(Blocks) /\ Chain # <<>>
  BY ChainAssumption DEF Blocks
<1>2. QED BY <1>1, LenProperties, ElementOfSeq, EmptySeq

(* The fields of the context that advance_context_state assigns. *)
AdvanceTypes ==
  /\ connected' \in BOOLEAN /\ requestClose' \in BOOLEAN
  /\ waitCount' \in 0..MaxWaits /\ state' \in States
  /\ at' \in 1..AwaitLast /\ pos' \in 0..(Len(Scan) + 1)
  /\ found' \subseteq Blocks /\ due' \subseteq Blocks
  /\ named' \in BOOLEAN /\ active' \in BOOLEAN /\ power' \in {"zero", "read"}
  /\ wire' \in Segments /\ enabled' \in BOOLEAN
  /\ complete' \in {"none", "started", "done"} /\ halted' \in BOOLEAN

(* A search that lost its way, and the last step of the headers. *)
LEMMA SearchTypes ==
  ASSUME TypeOK, NEW owed \in Segments
  PROVE  /\ LoseTrack(owed) => /\ pos' = 0 /\ wire' \in Segments
                               /\ requestClose' \in BOOLEAN
         /\ EnableStorage(owed) => /\ state' \in States /\ wire' \in Segments
                                   /\ requestClose' \in BOOLEAN
BY SendTypes DEF TypeOK, LoseTrack, EnableStorage, States, Discovery

(* One step for each state in which advance_context_state can be called. *)
LEMMA AdvanceKeepsTypes ==
  ASSUME TypeOK, NEW k, NEW owed \in Segments, Advance(k, owed)
  PROVE  AdvanceTypes
<1> USE BlockTypes DEF AdvanceTypes, States, Discovery, MaxWaits, infos, ghost
<1>t. /\ connected \in BOOLEAN /\ requestClose \in BOOLEAN
      /\ waitCount \in 0..MaxWaits /\ state \in States
      /\ at \in 1..AwaitLast /\ pos \in 0..(Len(Scan) + 1)
      /\ found \subseteq Blocks /\ due \subseteq Blocks
      /\ named \in BOOLEAN /\ active \in BOOLEAN /\ power \in {"zero", "read"}
      /\ enabled \in BOOLEAN /\ complete \in {"none", "started", "done"}
      /\ halted \in BOOLEAN
  BY DEF TypeOK
<1>p. ASSUME ParseNull(k) PROVE halted' \in BOOLEAN
  BY <1>p DEF ParseNull
<1>s. ASSUME SignOfLife PROVE active' \in BOOLEAN /\ power' \in {"zero", "read"}
  BY <1>s, <1>t DEF SignOfLife
<1>1. CASE IdleStep(owed)
  BY <1>1, <1>t DEF IdleStep
<1>2. CASE ConnectingStep(owed)
  BY <1>2, <1>t, SendTypes DEF ConnectingStep
<1>3. CASE CheckSunsStep(k, owed)
  <2>1. /\ ParseNull(k) /\ SignOfLife
        /\ UNCHANGED <<connected, waitCount, at, found, due, named, ghost>>
    BY <1>3 DEF CheckSunsStep
  <2>2. \/ /\ state' = "FIND_COMMON_HDR" /\ pos' = 1
           /\ Send(owed) /\ UNCHANGED requestClose
        \/ requestClose' = TRUE /\ wire' = owed /\ UNCHANGED <<state, pos>>
    BY <1>3 DEF CheckSunsStep
  <2>3. /\ state' \in States /\ pos' \in 0..(Len(Scan) + 1)
        /\ requestClose' \in BOOLEAN /\ wire' \in Segments
    <3>1. CASE /\ state' = "FIND_COMMON_HDR" /\ pos' = 1
               /\ Send(owed) /\ UNCHANGED requestClose
      BY <3>1, <1>t, SendTypes
    <3>2. CASE requestClose' = TRUE /\ wire' = owed /\ UNCHANGED <<state, pos>>
      BY <3>2, <1>t
    <3>3. QED BY <2>2, <3>1, <3>2
  <2>4. QED BY <2>1, <2>3, <1>t, <1>p, <1>s
<1>4. CASE FindCommonHdrStep(k, owed)
  <2>1. /\ ParseNull(k) /\ SignOfLife
        /\ UNCHANGED <<connected, waitCount, at, found, due, named, ghost>>
    BY <1>4 DEF FindCommonHdrStep
  <2>2. \/ /\ state' = "GET_COMMON_INFOS" /\ Send(owed)
           /\ UNCHANGED <<pos, requestClose>>
        \/ LoseTrack(owed) /\ UNCHANGED state
    BY <1>4 DEF FindCommonHdrStep
  <2>3. QED BY <2>1, <2>2, <1>t, <1>p, <1>s, SendTypes, SearchTypes
<1>5. CASE GetCommonInfosStep(k, owed)
  BY <1>5, <1>t, <1>p, <1>s, SendTypes DEF GetCommonInfosStep
<1>6. CASE FindDataHdrStep(k, owed)
  <2>1. /\ ParseNull(k) /\ SignOfLife
        /\ UNCHANGED <<connected, waitCount, at, due, named, ghost>>
    BY <1>6 DEF FindDataHdrStep
  <2>2. /\ state' \in States /\ requestClose' \in BOOLEAN /\ wire' \in Segments
        /\ pos' \in 0..(Len(Scan) + 1) /\ found' \subseteq Blocks
    <3>1. CASE /\ pos \in 1..Models(device)
               /\ found' = found \cup {Scan[pos]} /\ pos' = pos + 1
               /\ Send(owed) /\ UNCHANGED <<state, requestClose>>
      <4>1. pos \in 1..Len(Scan)
        BY <3>1 DEF Models
      <4>2. QED BY <3>1, <4>1, <1>t, SendTypes
    <3>2. CASE EnableStorage(owed) /\ UNCHANGED <<found, pos>>
      BY <3>2, <1>t, SearchTypes
    <3>3. CASE LoseTrack(owed) /\ UNCHANGED <<state, found>>
      BY <3>3, <1>t, SearchTypes
    <3>4. QED BY <1>6, <3>1, <3>2, <3>3 DEF FindDataHdrStep
  <2>3. QED BY <2>1, <2>2, <1>t, <1>p, <1>s
<1>7. CASE EnableStorageStep(owed)
  BY <1>7, <1>t, SearchTypes DEF EnableStorageStep
<1>8. CASE EnableInverterStep(owed)
  <2>1. \/ /\ state' = "FETCH" /\ at' = AwaitLast
           /\ Send(owed) /\ enabled' = TRUE /\ UNCHANGED requestClose
        \/ requestClose' = TRUE /\ wire' = owed /\ UNCHANGED <<state, at, enabled>>
    BY <1>8 DEF EnableInverterStep
  <2>2. UNCHANGED <<connected, waitCount, pos, found, due, infos, complete, halted>>
    BY <1>8 DEF EnableInverterStep
  <2>3. AwaitLast \in 1..AwaitLast
    BY DEF AwaitLast
  <2>4. QED BY <2>1, <2>2, <2>3, <1>t, SendTypes
<1>9. CASE FetchStep(k, owed)
  <2>1. active' \in BOOLEAN /\ power' \in {"zero", "read"}
    BY <1>9, <1>t, <1>s DEF FetchStep
  <2>2. UNCHANGED <<connected, waitCount, pos, found, named, enabled, halted>>
    BY <1>9 DEF FetchStep
  <2>3. /\ state' \in States /\ requestClose' \in BOOLEAN /\ wire' \in Segments
        /\ due' \subseteq Blocks /\ at' \in 1..AwaitLast
        /\ complete' \in {"none", "started", "done"}
    <3>1. CASE Stops = {}
      BY <1>9, <1>t, <3>1 DEF FetchStep
    <3>2. CASE Stops # {}
      <4>1. PICK j \in Stops :
              IF Chain[j] \in found
              THEN Ask(Chain[j], j, owed)
              ELSE /\ state' = "IDLE" /\ requestClose' = TRUE /\ wire' = owed
                   /\ UNCHANGED <<due, at, complete>>
        BY <1>9, <3>2 DEF FetchStep
      <4>2. j + 1 \in 1..AwaitLast
        BY <1>t DEF Stops, AwaitLast
      <4>3. QED BY <4>1, <4>2, <1>t, SendTypes DEF Ask
    <3>3. QED BY <3>1, <3>2
  <2>4. QED BY <2>1, <2>2, <2>3, <1>t
<1>10. QED BY <1>1, <1>2, <1>3, <1>4, <1>5, <1>6, <1>7, <1>8, <1>9 DEF Advance

(* The discovery reaches the states that follow the name only with it. *)
LEMMA AdvanceNames ==
  ASSUME TypeOK, NEW k, NEW owed, Advance(k, owed)
  PROVE  /\ named => named'
         /\ NamedOrNew => NamedOrNew'
<1> USE DEF NamedOrNew, Nameless, infos
<1>1. CASE IdleStep(owed)
  BY <1>1 DEF IdleStep
<1>2. CASE ConnectingStep(owed)
  BY <1>2 DEF ConnectingStep
<1>3. CASE CheckSunsStep(k, owed)
  BY <1>3 DEF CheckSunsStep
<1>4. CASE FindCommonHdrStep(k, owed)
  BY <1>4 DEF FindCommonHdrStep
<1>5. CASE GetCommonInfosStep(k, owed)
  BY <1>5 DEF GetCommonInfosStep
<1>6. CASE FindDataHdrStep(k, owed)
  BY <1>6 DEF FindDataHdrStep
<1>7. CASE EnableStorageStep(owed)
  BY <1>7 DEF EnableStorageStep
<1>8. CASE EnableInverterStep(owed)
  BY <1>8 DEF EnableInverterStep
<1>9. CASE FetchStep(k, owed)
  BY <1>9 DEF FetchStep
<1>10. QED BY <1>1, <1>2, <1>3, <1>4, <1>5, <1>6, <1>7, <1>8, <1>9 DEF Advance

(* What a call of advance_context_state leaves to the invariant. *)
LEMMA AdvanceFacts ==
  ASSUME IInv, NEW k, NEW owed \in Segments, Advance(k, owed)
  PROVE  /\ AdvanceTypes
         /\ waitReceive' \in BOOLEAN /\ notified' \in BOOLEAN /\ device' \in Devices
         /\ wifi' \in BOOLEAN
         /\ waitReceive' = TRUE => state' # "IDLE"
         /\ state' = "IDLE" => notified' \/ (state = "IDLE" /\ notified' = notified)
<1>1. AdvanceTypes
  BY AdvanceKeepsTypes DEF IInv
<1>2. /\ waitReceive' = (waitReceive /\ state' # "IDLE")
      /\ notified' = (notified \/ (state' = "IDLE" /\ state # "IDLE"))
      /\ device' = device
      /\ wifi' = wifi
  BY DEF Advance
<1>3. waitReceive \in BOOLEAN /\ notified \in BOOLEAN /\ device \in Devices /\ wifi \in BOOLEAN
  BY DEF IInv, TypeOK
<1>4. QED BY <1>1, <1>2, <1>3

-----------------------------------------------------------------------------
(* The first state satisfies the inductive invariant.                      *)
LEMMA InitInvariant == Init => IInv
<1> SUFFICES ASSUME Init PROVE IInv
  OBVIOUS
<1>1. /\ wire \in Segments /\ due \subseteq Blocks /\ at \in 1..AwaitLast
      /\ pos \in 0..(Len(Scan) + 1) /\ trouble \in 0..MaxTrouble
  BY EmptyWire, BlockTypes, ChainAssumption DEF Init, AwaitLast
<1>2. state \in States /\ device \in Devices /\ waitCount \in 0..MaxWaits
  BY DEF Init, States, Devices, MaxWaits
<1>3. TypeOK
  BY <1>1, <1>2 DEF Init, TypeOK, Segments
<1>4. IdleIsNotAwaited /\ DialledIsNamedOrNew /\ NoMissedWakeup
  BY DEF Init, IdleIsNotAwaited, DialledIsNamedOrNew, NoMissedWakeup
<1>5. QED BY <1>3, <1>4 DEF IInv

(* A call of advance_context_state from task or callback keeps it.         *)
LEMMA AdvanceKeeps ==
  ASSUME IInv, NEW k, NEW owed \in Segments, Advance(k, owed),
         link' \in {"none", "closed", "synSent", "open", "peerClosed", "stalled"},
         expired' = expired, trouble' = trouble,
         pc' = pc \/ (pc = "r_send" /\ pc' = "w_check")
  PROVE  IInv'
<1>1. TypeOK'
  BY AdvanceFacts DEF IInv, TypeOK, AdvanceTypes, Segments
<1>2. NoMissedWakeup'
  <2>1. SUFFICES ASSUME pc' = "w_take", state' = "IDLE" PROVE notified'
    BY DEF NoMissedWakeup
  <2>2. pc = "w_take"
    BY <2>1
  <2>3. QED BY <2>1, <2>2, AdvanceFacts DEF IInv, NoMissedWakeup
<1>3. IdleIsNotAwaited'
  BY AdvanceFacts DEF IdleIsNotAwaited
<1>4. DialledIsNamedOrNew'
  BY AdvanceNames DEF IInv, DialledIsNamedOrNew
<1>5. QED BY <1>1, <1>2, <1>3, <1>4 DEF IInv

(* What a fault costs is left of the bound. *)
LEMMA FaultTypes ==
  ASSUME TypeOK, Fault \/ Fine
  PROVE  trouble' \in 0..MaxTrouble
BY ChainAssumption DEF TypeOK, Fault, Fine

(* Every action keeps the inductive invariant.  The ones that matter are   *)
(* those that assign wait_receive, and RetrieveCheck.                      *)
LEMMA InvariantStep == IInv /\ [Next]_vars => IInv'
<1> SUFFICES ASSUME IInv, [Next]_vars PROVE IInv'
  OBVIOUS
<1> USE DEF IInv, TypeOK, IdleIsNotAwaited, DialledIsNamedOrNew, NoMissedWakeup,
        NamedOrNew, Nameless
<1> USE DEF context, infos, net, task, ghost
<1>1. CASE ModbusTask
  <2>1. CASE DiscoverPcb
    BY <2>1, FaultTypes DEF DiscoverPcb
  <2>2. CASE DiscoverCheck
    BY <2>2 DEF DiscoverCheck
  <2>3. CASE DiscoverMark
    BY <2>3 DEF DiscoverMark, States
  <2>4. CASE DiscoverAwait
    BY <2>4 DEF DiscoverAwait, Await
  <2>5. CASE DiscoverConnect
    BY <2>5, FaultTypes DEF DiscoverConnect, Devices
  <2>6. CASE RetrieveClear
    <3>1. TypeOK'
      <4>1. /\ notified' \in BOOLEAN /\ pc' = "r_check"
            /\ UNCHANGED <<link, context, infos, expired, net, ghost, trouble, wifi, halted>>
        BY <2>6 DEF RetrieveClear
      <4>2. QED BY <4>1
    <3>2. /\ pc = "r_clear" /\ pc' = "r_check"
          /\ UNCHANGED <<connected, waitReceive, state, named>>
      BY <2>6 DEF RetrieveClear
    <3>3. QED BY <3>1, <3>2
  <2>7. CASE RetrieveCheck
    BY <2>7 DEF RetrieveCheck
  <2>8. CASE RetrieveMark
    BY <2>8, BlockTypes DEF RetrieveMark, States, AwaitLast
  <2>9. CASE RetrieveAwait
    BY <2>9 DEF RetrieveAwait, Await
  <2>10. CASE RetrieveSend
    BY <2>10, AdvanceKeeps DEF RetrieveSend, Segments
  <2>11. CASE WaitCheck
    BY <2>11 DEF WaitCheck
  <2>12. CASE WaitTake
    <3>1. pc = "w_take" /\ notified' = FALSE /\ pc' = "w_active" /\ trouble' \in 0..MaxTrouble
      BY <2>12, FaultTypes DEF WaitTake
    <3>2. UNCHANGED <<link, context, infos, expired, net, ghost, wifi, halted>>
      BY <2>12 DEF WaitTake
    <3>3. TypeOK'
      <4>1. notified' \in BOOLEAN /\ pc' = "w_active" /\ trouble' \in 0..MaxTrouble
        BY <3>1
      <4>2. QED BY <4>1, <3>2
    <3>4. IdleIsNotAwaited' /\ DialledIsNamedOrNew' /\ NoMissedWakeup'
      BY <3>1, <3>2
    <3>5. QED BY <3>3, <3>4
  <2>13. CASE WaitActive
    BY <2>13 DEF WaitActive
  <2>14. CASE WaitZero
    BY <2>14 DEF WaitZero
  <2>15. CASE WaitJudge
    BY <2>15 DEF WaitJudge, Count, MaxWaits
  <2>16. CASE WaitClose
    BY <2>16, EmptyWire DEF WaitClose, HangUp, Segments
  <2>17. CASE WaitReset
    <3>1. /\ pc' = "d_pcb" /\ connected' = FALSE /\ requestClose' = FALSE
          /\ named' = (named /\ expired) /\ expired' = FALSE
      BY <2>17 DEF WaitReset, ResetName
    <3>2. UNCHANGED <<link, waitReceive, waitCount, state, at, pos, found, due, active, power,
                      notified, net, ghost, trouble, wifi, halted>>
      BY <2>17 DEF WaitReset
    <3>3. named' \in BOOLEAN
      BY <3>1, Zenon
    <3>4. TypeOK'
      <4>1. /\ pc' = "d_pcb" /\ connected' \in BOOLEAN /\ requestClose' \in BOOLEAN
            /\ named' \in BOOLEAN /\ expired' \in BOOLEAN
        BY <3>1, <3>3
      <4>2. QED BY <4>1, <3>2
    <3>5. QED BY <3>1, <3>2, <3>4
  <2>18. QED
    BY <1>1, <2>1, <2>2, <2>3, <2>4, <2>5, <2>6, <2>7, <2>8, <2>9,
       <2>10, <2>11, <2>12, <2>13, <2>14, <2>15, <2>16, <2>17 DEF ModbusTask
<1>2. CASE ConnectCb
  BY <1>2, AdvanceKeeps DEF ConnectCb, Segments
<1>3. CASE RecvCb
  <2>1. wire \in Segments /\ wire # <<>> /\ <<>> \in Segments
    BY <1>3, EmptyWire DEF RecvCb, Segments
  <2>2. Tail(wire) \in Segments
    BY <2>1, WireTypes
  <2>3. \/ Advance("null", <<>>) /\ link' = "peerClosed"
        \/ Advance(Head(wire), Tail(wire)) /\ UNCHANGED link
    BY <1>3 DEF RecvCb
  <2>4. UNCHANGED <<pc, expired, trouble>>
    BY <1>3 DEF RecvCb
  <2>5. QED BY <2>1, <2>2, <2>3, <2>4, AdvanceKeeps
<1>4. CASE ErrCb
  <2>1. /\ link' = "none" /\ wire' \in Segments /\ trouble' \in 0..MaxTrouble
        /\ connected' = FALSE /\ state' = "IDLE" /\ notified' = TRUE
    BY <1>4, FaultTypes, EmptyWire DEF ErrCb, HangUp
  <2>2. UNCHANGED <<waitReceive, requestClose, waitCount, at, pos, found, due, infos,
                    pc, expired, device, ghost, wifi, halted>>
    BY <1>4 DEF ErrCb
  <2>3. TypeOK'
    <3>1. /\ link' = "none" /\ wire' \in Segments /\ trouble' \in 0..MaxTrouble
          /\ connected' \in BOOLEAN /\ state' \in States /\ notified' \in BOOLEAN
      BY <2>1 DEF States
    <3>2. QED BY <3>1, <2>2 DEF Segments
  <2>4. QED BY <2>1, <2>2, <2>3
<1>5. CASE Network
  <2>1. wire' \in Segments /\ link' \in {link, "stalled"}
    <3>1. wire \in Segments /\ <<>> \in Segments
      BY EmptyWire DEF Segments
    <3>2. wire # <<>> => Front(wire) \in Segments /\ Front(wire) \o <<"part", "rest">> \in Segments
      BY <3>1, WireTypes
    <3>3. Append(wire, "fin") \in Segments
      BY <3>1, AppendProperties DEF Segments
    <3>4. QED BY <1>5, <3>1, <3>2, <3>3 DEF Network, Unanswered, Split, PeerCloses, Stall
  <2>2. trouble' \in 0..MaxTrouble
    BY <1>5, FaultTypes DEF Network
  <2>3. QED BY <1>5, <2>1, <2>2 DEF Network, Segments
<1>6. CASE Clock
  <2>1. CASE Silence
    <3>1. active' \in BOOLEAN
      BY <2>1 DEF Silence
    <3>2. UNCHANGED <<link, context, named, power, task, net, ghost, trouble, wifi, halted>>
      BY <2>1 DEF Silence
    <3>3. QED BY <3>1, <3>2
  <2>2. ASSUME NEW b \in Timed, GrowsOld(b) PROVE IInv'
    <3>1. due' \subseteq Blocks
      BY <2>2, ChainAssumption DEF GrowsOld, Blocks
    <3>2. QED BY <2>2, <3>1 DEF GrowsOld
  <2>3. QED BY <1>6, <2>1, <2>2 DEF Clock
<1>7. CASE WifiChanges
  <2>1. wifi' \in BOOLEAN
    BY <1>7, Zenon DEF WifiChanges
  <2>2. UNCHANGED <<link, context, infos, task, net, ghost, trouble, halted>>
    BY <1>7 DEF WifiChanges
  <2>3. QED BY <2>1, <2>2
<1>8. CASE UNCHANGED vars
  BY <1>8 DEF vars
<1>9. QED BY <1>1, <1>2, <1>3, <1>4, <1>5, <1>6, <1>7, <1>8 DEF Next, TcpIp, Halted

(* The inductive invariant holds in every reachable state. *)
LEMMA Invariance == Spec => []IInv
BY InitInvariant, InvariantStep, PTL DEF Spec

-----------------------------------------------------------------------------
(* Type correctness: the fetch never leaves the chain of blocks and the    *)
(* search never the model headers, whatever segments advance them.         *)
THEOREM TypeCorrect == Spec => []TypeOK
<1>1. IInv => TypeOK
  BY DEF IInv
<1>2. QED BY <1>1, Invariance, PTL

(* No answer of an inverter and no error is slept through in wait_all.     *)
THEOREM WakeupNotMissed == Spec => []NoMissedWakeup
<1>1. IInv => NoMissedWakeup
  BY DEF IInv
<1>2. QED BY <1>1, Invariance, PTL
-----------------------------------------------------------------------------
(* The implementation of Connection.                                       *)

Live == {"open", "peerClosed", "stalled"}

(* `connected' and the connection: they differ only between tcp_pcb_close  *)
(* and the assignment after it.                                            *)
ConnectedIsLive == /\ connected /\ pc # "w_reset" => link \in Live
                   /\ link \in Live => connected
                   /\ pc = "w_reset" => link = "none"

(* A pcb that is connecting, or about to, finds the context in CONNECTING: *)
(* a fetch starts only on a connection there is.                           *)
ConnectingIsKnown ==
  /\ link = "synSent" => state = "CONNECTING" /\ pc \notin {"r_await", "r_mark", "r_send"}
  /\ link = "closed" /\ pc \in {"d_await", "d_connect"} => state = "CONNECTING"
  /\ pc = "r_send" => state # "CONNECTING"

LinkInv == ConnectedIsLive /\ ConnectingIsKnown

(* What advance_context_state does to connected and to the state: it       *)
(* connects in CONNECTING, and never gets there.                           *)
LEMMA AdvanceConnects ==
  ASSUME TypeOK, NEW k, NEW owed, Advance(k, owed)
  PROVE  /\ state = "CONNECTING" => connected' = TRUE
         /\ state # "CONNECTING" => connected' = connected
         /\ state' # "CONNECTING"
<1> USE DEF TypeOK, States, Discovery
<1>1. CASE IdleStep(owed)
  BY <1>1 DEF IdleStep
<1>2. CASE ConnectingStep(owed)
  BY <1>2 DEF ConnectingStep
<1>3. CASE CheckSunsStep(k, owed)
  BY <1>3 DEF CheckSunsStep
<1>4. CASE FindCommonHdrStep(k, owed)
  BY <1>4 DEF FindCommonHdrStep
<1>5. CASE GetCommonInfosStep(k, owed)
  BY <1>5 DEF GetCommonInfosStep
<1>6. CASE FindDataHdrStep(k, owed)
  BY <1>6 DEF FindDataHdrStep, EnableStorage
<1>7. CASE EnableStorageStep(owed)
  BY <1>7 DEF EnableStorageStep, EnableStorage
<1>8. CASE EnableInverterStep(owed)
  BY <1>8 DEF EnableInverterStep
<1>9. CASE FetchStep(k, owed)
  BY <1>9 DEF FetchStep, Ask
<1>10. QED BY <1>1, <1>2, <1>3, <1>4, <1>5, <1>6, <1>7, <1>8, <1>9 DEF Advance

(* The steps of modbus_task that leave link and connected alone. *)
Aside == \/ DiscoverCheck \/ DiscoverMark \/ DiscoverAwait
         \/ RetrieveClear \/ RetrieveCheck \/ RetrieveAwait \/ RetrieveMark \/ RetrieveSend
         \/ WaitCheck \/ WaitTake \/ WaitActive \/ WaitZero \/ WaitJudge

LEMMA AsideIsAside ==
  ASSUME TypeOK, LinkInv, Aside
  PROVE  UNCHANGED <<link, connected>>
<1> USE DEF context
<1>1. CASE RetrieveSend
  <2>1. Advance("null", wire) /\ UNCHANGED link /\ state # "CONNECTING"
    BY <1>1 DEF RetrieveSend, LinkInv, ConnectingIsKnown
  <2>2. QED BY <2>1, AdvanceConnects
<1>2. CASE DiscoverCheck \/ DiscoverMark \/ DiscoverAwait
  BY <1>2 DEF DiscoverCheck, DiscoverMark, DiscoverAwait, Await
<1>3. CASE RetrieveClear \/ RetrieveCheck \/ RetrieveAwait \/ RetrieveMark
  BY <1>3 DEF RetrieveClear, RetrieveCheck, RetrieveAwait, RetrieveMark, Await
<1>4. CASE WaitCheck \/ WaitTake \/ WaitActive \/ WaitZero \/ WaitJudge
  BY <1>4 DEF WaitCheck, WaitTake, WaitActive, WaitZero, WaitJudge
<1>5. QED BY <1>1, <1>2, <1>3, <1>4 DEF Aside

(* Every action keeps the two invariants, and is a step of Connection or   *)
(* none.                                                                   *)
LEMMA LinkStep ==
  ASSUME TypeOK, LinkInv, [Next]_vars
  PROVE  LinkInv' /\ [Conn!Next]_(Conn!vars)
<1> USE DEF LinkInv, ConnectedIsLive, ConnectingIsKnown, Live, Conn!vars, Conn!Next
<1>ty. connected \in BOOLEAN
       /\ link \in {"none", "closed", "synSent", "open", "peerClosed", "stalled"}
  BY DEF TypeOK
<1>1. CASE Aside
  <2>1. UNCHANGED <<link, connected>>
    BY <1>1, AsideIsAside
  <2>2. LinkInv'
    <3>1. CASE DiscoverCheck
      BY <3>1, <2>1 DEF DiscoverCheck, context
    <3>2. CASE DiscoverMark
      BY <3>2, <2>1 DEF DiscoverMark
    <3>3. CASE DiscoverAwait
      BY <3>3, <2>1 DEF DiscoverAwait, Await
    <3>4. CASE RetrieveClear
      BY <3>4, <2>1 DEF RetrieveClear, context
    <3>5. CASE RetrieveCheck
      BY <3>5, <2>1 DEF RetrieveCheck, context
    <3>6. CASE RetrieveAwait
      BY <3>6, <2>1 DEF RetrieveAwait, Await
    <3>7. CASE RetrieveMark
      BY <3>7, <2>1 DEF RetrieveMark
    <3>8. CASE RetrieveSend
      <4>1. pc = "r_send" /\ pc' = "w_check" /\ Advance("null", wire)
        BY <3>8 DEF RetrieveSend
      <4>2. link # "synSent"
        BY <4>1
      <4>3. QED BY <4>1, <4>2, <2>1, <1>ty
    <3>9. CASE WaitCheck
      BY <3>9, <2>1 DEF WaitCheck, context
    <3>10. CASE WaitTake
      BY <3>10, <2>1 DEF WaitTake, context
    <3>11. CASE WaitActive
      BY <3>11, <2>1 DEF WaitActive, context
    <3>12. CASE WaitZero
      BY <3>12, <2>1 DEF WaitZero, context
    <3>13. CASE WaitJudge
      BY <3>13, <2>1 DEF WaitJudge
    <3>14. QED
      BY <1>1, <3>1, <3>2, <3>3, <3>4, <3>5, <3>6, <3>7, <3>8, <3>9, <3>10, <3>11,
         <3>12, <3>13 DEF Aside
  <2>3. QED BY <2>1, <2>2
<1>2. CASE DiscoverPcb
  <2>1. /\ pc = "d_pcb" /\ pc' \in {"d_check", "r_clear"} /\ UNCHANGED <<connected, state>>
        /\ UNCHANGED link \/ (link = "none" /\ link' = "closed")
    BY <1>2 DEF DiscoverPcb, context
  <2>2. QED BY <1>ty, <2>1 DEF Conn!Create
<1>3. CASE DiscoverConnect
  <2>1. /\ pc = "d_connect" /\ pc' = "r_clear" /\ UNCHANGED <<connected, state>>
        /\ UNCHANGED link \/ (link = "closed" /\ link' = "synSent")
    BY <1>3 DEF DiscoverConnect, context
  <2>2. QED BY <1>ty, <2>1 DEF Conn!Dial
<1>4. CASE WaitClose
  <2>1. /\ pc = "w_close" /\ pc' = "w_reset" /\ link' = "none"
        /\ UNCHANGED <<connected, state>>
    BY <1>4 DEF WaitClose, HangUp, context
  <2>2. QED BY <1>ty, <2>1 DEF Conn!Close
<1>5. CASE WaitReset
  <2>1. /\ pc = "w_reset" /\ pc' = "d_pcb" /\ connected' = FALSE
        /\ UNCHANGED <<link, state>>
    BY <1>5 DEF WaitReset
  <2>2. QED BY <1>ty, <2>1 DEF Conn!Forget
<1>6. CASE ConnectCb
  <2>1. /\ link = "synSent" /\ link' = "open" /\ Advance("null", wire) /\ UNCHANGED pc
    BY <1>6 DEF ConnectCb
  <2>2. state = "CONNECTING" /\ ~connected /\ connected' = TRUE
    BY <2>1, AdvanceConnects
  <2>3. state' # "CONNECTING" /\ pc' # "w_reset"
    BY <2>1, AdvanceConnects
  <2>4. QED BY <2>1, <2>2, <2>3 DEF Conn!Up
<1>7. CASE RecvCb
  <2>1. /\ link = "open" /\ link' \in {"open", "peerClosed"} /\ UNCHANGED pc
        /\ \E k, owed : Advance(k, owed)
    BY <1>7 DEF RecvCb
  <2>2. connected = TRUE /\ connected' = TRUE
    BY <1>ty, <2>1, AdvanceConnects
  <2>3. state' # "CONNECTING" /\ pc' # "w_reset"
    BY <2>1, AdvanceConnects
  <2>4. QED BY <2>1, <2>2, <2>3 DEF Conn!PeerCloses
<1>8. CASE ErrCb
  <2>1. /\ link \in Live \cup {"synSent"} /\ link' = "none" /\ connected' = FALSE
        /\ state' = "IDLE" /\ UNCHANGED pc
    BY <1>8 DEF ErrCb, HangUp
  <2>2. QED BY <2>1 DEF Conn!Lose, Conn!Established
<1>9. CASE Network
  <2>1. /\ link = "open" /\ link' \in {"open", "stalled"} /\ UNCHANGED <<connected, state, pc>>
    BY <1>9 DEF Network, Unanswered, Split, PeerCloses, Stall, context, task
  <2>2. QED BY <2>1
<1>10. CASE Clock \/ WifiChanges \/ UNCHANGED vars
  <2>1. UNCHANGED <<link, connected, state, pc>>
    BY <1>10 DEF Clock, Silence, GrowsOld, WifiChanges, vars, context, task
  <2>2. QED BY <2>1
<1>11. QED
  BY <1>1, <1>2, <1>3, <1>4, <1>5, <1>6, <1>7, <1>8, <1>9, <1>10
  DEF Next, ModbusTask, Aside, TcpIp, Halted

(* The inverter's client makes one connection at a time, dials it once and *)
(* denies none that is there, whatever callbacks, network and modbus_task  *)
(* do in between: it implements the specification the meter's client does. *)
THEOREM ConnectionImplemented == Spec => ImplementsConnection
<1>1. Init => LinkInv /\ Conn!Init
  BY DEF Init, LinkInv, ConnectedIsLive, ConnectingIsKnown, Live, Conn!Init
<1>2. TypeOK /\ LinkInv /\ [Next]_vars => LinkInv' /\ [Conn!Next]_(Conn!vars)
  BY LinkStep
<1>3. QED BY <1>1, <1>2, TypeCorrect, PTL DEF Spec, ImplementsConnection, Conn!Spec


=============================================================================
