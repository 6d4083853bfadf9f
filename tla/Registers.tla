------------------------------ MODULE Registers ------------------------------
(***************************************************************************)
(* What persistent_storage (src/include/persistent_storage.h) promises its *)
(* callers: each member of the layout is a register that several tasks may *)
(* read and write at once.  A write takes effect in one step and changes   *)
(* no other member.  A power cut while a write is under way may cost some  *)
(* of the members near the one written, that one included; whatever it     *)
(* does not cost, and at any other time all, is as it was.                 *)
(***************************************************************************)
CONSTANTS Tasks, Members, Values,
          NoCall,    (* of a task that is in no call and has read nothing   *)
          Lost,      (* what a member that was lost reads as                *)
          Near(_)    (* the members a power cut costs with this one         *)

VARIABLES mem, phase, call

vars == <<mem, phase, call>>

Init == /\ mem \in [Members -> Values]
        /\ phase = [t \in Tasks |-> "idle"]
        /\ call = [t \in Tasks |-> NoCall]

Request(t) ==
  /\ phase[t] = "idle" /\ phase' = [phase EXCEPT ![t] = "pending"]
  /\ \E m \in Members, v \in Values :
       call' = [call EXCEPT ![t] = [member |-> m, value |-> v]]
  /\ UNCHANGED mem

(* From here on a power cut is a danger. *)
Begin(t) ==
  /\ phase[t] = "pending" /\ phase' = [phase EXCEPT ![t] = "busy"]
  /\ UNCHANGED <<mem, call>>

Effect(t) ==
  /\ phase[t] = "busy" /\ phase' = [phase EXCEPT ![t] = "effected"]
  /\ mem' = [mem EXCEPT ![call[t].member] = call[t].value]
  /\ UNCHANGED call

Return(t) ==
  /\ phase[t] = "effected" /\ phase' = [phase EXCEPT ![t] = "idle"]
  /\ call' = [call EXCEPT ![t] = NoCall]
  /\ UNCHANGED mem

Read(t) ==
  /\ phase[t] = "idle"
  /\ \E m \in Members : call' = [call EXCEPT ![t] = [member |-> m, value |-> mem[m]]]
  /\ UNCHANGED <<mem, phase>>

PowerCut ==
  /\ phase' = [t \in Tasks |-> "idle"] /\ call' = [t \in Tasks |-> NoCall]
  /\ \/ UNCHANGED mem
     \/ \E t \in Tasks :
          /\ phase[t] \in {"busy", "effected"}
          /\ \E lost \in SUBSET Near(call[t].member) :
               mem' = [m \in Members |-> IF m \in lost THEN Lost ELSE mem[m]]

Next == \/ PowerCut
        \/ \E t \in Tasks : Request(t) \/ Begin(t) \/ Effect(t) \/ Return(t) \/ Read(t)

Spec == Init /\ [][Next]_vars

=============================================================================
