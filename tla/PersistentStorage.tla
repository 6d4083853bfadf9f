-------------------------- MODULE PersistentStorage --------------------------
(***************************************************************************)
(* persistent_storage (src/include/persistent_storage.h): the members of a *)
(* layout at the very end of the flash, which is erased by the sector.  A  *)
(* write fills the shared _write_buffer with the sectors the member lies   *)
(* in, erases them and programs them, all under _memory_mutex.             *)
(*                                                                         *)
(* A cell is the part of a member that lies in a sector.  flash_range_     *)
(* erase and flash_range_program, which are external, do one sector after  *)
(* the other; a power cut inside one leaves each of its cells as it was,   *)
(* done, or torn.  flash_safe_execute is taken to succeed; _write_impl     *)
(* ignores what it returns.                                                *)
(***************************************************************************)
EXTENDS Naturals

CONSTANTS Tasks,      (* those that call read and write                      *)
          NoTask, NoCall,
          Members,    (* of persistent_storage_layout                        *)
          Sectors,    (* by their place in the flash                         *)
          Lies,       (* the sectors each member lies in                     *)
          Values,
          Erased,     (* a cell whose bits are all 1                         *)
          Torn,       (* a cell whose erase or programming was cut short,    *)
                      (* and what a member reads as that is not one value    *)
          Garbled     (* a cell programmed twice without an erase            *)

ASSUME StorageAssumption ==
  /\ Lies \in [Members -> (SUBSET Sectors) \ {{}}]
  /\ Sectors \subseteq Nat
  /\ NoTask \notin Tasks
  /\ {Erased, Torn, Garbled} \cap Values = {}

VARIABLES flash,      (* what each cell holds                                *)
          buffer,     (* _write_buffer, by the cell a position stands for    *)
          left,       (* the sectors the erase or programming still has to   *)
                      (* do                                                  *)
          holder,     (* the task that holds _memory_mutex                   *)
          pc,         (* of each task                                        *)
          call        (* of each task, the write it is in or what its last   *)
                      (* call read                                           *)

vars == <<flash, buffer, left, holder, pc, call>>

Cells == {c \in Members \X Sectors : c[2] \in Lies[c[1]]}
CellsOf(m) == {c \in Cells : c[1] = m}
CellsIn(s) == {c \in Cells : c[2] = s}

(* What start_idx_paged to end_idx_paged covers. *)
Covered(m) == {c \in Cells : c[2] \in Lies[m]}

Value(cells, m) ==
  IF \E v \in Values : \A c \in CellsOf(m) : cells[c] = v
  THEN CHOOSE v \in Values : \A c \in CellsOf(m) : cells[c] = v
  ELSE Torn

Init == /\ \E mem \in [Members -> Values] : flash = [c \in Cells |-> mem[c[1]]]
        /\ buffer = [c \in Cells |-> Erased] /\ left = {}
        /\ holder = NoTask
        /\ pc = [t \in Tasks |-> "idle"]
        /\ call = [t \in Tasks |-> NoCall]

-----------------------------------------------------------------------------
(* write() *)
Request(t) ==
  /\ pc[t] = "idle" /\ pc' = [pc EXCEPT ![t] = "lock"]
  /\ \E m \in Members, v \in Values :
       call' = [call EXCEPT ![t] = [member |-> m, value |-> v]]
  /\ UNCHANGED <<flash, buffer, left, holder>>

(* The definitions that end in a mistake (Regardless, ForgetsRest, ...)    *)
(* are mutants, used by no action: PROJECT.json lists what catches each.   *)
TakeRegardless(t) ==
  /\ pc[t] = "lock" /\ pc' = [pc EXCEPT ![t] = "fill"]
  /\ holder' = t
  /\ UNCHANGED <<flash, buffer, left, call>>

Take(t) ==
  /\ pc[t] = "lock" /\ pc' = [pc EXCEPT ![t] = "fill"]
  /\ holder = NoTask /\ holder' = t
  /\ UNCHANGED <<flash, buffer, left, call>>

FillForgetsRest(t) ==
  /\ pc[t] = "fill" /\ pc' = [pc EXCEPT ![t] = "erase"]
  /\ buffer' = [c \in Cells |-> IF c \in CellsOf(call[t].member) THEN call[t].value ELSE Erased]
  /\ left' = Lies[call[t].member]
  /\ UNCHANGED <<flash, holder, call>>

(* The data comes first, then the rest of its sectors is read back.  What  *)
(* is beyond them in the buffer stands for no cell.                        *)
Fill(t) ==
  /\ pc[t] = "fill" /\ pc' = [pc EXCEPT ![t] = "erase"]
  /\ buffer' = [c \in Cells |-> IF c \in CellsOf(call[t].member) THEN call[t].value
                                ELSE IF c \in Covered(call[t].member) THEN flash[c]
                                ELSE Erased]
  /\ left' = Lies[call[t].member]
  /\ UNCHANGED <<flash, holder, call>>

(* The sector an erase or a programming is at, and its end there: it goes  *)
(* on with the next, or t goes on with what comes next.                    *)
Current(s) == s \in left /\ \A r \in left : s <= r
Finish(t, s, next) ==
  IF left = {s}
  THEN /\ pc' = [pc EXCEPT ![t] = next]
       /\ left' = IF next = "program" THEN Lies[call[t].member] ELSE {}
  ELSE left' = left \ {s} /\ UNCHANGED pc

EraseNothing(t) ==
  /\ pc[t] = "erase"
  /\ \E s \in Sectors : Current(s) /\ Finish(t, s, "program")
  /\ UNCHANGED <<flash, buffer, holder, call>>

Erase(t) ==
  /\ pc[t] = "erase"
  /\ \E s \in Sectors :
       /\ Current(s) /\ Finish(t, s, "program")
       /\ flash' = [c \in Cells |-> IF c[2] = s THEN Erased ELSE flash[c]]
  /\ UNCHANGED <<buffer, holder, call>>

(* Programming only changes 1s to 0s. *)
Programmed(c) == IF buffer[c] \in {flash[c], Erased} THEN flash[c]
                 ELSE IF flash[c] = Erased THEN buffer[c] ELSE Garbled

Program(t) ==
  /\ pc[t] = "program"
  /\ \E s \in Sectors :
       /\ Current(s) /\ Finish(t, s, "unlock")
       /\ flash' = [c \in Cells |-> IF c[2] = s THEN Programmed(c) ELSE flash[c]]
  /\ UNCHANGED <<buffer, holder, call>>

Unlock(t) ==
  /\ pc[t] = "unlock" /\ pc' = [pc EXCEPT ![t] = "idle"]
  /\ holder' = NoTask /\ call' = [call EXCEPT ![t] = NoCall]
  /\ UNCHANGED <<flash, buffer, left>>

(* read() copies under the mutex. *)
Read(t) ==
  /\ pc[t] = "idle" /\ holder = NoTask
  /\ \E m \in Members :
       call' = [call EXCEPT ![t] = [member |-> m, value |-> Value(flash, m)]]
  /\ UNCHANGED <<flash, buffer, left, holder, pc>>

(* In the sector the flash works on, some cells are done and some torn. *)
CutShort(t) ==
  \E s \in Sectors : \E done, torn \in SUBSET CellsIn(s) :
    /\ pc[t] \in {"erase", "program"} /\ Current(s)
    /\ flash' = [c \in Cells |-> IF c \in torn THEN Torn
                                 ELSE IF c \notin done THEN flash[c]
                                 ELSE IF pc[t] = "erase" THEN Erased ELSE Programmed(c)]

(* The power is cut and comes back: only the flash is kept. *)
PowerCut ==
  /\ buffer' = [c \in Cells |-> Erased] /\ left' = {} /\ holder' = NoTask
  /\ pc' = [t \in Tasks |-> "idle"] /\ call' = [t \in Tasks |-> NoCall]
  /\ UNCHANGED flash \/ \E t \in Tasks : CutShort(t)

Next == \/ PowerCut
        \/ \E t \in Tasks : \/ Request(t) \/ Take(t) \/ Fill(t) \/ Erase(t)
                            \/ Program(t) \/ Unlock(t) \/ Read(t)

Spec == Init /\ [][Next]_vars

-----------------------------------------------------------------------------
(* No cell is garbled: none is programmed that has not been erased. *)
TypeOK ==
  /\ flash \in [Cells -> Values \cup {Erased, Torn}]
  /\ buffer \in [Cells -> Values \cup {Erased, Torn}]
  /\ left \subseteq Sectors
  /\ holder \in Tasks \cup {NoTask}
  /\ pc \in [Tasks -> {"idle", "lock", "fill", "erase", "program", "unlock"}]
  /\ call \in [Tasks -> [member : Members, value : Values \cup {Torn}] \cup {NoCall}]

(* The tasks share one buffer, and never at the same time. *)
Inside == {"fill", "erase", "program", "unlock"}
OneInside == \A t \in Tasks : pc[t] \in Inside => holder = t

(* Each member is a register: writes of one task never undo those of       *)
(* another to a member in the same sector, reads see no erased flash, and  *)
(* after a power cut anywhere a member holds what it held or is lost, the  *)
(* latter only if it shares a sector with the one being written.  A write  *)
(* takes effect when its first sector is erased; from then on the buffer   *)
(* stands for its sectors until all are programmed.                        *)
Effected(t) == \/ pc[t] = "program"
               \/ pc[t] = "erase" /\ left # Lies[call[t].member]
Standing == [c \in Cells |-> IF \E t \in Tasks : Effected(t) /\ c \in Covered(call[t].member)
                             THEN buffer[c] ELSE flash[c]]
Phase == [t \in Tasks |-> CASE pc[t] = "idle" -> "idle"
                            [] pc[t] \in {"lock", "fill"} -> "pending"
                            [] pc[t] = "erase" /\ left = Lies[call[t].member] -> "busy"
                            [] OTHER -> "effected"]
Neighbours(m) == {n \in Members : Lies[n] \cap Lies[m] # {}}

Abstract == INSTANCE Registers
              WITH Lost <- Torn, Near <- Neighbours, phase <- Phase,
                   mem <- [m \in Members |-> Value(Standing, m)]
ImplementsRegisters == Abstract!Spec

=============================================================================
