----------------------- MODULE PersistentStorageProofs -----------------------
(***************************************************************************)
(* The members of persistent_storage are registers, for any tasks, any     *)
(* layout over any sectors, and any values, wherever the power is cut.     *)
(***************************************************************************)
EXTENDS PersistentStorage, TLAPS

Write == [member : Members, value : Values]

(* The mutex, and what the steps of a write leave in flash and buffer: the *)
(* erase goes through the sectors of the member once, the programming a    *)
(* second time.                                                            *)
Exclusive == \A t \in Tasks : pc[t] \in Inside <=> holder = t
CallsAreWrites == \A t \in Tasks : pc[t] # "idle" => call[t] \in Write
LeftIsOwn ==
  \A t \in Tasks : pc[t] \in {"erase", "program"} =>
    left # {} /\ left \subseteq Lies[call[t].member]
BufferIsReady ==
  \A t \in Tasks : pc[t] = "erase" =>
    \A c \in Covered(call[t].member) :
      /\ c \in CellsOf(call[t].member) => buffer[c] = call[t].value
      /\ c[2] \notin left => flash[c] = Erased
      /\ c[2] \in left /\ c \notin CellsOf(call[t].member) => buffer[c] = flash[c]
SectorsAreErased ==
  \A t \in Tasks : pc[t] = "program" =>
    \A c \in Covered(call[t].member) :
      flash[c] = IF c[2] \in left THEN Erased ELSE buffer[c]

IInv == /\ TypeOK /\ Exclusive /\ CallsAreWrites
        /\ LeftIsOwn /\ BufferIsReady /\ SectorsAreErased

(* What a member reads as is a value, or that it is lost. *)
LEMMA ValueType ==
  ASSUME NEW cells, NEW m PROVE Value(cells, m) \in Values \cup {Torn}
  BY DEF Value

(* The sectors a write covers hold all of its member, which is somewhere. *)
LEMMA OwnIsCovered ==
  ASSUME NEW m \in Members
  PROVE  /\ CellsOf(m) \subseteq Covered(m) /\ Covered(m) \subseteq Cells
         /\ CellsOf(m) # {}
<1>1. PICK s \in Lies[m] : s \in Sectors
  BY StorageAssumption
<1>2. <<m, s>> \in CellsOf(m)
  BY <1>1 DEF CellsOf, Cells
<1> QED BY <1>2 DEF CellsOf, Covered, Cells

(* What the end of a sector makes of the sectors left. *)
LEMMA FinishLeaves ==
  ASSUME TypeOK, NEW t \in Tasks, NEW s \in Sectors, NEW next \in {"program", "unlock"},
         Current(s), Finish(t, s, next),
         left \subseteq Lies[call[t].member], Lies[call[t].member] \in (SUBSET Sectors) \ {{}}
  PROVE  /\ s \in left /\ s \in Lies[call[t].member]
         /\ left' \subseteq Sectors
         /\ \/ /\ left = {s} /\ pc' = [pc EXCEPT ![t] = next]
               /\ left' = IF next = "program" THEN Lies[call[t].member] ELSE {}
            \/ left' = left \ {s} /\ left' # {} /\ pc' = pc
BY DEF TypeOK, Current, Finish

(* The flash as it was left satisfies the inductive invariant. *)
LEMMA InitInvariant == Init => IInv
<1> SUFFICES ASSUME Init PROVE IInv
  OBVIOUS
<1>1. PICK mem \in [Members -> Values] : flash = [c \in Cells |-> mem[c[1]]]
  BY DEF Init
<1>2. \A c \in Cells : c[1] \in Members
  BY DEF Cells
<1>3. flash \in [Cells -> Values \cup {Erased, Torn}]
  BY <1>1, <1>2
<1>4. TypeOK
  BY <1>3 DEF Init, TypeOK
<1> QED BY <1>4, StorageAssumption
        DEF Init, IInv, Exclusive, CallsAreWrites, LeftIsOwn, BufferIsReady,
            SectorsAreErased, Inside

(* Of the sector in work at a power cut no cell is garbled. *)
LEMMA CutShortTypes ==
  ASSUME IInv, NEW t \in Tasks, CutShort(t)
  PROVE  flash' \in [Cells -> Values \cup {Erased, Torn}]
<1>1. PICK s \in Sectors : \E done, torn \in SUBSET CellsIn(s) :
        /\ pc[t] \in {"erase", "program"} /\ Current(s)
        /\ flash' = [c \in Cells |-> IF c \in torn THEN Torn
                                     ELSE IF c \notin done THEN flash[c]
                                     ELSE IF pc[t] = "erase" THEN Erased ELSE Programmed(c)]
  BY DEF CutShort
<1> PICK done \in SUBSET CellsIn(s), torn \in SUBSET CellsIn(s) :
        /\ pc[t] \in {"erase", "program"} /\ Current(s)
        /\ flash' = [c \in Cells |-> IF c \in torn THEN Torn
                                     ELSE IF c \notin done THEN flash[c]
                                     ELSE IF pc[t] = "erase" THEN Erased ELSE Programmed(c)]
  BY <1>1
<1>2. s \in left /\ s \in Lies[call[t].member]
  BY <1>1 DEF Current, IInv, LeftIsOwn
<1>3. ASSUME NEW c \in done, pc[t] = "program"
      PROVE  Programmed(c) \in Values \cup {Erased, Torn}
  <2>1. c \in Covered(call[t].member) /\ c \in Cells /\ c[2] = s
    BY <1>2 DEF CellsIn, Covered
  <2>2. flash[c] = Erased
    BY <1>2, <1>3, <2>1 DEF IInv, SectorsAreErased
  <2> QED BY <2>1, <2>2 DEF Programmed, IInv, TypeOK
<1> QED BY <1>1, <1>3 DEF IInv, TypeOK

(* No step of a task and no power cut breaks the inductive invariant. *)
LEMMA StepInvariant == IInv /\ [Next]_vars => IInv'
<1> SUFFICES ASSUME IInv, [Next]_vars PROVE IInv'
  OBVIOUS
<1> USE StorageAssumption
<1>1. CASE PowerCut
  <2>1. flash' \in [Cells -> Values \cup {Erased, Torn}]
    BY <1>1, CutShortTypes DEF PowerCut, IInv, TypeOK
  <2>2. TypeOK'
    BY <1>1, <2>1 DEF PowerCut, TypeOK
  <2> QED BY <1>1, <2>2
          DEF PowerCut, IInv, Exclusive, CallsAreWrites, LeftIsOwn, BufferIsReady,
              SectorsAreErased, Inside
<1>2. ASSUME NEW t \in Tasks, Request(t) PROVE IInv'
  <2>1. PICK m \in Members, v \in Values :
          call' = [call EXCEPT ![t] = [member |-> m, value |-> v]]
    BY <1>2 DEF Request
  <2>2. TypeOK'
    BY <1>2, <2>1 DEF Request, IInv, TypeOK
  <2>3. /\ pc[t] = "idle" /\ pc' = [pc EXCEPT ![t] = "lock"]
        /\ UNCHANGED <<flash, buffer, left, holder>>
        /\ \A u \in Tasks : pc[u] # "idle" => call'[u] = call[u]
    BY <1>2, <2>1 DEF Request, IInv, TypeOK
  <2>4. Exclusive' /\ CallsAreWrites'
    BY <2>1, <2>3 DEF IInv, TypeOK, Exclusive, CallsAreWrites, Inside, Write
  <2>5. \A u \in Tasks : pc'[u] \in {"erase", "program"} =>
          pc'[u] = pc[u] /\ call'[u] = call[u]
    BY <2>3 DEF IInv, TypeOK
  <2>6. LeftIsOwn' /\ BufferIsReady' /\ SectorsAreErased'
    BY <2>3, <2>5 DEF IInv, LeftIsOwn, BufferIsReady, SectorsAreErased
  <2> QED BY <2>2, <2>4, <2>6 DEF IInv
<1>3. ASSUME NEW t \in Tasks, Take(t) PROVE IInv'
  <2>1. TypeOK' /\ Exclusive' /\ CallsAreWrites'
    BY <1>3 DEF Take, IInv, TypeOK, Exclusive, CallsAreWrites, Inside
  <2>2. \A u \in Tasks : pc'[u] \notin {"erase", "program"}
    BY <1>3 DEF Take, IInv, TypeOK, Exclusive, Inside
  <2> QED BY <2>1, <2>2 DEF IInv, LeftIsOwn, BufferIsReady, SectorsAreErased
<1>4. ASSUME NEW t \in Tasks, Fill(t) PROVE IInv'
  <2>1. call[t] \in Write /\ holder = t
    BY <1>4 DEF Fill, IInv, TypeOK, CallsAreWrites, Exclusive, Inside
  <2>2. \A c \in Covered(call[t].member) : c \in Cells /\ c[2] \in Lies[call[t].member]
    BY DEF Covered
  <2>3. TypeOK'
    BY <1>4, <2>1, <2>2 DEF Fill, IInv, TypeOK, Write
  <2>4. Exclusive' /\ CallsAreWrites'
    BY <1>4 DEF Fill, IInv, TypeOK, Exclusive, CallsAreWrites, Inside
  <2>5. \A u \in Tasks : pc'[u] \in {"erase", "program"} => u = t
    BY <1>4, <2>1, <2>4 DEF Fill, Exclusive, Inside
  <2>6. LeftIsOwn'
    BY <1>4, <2>1, <2>5 DEF Fill, IInv, TypeOK, LeftIsOwn, Write
  <2>7. BufferIsReady'
    BY <1>4, <2>2, <2>5 DEF Fill, IInv, TypeOK, BufferIsReady
  <2>8. SectorsAreErased'
    BY <1>4, <2>5 DEF Fill, IInv, TypeOK, SectorsAreErased
  <2> QED BY <2>3, <2>4, <2>6, <2>7, <2>8 DEF IInv
<1>5. ASSUME NEW t \in Tasks, Erase(t) PROVE IInv'
  <2> DEFINE m == call[t].member
  <2>1. PICK s \in Sectors :
          /\ Current(s) /\ Finish(t, s, "program")
          /\ flash' = [c \in Cells |-> IF c[2] = s THEN Erased ELSE flash[c]]
    BY <1>5 DEF Erase
  <2>2. /\ pc[t] = "erase" /\ holder = t /\ m \in Members /\ UNCHANGED <<buffer, holder, call>>
        /\ left \subseteq Lies[m] /\ Lies[m] \in (SUBSET Sectors) \ {{}}
    BY <1>5 DEF Erase, IInv, LeftIsOwn, Exclusive, Inside, CallsAreWrites, Write
  <2>3. /\ s \in left /\ s \in Lies[m] /\ left' \subseteq Sectors
        /\ \/ left = {s} /\ pc' = [pc EXCEPT ![t] = "program"] /\ left' = Lies[m]
           \/ left' = left \ {s} /\ left' # {} /\ pc' = pc
    BY <2>1, <2>2, FinishLeaves DEF IInv
  <2>4. TypeOK'
    BY <2>1, <2>2, <2>3 DEF IInv, TypeOK
  <2>5. Exclusive' /\ CallsAreWrites'
    BY <2>2, <2>3 DEF IInv, TypeOK, Exclusive, CallsAreWrites, Inside
  <2>6. \A u \in Tasks : pc'[u] \in {"erase", "program"} => u = t
    BY <2>2, <2>5 DEF Exclusive, Inside
  <2>7. LeftIsOwn'
    BY <2>2, <2>3, <2>6 DEF LeftIsOwn
  <2>8. ASSUME NEW c \in Covered(m)
        PROVE  /\ c \in Cells /\ c[2] \in Lies[m]
               /\ c \in CellsOf(m) => buffer[c] = call[t].value
               /\ c[2] \notin left \/ c[2] = s => flash'[c] = Erased
               /\ c[2] \in left /\ c[2] # s => flash'[c] = flash[c]
               /\ c[2] \in left /\ c \notin CellsOf(m) => buffer[c] = flash[c]
    <3>1. c \in Cells /\ c[2] \in Lies[m]
      BY DEF Covered
    <3>2. flash'[c] = IF c[2] = s THEN Erased ELSE flash[c]
      BY <2>1, <3>1
    <3> QED BY <2>2, <3>1, <3>2 DEF IInv, BufferIsReady
  <2>9. BufferIsReady' /\ SectorsAreErased'
    <3>1. CASE left' = left \ {s} /\ pc' = pc
      <4>1. \A u \in Tasks : pc'[u] \in {"erase", "program"} => u = t /\ pc'[u] = "erase"
        BY <2>2, <2>6, <3>1
      <4>2. \A c \in Covered(m) : c[2] \notin left' <=> c[2] \notin left \/ c[2] = s
        BY <3>1
      <4> QED BY <2>2, <2>8, <4>1, <4>2 DEF BufferIsReady, SectorsAreErased
    <3>2. CASE left = {s} /\ pc' = [pc EXCEPT ![t] = "program"] /\ left' = Lies[m]
      <4>1. \A u \in Tasks : pc'[u] \in {"erase", "program"} => u = t /\ pc'[u] = "program"
        BY <2>6, <3>2 DEF IInv, TypeOK
      <4>2. \A c \in Covered(m) : flash'[c] = Erased /\ c[2] \in left'
        BY <2>8, <3>2
      <4> QED BY <2>2, <4>1, <4>2 DEF BufferIsReady, SectorsAreErased
    <3> QED BY <2>3, <3>1, <3>2
  <2> QED BY <2>4, <2>5, <2>7, <2>9 DEF IInv
<1>6. ASSUME NEW t \in Tasks, Program(t) PROVE IInv'
  <2> DEFINE m == call[t].member
  <2>1. PICK s \in Sectors :
          /\ Current(s) /\ Finish(t, s, "unlock")
          /\ flash' = [c \in Cells |-> IF c[2] = s THEN Programmed(c) ELSE flash[c]]
    BY <1>6 DEF Program
  <2>2. /\ pc[t] = "program" /\ holder = t /\ m \in Members
        /\ UNCHANGED <<buffer, holder, call>>
        /\ left \subseteq Lies[m] /\ Lies[m] \in (SUBSET Sectors) \ {{}}
    BY <1>6 DEF Program, IInv, LeftIsOwn, Exclusive, Inside, CallsAreWrites, Write
  <2>3. /\ s \in left /\ s \in Lies[m] /\ left' \subseteq Sectors
        /\ \/ left = {s} /\ pc' = [pc EXCEPT ![t] = "unlock"]
           \/ left' = left \ {s} /\ left' # {} /\ pc' = pc
    BY <2>1, <2>2, FinishLeaves DEF IInv
  <2>4. \A c \in Cells : c[2] = s => c \in Covered(m) /\ flash[c] = Erased
    BY <2>2, <2>3 DEF Covered, IInv, SectorsAreErased
  <2>5. flash' = [c \in Cells |-> IF c[2] = s THEN buffer[c] ELSE flash[c]]
    BY <2>1, <2>4 DEF Programmed
  <2>6. TypeOK'
    BY <2>2, <2>3, <2>5 DEF IInv, TypeOK
  <2>7. Exclusive' /\ CallsAreWrites'
    BY <2>2, <2>3 DEF IInv, TypeOK, Exclusive, CallsAreWrites, Inside
  <2>8. \A u \in Tasks : pc'[u] \in {"erase", "program"} =>
          u = t /\ left' = left \ {s} /\ left' # {} /\ pc'[u] = "program"
    BY <2>2, <2>3, <2>7 DEF Exclusive, Inside, IInv, TypeOK
  <2>9. LeftIsOwn'
    BY <2>2, <2>8 DEF LeftIsOwn
  <2>10. SectorsAreErased'
    <3> SUFFICES ASSUME NEW c \in Covered(m), left' = left \ {s}
                 PROVE  flash'[c] = IF c[2] \in left' THEN Erased ELSE buffer[c]
      BY <2>2, <2>8 DEF SectorsAreErased
    <3>1. c \in Cells
      BY DEF Covered
    <3>2. flash[c] = IF c[2] \in left THEN Erased ELSE buffer[c]
      BY <2>2 DEF IInv, SectorsAreErased
    <3> QED BY <2>5, <3>1, <3>2
  <2>11. BufferIsReady'
    BY <2>8 DEF BufferIsReady
  <2> QED BY <2>6, <2>7, <2>9, <2>10, <2>11 DEF IInv
<1>7. ASSUME NEW t \in Tasks, Unlock(t) PROVE IInv'
  <2>1. TypeOK' /\ Exclusive' /\ CallsAreWrites'
    BY <1>7 DEF Unlock, IInv, TypeOK, Exclusive, CallsAreWrites, Inside
  <2>2. \A u \in Tasks : pc'[u] \notin {"erase", "program"}
    BY <1>7 DEF Unlock, IInv, TypeOK, Exclusive, Inside
  <2> QED BY <2>1, <2>2 DEF IInv, LeftIsOwn, BufferIsReady, SectorsAreErased
<1>8. ASSUME NEW t \in Tasks, Read(t) PROVE IInv'
  <2>1. PICK m \in Members : call' = [call EXCEPT ![t] = [member |-> m, value |-> Value(flash, m)]]
    BY <1>8 DEF Read
  <2>2. TypeOK'
    BY <1>8, <2>1, ValueType DEF Read, IInv, TypeOK
  <2>3. Exclusive' /\ CallsAreWrites'
    BY <1>8, <2>1 DEF Read, IInv, TypeOK, Exclusive, CallsAreWrites, Inside
  <2>4. \A u \in Tasks : pc'[u] \notin {"erase", "program"}
    BY <1>8 DEF Read, IInv, TypeOK, Exclusive, Inside
  <2> QED BY <2>2, <2>3, <2>4 DEF IInv, LeftIsOwn, BufferIsReady, SectorsAreErased
<1>9. CASE UNCHANGED vars
  BY <1>9 DEF vars, IInv, TypeOK, Exclusive, CallsAreWrites, LeftIsOwn, BufferIsReady,
              SectorsAreErased, Inside
<1> QED BY <1>1, <1>2, <1>3, <1>4, <1>5, <1>6, <1>7, <1>8, <1>9 DEF Next

(* The inductive invariant holds in every reachable state. *)
LEMMA Invariance == Spec => []IInv
  BY InitInvariant, StepInvariant, PTL DEF Spec

(* Flash and buffer never hold a cell programmed on top of old contents,   *)
(* and every call is one of its task.                                      *)
THEOREM TypeCorrect == Spec => []TypeOK
<1>1. IInv => TypeOK
  BY DEF IInv
<1> QED BY Invariance, <1>1, PTL

(* _write_buffer and the flash belong to one write at a time. *)
THEOREM WritesExclude == Spec => []OneInside
<1>1. IInv => OneInside
  BY DEF IInv, Exclusive, OneInside
<1> QED BY Invariance, <1>1, PTL

-----------------------------------------------------------------------------
(* The steps of the refinement. *)
Mem == [m \in Members |-> Value(Standing, m)]

(* A member reads the same where its cells are the same. *)
LEMMA SameCells ==
  ASSUME NEW f, NEW g, NEW m, \A c \in CellsOf(m) : f[c] = g[c]
  PROVE  Value(f, m) = Value(g, m)
  BY DEF Value

(* Cells that all hold one value read as that value. *)
LEMMA OneValue ==
  ASSUME NEW f, NEW m \in Members, NEW v \in Values, \A c \in CellsOf(m) : f[c] = v
  PROVE  Value(f, m) = v
  BY OwnIsCovered DEF Value

(* Where each cell of a member is the same or no value, or one is none,    *)
(* the member reads the same or is lost.                                   *)
LEMMA SameOrLost ==
  ASSUME NEW f, NEW g, NEW m,
         \/ \A c \in CellsOf(m) : f[c] = g[c] \/ f[c] \notin Values
         \/ \E c \in CellsOf(m) : f[c] \notin Values
  PROVE  Value(f, m) \in {Value(g, m), Torn}
<1>1. CASE \E c \in CellsOf(m) : f[c] \notin Values
  BY <1>1 DEF Value
<1>2. CASE \A c \in CellsOf(m) : f[c] = g[c]
  BY <1>2, SameCells
<1> QED BY <1>1, <1>2

(* Only a write that has erased and not yet programmed all its sectors     *)
(* stands for its cells.                                                   *)
LEMMA NobodyStandsIn ==
  ASSUME IInv, \A t \in Tasks : ~Effected(t)
  PROVE  Standing = flash
  BY DEF Standing, IInv, TypeOK

(* The sectors of the one write that does stand for its buffer. *)
LEMMA StandsIn ==
  ASSUME IInv, NEW t \in Tasks, Effected(t)
  PROVE  Standing = [c \in Cells |-> IF c \in Covered(call[t].member)
                                    THEN buffer[c] ELSE flash[c]]
<1>1. \A u \in Tasks : Effected(u) => u = t
  BY DEF IInv, Exclusive, Inside, Effected
<1> QED BY <1>1 DEF Standing

(* A task outside the mutex has nothing begun. *)
LEMMA OneStandsIn ==
  ASSUME IInv, NEW t \in Tasks, holder # t
  PROVE  pc[t] \in {"idle", "lock"} /\ ~Effected(t) /\ Phase[t] \in {"idle", "pending"}
  BY DEF IInv, TypeOK, Exclusive, Inside, Effected, Phase

(* Whatever the flash holds at first is a state of the registers. *)
LEMMA InitRefines == Init => Abstract!Init
<1> SUFFICES ASSUME Init PROVE Abstract!Init
  OBVIOUS
<1>1. IInv
  BY InitInvariant
<1>2. Standing = flash
  BY <1>1, NobodyStandsIn DEF Init, Effected
<1>3. PICK mem \in [Members -> Values] : flash = [c \in Cells |-> mem[c[1]]]
  BY DEF Init
<1>4. ASSUME NEW m \in Members PROVE Value(Standing, m) = mem[m]
  <2>1. \A c \in CellsOf(m) : flash[c] = mem[m]
    BY <1>3 DEF CellsOf
  <2> QED BY <2>1, <1>2, <1>3, OneValue
<1>5. [m \in Members |-> Value(Standing, m)] \in [Members -> Values]
  BY <1>4
<1>6. Phase = [t \in Tasks |-> "idle"]
  BY DEF Init, Phase
<1> QED BY <1>5, <1>6 DEF Init, Abstract!Init

(* Up to its first erase a write costs nothing. *)
LEMMA FillRefines ==
  ASSUME IInv, IInv', NEW t \in Tasks, Fill(t)
  PROVE  Abstract!Begin(t)
<1>1. /\ pc[t] = "fill" /\ pc' = [pc EXCEPT ![t] = "erase"] /\ pc'[t] = "erase"
      /\ left' = Lies[call[t].member] /\ UNCHANGED <<flash, holder, call>> /\ holder = t
  BY DEF Fill, IInv, TypeOK, Exclusive, Inside
<1>2. \A u \in Tasks : ~Effected(u) /\ ~Effected(u)'
  BY <1>1 DEF Effected, IInv, TypeOK, Exclusive, Inside
<1>3. Mem' = Mem
  BY <1>1, <1>2, NobodyStandsIn DEF Mem, Standing
<1>4. Phase[t] = "pending" /\ Phase' = [Phase EXCEPT ![t] = "busy"]
  <2>1. \A u \in Tasks \ {t} : pc[u] \in {"idle", "lock"} /\ pc'[u] = pc[u]
    BY <1>1 DEF IInv, TypeOK, Exclusive, Inside
  <2> QED BY <1>1, <2>1 DEF Phase
<1> QED BY <1>1, <1>3, <1>4 DEF Abstract!Begin, Mem

(* The erase of the first sector is the effect: of the cells that stand    *)
(* for the members, it changes those of the one written.  The erase of     *)
(* another changes none.                                                   *)
LEMMA EraseRefines ==
  ASSUME IInv, IInv', NEW t \in Tasks, Erase(t)
  PROVE  Abstract!Effect(t) \/ UNCHANGED Abstract!vars
<1> DEFINE w == call[t]
<1>1. PICK s \in Sectors :
        /\ Current(s) /\ Finish(t, s, "program")
        /\ flash' = [c \in Cells |-> IF c[2] = s THEN Erased ELSE flash[c]]
  BY DEF Erase
<1>2. /\ pc[t] = "erase" /\ w \in Write /\ holder = t /\ UNCHANGED <<buffer, holder, call>>
      /\ left \subseteq Lies[w.member] /\ Lies[w.member] \in (SUBSET Sectors) \ {{}}
  BY StorageAssumption
     DEF Erase, IInv, LeftIsOwn, CallsAreWrites, Exclusive, Inside, Write
<1>3. /\ s \in left /\ s \in Lies[w.member]
      /\ \/ pc' = [pc EXCEPT ![t] = "program"]
         \/ left' = left \ {s} /\ pc' = pc
  BY <1>1, <1>2, FinishLeaves DEF IInv
<1>4. Effected(t)' /\ pc'[t] \in {"erase", "program"}
  BY <1>2, <1>3 DEF Effected, IInv, TypeOK
<1>5. Standing' = [c \in Cells |-> IF c \in Covered(w.member) THEN buffer[c] ELSE flash[c]]
  <2>1. Standing' = [c \in Cells |-> IF c \in Covered(w.member) THEN buffer[c] ELSE flash'[c]]
    <3>1. \A u \in Tasks : Effected(u)' => u = t
      BY <1>2, OneStandsIn DEF IInv, Exclusive, Inside, Effected
    <3> QED BY <1>2, <1>4, <3>1 DEF Standing
  <2>2. \A c \in Cells \ Covered(w.member) : flash'[c] = flash[c]
    BY <1>1, <1>3 DEF Covered
  <2> QED BY <2>1, <2>2
<1>6. ASSUME NEW u \in Tasks, u # t PROVE Phase'[u] = Phase[u]
  <2>1. pc[u] \in {"idle", "lock"} /\ pc'[u] = pc[u]
    BY <1>2, <1>3, <1>6, OneStandsIn DEF IInv, TypeOK
  <2> QED BY <2>1 DEF Phase
<1>7. Phase'[t] = "effected"
  BY <1>4 DEF Phase, Effected
<1>8. CASE left = Lies[w.member]
  <2>1. Standing = flash
    <3>1. \A u \in Tasks : ~Effected(u)
      BY <1>2, <1>8, OneStandsIn DEF Effected
    <3> QED BY <3>1, NobodyStandsIn
  <2>2. Standing' = [c \in Cells |-> IF c \in CellsOf(w.member) THEN w.value ELSE Standing[c]]
    <3>1. \A c \in Covered(w.member) :
            buffer[c] = IF c \in CellsOf(w.member) THEN w.value ELSE flash[c]
      BY <1>2, <1>8 DEF IInv, BufferIsReady, Covered
    <3>2. \A c \in Cells \ Covered(w.member) : c \notin CellsOf(w.member)
      BY <1>2, OwnIsCovered DEF Write
    <3> QED BY <1>5, <2>1, <3>1, <3>2
  <2>3. ASSUME NEW m \in Members
        PROVE  Value(Standing', m) = IF m = w.member THEN w.value ELSE Value(Standing, m)
    <3>1. CASE m = w.member
      <4>1. \A c \in CellsOf(m) : Standing'[c] = w.value
        BY <2>2, <3>1 DEF CellsOf
      <4> QED BY <1>2, <3>1, <4>1, OneValue DEF Write
    <3>2. CASE m # w.member
      <4>1. \A c \in CellsOf(m) : Standing'[c] = Standing[c]
        BY <2>2, <3>2 DEF CellsOf
      <4> QED BY <3>2, <4>1, SameCells
    <3> QED BY <3>1, <3>2
  <2>4. Mem' = [Mem EXCEPT ![w.member] = w.value]
    BY <2>3 DEF Mem
  <2>5. Phase[t] = "busy" /\ Phase' = [Phase EXCEPT ![t] = "effected"]
    BY <1>2, <1>6, <1>7, <1>8 DEF Phase
  <2> QED BY <1>2, <2>4, <2>5 DEF Abstract!Effect, Mem
<1>9. CASE left # Lies[w.member]
  <2>1. Standing' = Standing
    BY <1>2, <1>5, <1>9, StandsIn DEF Effected
  <2>2. Phase[t] = "effected"
    BY <1>2, <1>9 DEF Phase
  <2>3. Phase' = Phase
    BY <1>6, <1>7, <2>2 DEF Phase
  <2> QED BY <1>2, <2>1, <2>3 DEF Abstract!vars
<1> QED BY <1>8, <1>9

(* The programming of a sector changes nothing that is read, and after the *)
(* last one the flash stands for itself again.                             *)
LEMMA ProgramRefines ==
  ASSUME IInv, IInv', NEW t \in Tasks, Program(t)
  PROVE  UNCHANGED Abstract!vars
<1> DEFINE w == call[t]
<1>1. PICK s \in Sectors :
        /\ Current(s) /\ Finish(t, s, "unlock")
        /\ flash' = [c \in Cells |-> IF c[2] = s THEN Programmed(c) ELSE flash[c]]
  BY DEF Program
<1>2. /\ pc[t] = "program" /\ w \in Write /\ holder = t /\ UNCHANGED <<buffer, holder, call>>
      /\ left \subseteq Lies[w.member] /\ Lies[w.member] \in (SUBSET Sectors) \ {{}}
  BY StorageAssumption
     DEF Program, IInv, LeftIsOwn, CallsAreWrites, Exclusive, Inside, Write
<1>3. /\ s \in left /\ s \in Lies[w.member]
      /\ \/ left = {s} /\ pc' = [pc EXCEPT ![t] = "unlock"]
         \/ left' = left \ {s} /\ pc' = pc
  BY <1>1, <1>2, FinishLeaves DEF IInv
<1>4. \A c \in Covered(w.member) : flash[c] = IF c[2] \in left THEN Erased ELSE buffer[c]
  BY <1>2 DEF IInv, SectorsAreErased
<1>5. \A c \in Cells : c[2] = s => c \in Covered(w.member)
  BY <1>3 DEF Covered
<1>6. flash' = [c \in Cells |-> IF c[2] = s THEN buffer[c] ELSE flash[c]]
  BY <1>1, <1>3, <1>4, <1>5 DEF Programmed
<1>7. Standing = [c \in Cells |-> IF c \in Covered(w.member) THEN buffer[c] ELSE flash[c]]
  BY <1>2, StandsIn DEF Effected
<1>8. \A u \in Tasks \ {t} : ~Effected(u)' /\ pc[u] \in {"idle", "lock"} /\ pc'[u] = pc[u]
  BY <1>2, <1>3, OneStandsIn DEF IInv, TypeOK, Effected
<1>9. Standing' = Standing
  <2>1. CASE left = {s} /\ pc' = [pc EXCEPT ![t] = "unlock"]
    <3>1. \A u \in Tasks : ~Effected(u)'
      BY <1>8, <2>1 DEF Effected, IInv, TypeOK
    <3>2. Standing' = flash'
      BY <3>1, <1>6 DEF Standing
    <3>3. \A c \in Covered(w.member) : c[2] # s => flash[c] = buffer[c]
      BY <1>4, <2>1
    <3> QED BY <1>5, <1>6, <1>7, <3>2, <3>3
  <2>2. CASE left' = left \ {s} /\ pc' = pc
    <3>1. Effected(t)'
      BY <1>2, <2>2 DEF Effected
    <3>2. Standing' = [c \in Cells |-> IF c \in Covered(w.member) THEN buffer[c] ELSE flash'[c]]
      BY <1>2, <1>8, <3>1 DEF Standing
    <3> QED BY <1>5, <1>6, <1>7, <3>2
  <2> QED BY <1>3, <2>1, <2>2
<1>10. Phase' = Phase
  <2>1. Phase[t] = "effected" /\ Phase'[t] = "effected"
    BY <1>2, <1>3 DEF Phase, IInv, TypeOK
  <2> QED BY <1>8, <2>1 DEF Phase
<1> QED BY <1>2, <1>9, <1>10 DEF Abstract!vars

(* A power cut leaves each cell of the sector in work as it stands, or no  *)
(* value: what it costs are members with a cell in a sector of the write.  *)
LEMMA CutShortLoses ==
  ASSUME IInv, NEW t \in Tasks, pc[t] \in {"erase", "program"},
         UNCHANGED flash \/ CutShort(t), NEW m \in Members
  PROVE  \/ Value(flash', m) = Value(Standing, m)
         \/ m \in Neighbours(call[t].member) /\ Value(flash', m) = Torn
<1> DEFINE w == call[t]
<1>1. /\ w \in Write /\ left # {} /\ left \subseteq Lies[w.member]
      /\ Lies[w.member] \in (SUBSET Sectors) \ {{}}
  BY StorageAssumption DEF IInv, LeftIsOwn, CallsAreWrites, Write
<1>2. ASSUME NEW c \in Cells
      PROVE  \/ flash'[c] = flash[c]
             \/ flash'[c] \notin Values /\ c \in Covered(w.member)
             \/ pc[t] = "program" /\ c \in Covered(w.member) /\ flash'[c] = buffer[c]
  <2>1. CASE CutShort(t)
    <3>1. PICK s \in Sectors : \E done, torn \in SUBSET CellsIn(s) :
            /\ pc[t] \in {"erase", "program"} /\ Current(s)
            /\ flash' = [d \in Cells |-> IF d \in torn THEN Torn
                                         ELSE IF d \notin done THEN flash[d]
                                         ELSE IF pc[t] = "erase" THEN Erased ELSE Programmed(d)]
      BY <2>1 DEF CutShort
    <3> PICK done \in SUBSET CellsIn(s), torn \in SUBSET CellsIn(s) :
            /\ pc[t] \in {"erase", "program"} /\ Current(s)
            /\ flash' = [d \in Cells |-> IF d \in torn THEN Torn
                                         ELSE IF d \notin done THEN flash[d]
                                         ELSE IF pc[t] = "erase" THEN Erased ELSE Programmed(d)]
      BY <3>1
    <3>2. s \in left /\ s \in Lies[w.member]
      BY <1>1, <3>1 DEF Current
    <3>3. c \in done \cup torn => c[2] = s /\ c \in Covered(w.member)
      BY <3>2 DEF CellsIn, Covered
    <3>4. pc[t] = "program" /\ c \in done => Programmed(c) = buffer[c]
      BY <3>2, <3>3 DEF Programmed, IInv, SectorsAreErased
    <3> QED BY <3>3, <3>4, StorageAssumption
  <2> QED BY <2>1
<1>3. \A c \in CellsOf(m) : c \in Cells /\ c[1] = m
  BY DEF CellsOf
<1>4. CASE m \notin Neighbours(w.member)
  <2>1. \A c \in CellsOf(m) : c \notin Covered(w.member)
    BY <1>4 DEF CellsOf, Covered, Cells, Neighbours
  <2>2. \A c \in CellsOf(m) : Standing[c] = flash[c]
    <3>1. CASE Effected(t)
      BY <2>1, <1>3, <3>1, StandsIn
    <3>2. CASE ~Effected(t)
      <4>1. \A u \in Tasks : ~Effected(u)
        BY <3>2 DEF IInv, Exclusive, Inside, Effected
      <4> QED BY <4>1, NobodyStandsIn
    <3> QED BY <3>1, <3>2
  <2> QED BY <1>2, <1>3, <2>1, <2>2, SameCells
<1>5. CASE m \in Neighbours(w.member)
  <2> SUFFICES \/ \A c \in CellsOf(m) : flash'[c] = Standing[c] \/ flash'[c] \notin Values
               \/ \E c \in CellsOf(m) : flash'[c] \notin Values
    BY <1>5, SameOrLost
  <2>1. CASE ~Effected(t)
    <3>1. \A u \in Tasks : ~Effected(u)
      BY <2>1 DEF IInv, Exclusive, Inside, Effected
    <3> QED BY <1>2, <1>3, <2>1, <3>1, NobodyStandsIn DEF Effected
  <2>2. CASE pc[t] = "program"
    <3>1. \A c \in Cells : Standing[c] = IF c \in Covered(w.member) THEN buffer[c] ELSE flash[c]
      BY <2>2, StandsIn DEF Effected
    <3>2. \A c \in Covered(w.member) : flash[c] = IF c[2] \in left THEN Erased ELSE buffer[c]
      BY <2>2 DEF IInv, SectorsAreErased
    <3> QED BY <1>2, <1>3, <3>1, <3>2, StorageAssumption
  <2>3. CASE pc[t] = "erase" /\ left # Lies[w.member]
    <3>1. \A c \in Cells : Standing[c] = IF c \in Covered(w.member) THEN buffer[c] ELSE flash[c]
      BY <2>3, StandsIn DEF Effected
    <3>2. CASE m = w.member
      <4>1. PICK r \in Lies[m] : r \notin left /\ r \in Sectors
        BY <1>1, <2>3, <3>2
      <4>2. <<m, r>> \in CellsOf(m) /\ <<m, r>> \in Covered(m) /\ <<m, r>> \in Cells
        BY <4>1 DEF CellsOf, Covered, Cells
      <4>3. flash[<<m, r>>] = Erased
        BY <2>3, <3>2, <4>1, <4>2 DEF IInv, BufferIsReady
      <4>4. flash'[<<m, r>>] \notin Values
        BY <1>2, <2>3, <4>2, <4>3, StorageAssumption
      <4> QED BY <4>2, <4>4
    <3>3. CASE m # w.member
      <4>1. \A c \in CellsOf(m) : c \in Covered(w.member) =>
              \/ flash[c] = Erased
              \/ buffer[c] = flash[c]
        BY <2>3, <3>3 DEF IInv, BufferIsReady, CellsOf
      <4> QED BY <1>2, <1>3, <2>3, <3>1, <4>1, StorageAssumption
    <3> QED BY <3>2, <3>3
  <2> QED BY <2>1, <2>2, <2>3 DEF Effected
<1> QED BY <1>4, <1>5

(* So it is a power cut of the registers, wherever it comes. *)
LEMMA PowerCutRefines ==
  ASSUME IInv, IInv', PowerCut
  PROVE  Abstract!PowerCut
<1>1. Phase' = [t \in Tasks |-> "idle"] /\ call' = [t \in Tasks |-> NoCall]
  BY DEF PowerCut, Phase
<1>2. Standing' = flash'
  <2>1. \A t \in Tasks : ~Effected(t)'
    BY DEF PowerCut, Effected
  <2> QED BY <2>1 DEF Standing, IInv, TypeOK
<1>3. CASE \A t \in Tasks : pc[t] \notin {"erase", "program"}
  <2>1. flash' = flash
    BY <1>3 DEF PowerCut, CutShort
  <2>2. Mem' = Mem
    BY <1>2, <1>3, <2>1, NobodyStandsIn DEF Mem, Effected
  <2> QED BY <1>1, <2>2 DEF Abstract!PowerCut, Mem
<1>4. ASSUME NEW t \in Tasks, pc[t] \in {"erase", "program"} PROVE Abstract!PowerCut
  <2> DEFINE near == Neighbours(call[t].member)
             lost == {m \in near : Value(flash', m) # Value(Standing, m)}
  <2>1. UNCHANGED flash \/ CutShort(t)
    <3>1. \A u \in Tasks : pc[u] \in {"erase", "program"} => u = t
      BY <1>4 DEF IInv, Exclusive, Inside
    <3>2. \A u \in Tasks : CutShort(u) => pc[u] \in {"erase", "program"}
      BY DEF CutShort
    <3> QED BY <3>1, <3>2 DEF PowerCut
  <2>2. \A m \in Members : \/ Value(flash', m) = Value(Standing, m)
                           \/ m \in near /\ Value(flash', m) = Torn
    BY <1>4, <2>1, CutShortLoses
  <2>3. Mem' = [m \in Members |-> IF m \in lost THEN Torn ELSE Mem[m]]
    BY <1>2, <2>2 DEF Mem
  <2>4. Phase[t] \in {"busy", "effected"}
    BY <1>4 DEF Phase
  <2>5. lost \in SUBSET near
    OBVIOUS
  <2> QED BY <1>1, <2>3, <2>4, <2>5 DEF Abstract!PowerCut, Mem
<1> QED BY <1>3, <1>4

(* Every step is one of the registers or changes nothing they show. *)
LEMMA StepRefines == IInv /\ IInv' /\ [Next]_vars => [Abstract!Next]_(Abstract!vars)
<1> SUFFICES ASSUME IInv, IInv', [Next]_vars PROVE [Abstract!Next]_(Abstract!vars)
  OBVIOUS
<1>1. CASE PowerCut
  BY <1>1, PowerCutRefines DEF Abstract!Next
<1>2. ASSUME NEW t \in Tasks, Request(t) PROVE Abstract!Next
  <2>1. /\ pc[t] = "idle" /\ pc' = [pc EXCEPT ![t] = "lock"]
        /\ UNCHANGED <<flash, buffer, left, holder>>
        /\ \A u \in Tasks : u # t => pc'[u] = pc[u] /\ call'[u] = call[u]
        /\ pc'[t] = "lock"
    BY <1>2 DEF Request, IInv, TypeOK
  <2>2. \A u \in Tasks : /\ Effected(u)' <=> Effected(u)
                         /\ Effected(u) => call'[u] = call[u]
    BY <2>1 DEF Effected
  <2>3. Mem' = Mem
    <3>1. Standing' = Standing
      BY <2>1, <2>2 DEF Standing
    <3> QED BY <3>1 DEF Mem
  <2>4. Phase[t] = "idle" /\ Phase' = [Phase EXCEPT ![t] = "pending"]
    BY <2>1 DEF Phase
  <2> QED BY <1>2, <2>3, <2>4 DEF Request, Abstract!Next, Abstract!Request, Mem
<1>3. ASSUME NEW t \in Tasks, Take(t) PROVE UNCHANGED Abstract!vars
  <2>1. /\ pc[t] = "lock" /\ pc' = [pc EXCEPT ![t] = "fill"] /\ pc'[t] = "fill"
        /\ UNCHANGED <<flash, buffer, left, call>>
    BY <1>3 DEF Take, IInv, TypeOK
  <2>2. \A u \in Tasks : Effected(u)' <=> Effected(u)
    BY <2>1 DEF Effected, IInv, TypeOK
  <2>3. Standing' = Standing
    BY <2>1, <2>2 DEF Standing
  <2>4. Phase' = Phase
    BY <2>1 DEF Phase, IInv, TypeOK
  <2> QED BY <2>1, <2>3, <2>4 DEF Abstract!vars
<1>4. ASSUME NEW t \in Tasks, Fill(t) \/ Erase(t) PROVE Abstract!Next \/ UNCHANGED Abstract!vars
  BY <1>4, FillRefines, EraseRefines DEF Abstract!Next
<1>5. ASSUME NEW t \in Tasks, Program(t) PROVE UNCHANGED Abstract!vars
  BY <1>5, ProgramRefines
<1>6. ASSUME NEW t \in Tasks, Unlock(t) PROVE Abstract!Next
  <2>1. /\ pc[t] = "unlock" /\ holder = t /\ pc' = [pc EXCEPT ![t] = "idle"]
        /\ UNCHANGED <<flash, buffer, left>>
    BY <1>6 DEF Unlock, IInv, Exclusive, Inside
  <2>2. \A u \in Tasks : ~Effected(u) /\ ~Effected(u)'
    BY <2>1, OneStandsIn DEF IInv, TypeOK, Effected
  <2>3. Mem' = Mem
    BY <2>1, <2>2 DEF Standing, Mem
  <2>4. Phase[t] = "effected" /\ Phase' = [Phase EXCEPT ![t] = "idle"]
    <3>1. \A u \in Tasks \ {t} : pc[u] \in {"idle", "lock"} /\ pc'[u] = pc[u]
      BY <2>1, OneStandsIn DEF IInv, TypeOK
    <3> QED BY <2>1, <3>1 DEF Phase, IInv, TypeOK
  <2> QED BY <1>6, <2>3, <2>4 DEF Unlock, Abstract!Next, Abstract!Return, Mem
<1>7. ASSUME NEW t \in Tasks, Read(t) PROVE Abstract!Next
  <2>1. \A u \in Tasks : pc[u] \in {"idle", "lock"} /\ ~Effected(u) /\ ~Effected(u)'
    BY <1>7, StorageAssumption DEF Read, IInv, TypeOK, Exclusive, Inside, Effected
  <2>2. Standing = flash /\ Standing' = flash
    BY <1>7, <2>1, NobodyStandsIn DEF Read, Standing, IInv, TypeOK
  <2>3. Mem' = Mem /\ \A m \in Members : Mem[m] = Value(flash, m)
    BY <2>2 DEF Mem
  <2>4. Phase[t] = "idle" /\ Phase' = Phase
    BY <1>7, <2>1 DEF Read, Phase
  <2> QED BY <1>7, <2>3, <2>4 DEF Read, Abstract!Next, Abstract!Read, Mem
<1>8. CASE UNCHANGED vars
  BY <1>8 DEF vars, Abstract!vars, Standing, Effected, Phase, Value
<1> QED BY <1>1, <1>2, <1>3, <1>4, <1>5, <1>6, <1>7, <1>8 DEF Next

(* Every member is a register, whatever other members share its sectors    *)
(* and wherever the power is cut: the flash, the shared buffer and the     *)
(* mutex implement Registers.                                              *)
THEOREM StorageImplementsRegisters == Spec => ImplementsRegisters
<1>1. Init => Abstract!Init
  BY InitRefines
<1>2. IInv /\ IInv' /\ [Next]_vars => [Abstract!Next]_(Abstract!vars)
  BY StepRefines
<1> QED BY <1>1, <1>2, Invariance, PTL DEF Spec, ImplementsRegisters, Abstract!Spec

=============================================================================
