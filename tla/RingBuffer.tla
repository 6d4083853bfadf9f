------------------------------ MODULE RingBuffer ------------------------------
(***************************************************************************)
(* static_ring_buffer<T, N>, src/include/static_types.h: N elements, the   *)
(* index of the oldest one, that of the next write, and a flag that tells  *)
(* the full buffer from the empty one.  A buffer is a record of the four.  *)
(***************************************************************************)
EXTENDS Integers, Sequences

CONSTANTS N,     (* the capacity                        *)
          Zero   (* a value-initialised element         *)

Empty == [storage |-> [k \in 0..(N - 1) |-> Zero],
          start |-> 0, write |-> 0, full |-> FALSE]

(* push.  The first version is a mutant that PROJECT.json lists.           *)
PushForgetsStart(rb, e) ==
  LET write == (rb.write + 1) % N
  IN [storage |-> [rb.storage EXCEPT ![rb.write] = e],
      start |-> rb.start, write |-> write, full |-> rb.start = write]

Push(rb, e) ==
  LET start == IF rb.start = rb.write /\ rb.full THEN (rb.start + 1) % N ELSE rb.start
      write == (rb.write + 1) % N
  IN [storage |-> [rb.storage EXCEPT ![rb.write] = e],
      start |-> start, write |-> write, full |-> start = write]

Size(rb) == IF rb.full THEN N
            ELSE rb.write - rb.start + (IF rb.start > rb.write THEN N ELSE 0)

(* operator[]: from the oldest element, or for i < 0 back from the newest. *)
At(rb, i) == rb.storage[((IF i >= 0 THEN rb.start + i ELSE rb.write + i + N)) % N]

(* The elements from begin() to end(): the iterator stops at the index of  *)
(* the next write, but not before its first step if the buffer is full.    *)
Stops(rb, k) == (rb.start + k) % N = rb.write /\ (rb.full => k > 0)
Contents(rb) ==
  LET n == CHOOSE n \in 0..N : Stops(rb, n) /\ \A k \in 0..(n - 1) : ~Stops(rb, k)
  IN [k \in 1..n |-> rb.storage[(rb.start + k - 1) % N]]

=============================================================================
