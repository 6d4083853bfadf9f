-------------------------- MODULE RingBufferProofs --------------------------
(***************************************************************************)
(* What a static_ring_buffer of any capacity holds, and where; and which   *)
(* elements are left of those pushed with ever later times.                *)
(***************************************************************************)
EXTENDS RingBuffer, FiniteSetTheorems, TLAPS

CONSTANT Elem

(* The flag is set only while the two indices meet. *)
Buffers == {rb \in [storage : [0..(N - 1) -> Elem], start : 0..(N - 1),
                    write : 0..(N - 1), full : BOOLEAN] :
              rb.full = TRUE => rb.start = rb.write}

(* What % N does to an index that has passed the end once. *)
LEMMA Wraps ==
  ASSUME N \in Nat \ {0}, NEW x \in 0..(2 * N - 1)
  PROVE  x % N = IF x < N THEN x ELSE x - N
  OBVIOUS

(* size() is in range, N just when full, and the way from start to write. *)
LEMMA SizeType ==
  ASSUME N \in Nat \ {0}, NEW rb \in Buffers
  PROVE  /\ Size(rb) \in 0..N
         /\ Size(rb) = N <=> rb.full = TRUE
         /\ rb.write = (rb.start + Size(rb)) % N
<1>1. rb.start \in 0..(N - 1) /\ rb.write \in 0..(N - 1) /\ rb.full \in BOOLEAN
      /\ (rb.full = TRUE => rb.start = rb.write)
  BY DEF Buffers
<1>2. Size(rb) = IF rb.full = TRUE THEN N
                 ELSE IF rb.start > rb.write THEN rb.write - rb.start + N
                 ELSE rb.write - rb.start
  BY <1>1 DEF Size
<1>3. Size(rb) \in 0..N /\ (Size(rb) = N <=> rb.full = TRUE)
  BY <1>1, <1>2
<1>4. (rb.start + Size(rb)) % N = IF rb.start + Size(rb) < N THEN rb.start + Size(rb)
                                  ELSE rb.start + Size(rb) - N
  BY <1>1, <1>3, Wraps
<1>5. rb.write = IF rb.start + Size(rb) < N THEN rb.start + Size(rb)
                 ELSE rb.start + Size(rb) - N
  BY <1>1, <1>2
<1> QED BY <1>3, <1>4, <1>5

(* The iterator stops after size() steps and not before. *)
LEMMA StopsAtSize ==
  ASSUME N \in Nat \ {0}, NEW rb \in Buffers, NEW k \in 0..Size(rb)
  PROVE  Stops(rb, k) <=> k = Size(rb)
<1>1. rb.start \in 0..(N - 1) /\ rb.write \in 0..(N - 1) /\ rb.full \in BOOLEAN
      /\ (rb.full = TRUE => rb.start = rb.write)
  BY DEF Buffers
<1>0. Size(rb) \in 0..N /\ (Size(rb) = N <=> rb.full = TRUE)
  BY SizeType
<1>2. Size(rb) \in 0..N /\ (Size(rb) = N <=> rb.full = TRUE) /\ k \in 0..N
  BY <1>0
<1>3. (rb.start + k) % N = IF rb.start + k < N THEN rb.start + k ELSE rb.start + k - N
  BY <1>1, <1>2, Wraps
<1>4. Size(rb) = IF rb.full = TRUE THEN N
                 ELSE IF rb.start > rb.write THEN rb.write - rb.start + N
                 ELSE rb.write - rb.start
  BY <1>1 DEF Size
<1>5. CASE rb.full = TRUE
  BY <1>1, <1>2, <1>3, <1>4, <1>5 DEF Stops
<1>6. CASE rb.full = FALSE
  BY <1>1, <1>2, <1>3, <1>4, <1>6 DEF Stops
<1> QED BY <1>1, <1>5, <1>6

(* Iterating over a buffer yields size() elements, from the oldest on. *)
THEOREM IteratorVisitsAll ==
  ASSUME N \in Nat \ {0}, NEW rb \in Buffers
  PROVE  Contents(rb) = [k \in 1..Size(rb) |-> rb.storage[(rb.start + k - 1) % N]]
<1> DEFINE Last(n) == Stops(rb, n) /\ \A k \in 0..(n - 1) : ~Stops(rb, k)
<1>1. Size(rb) \in 0..N
  BY SizeType
<1>2. Last(Size(rb))
  <2>1. \A k \in 0..(Size(rb) - 1) : k \in 0..Size(rb) /\ k # Size(rb)
    BY <1>1
  <2> QED BY <1>1, <2>1, StopsAtSize
<1>3. ASSUME NEW n \in 0..N, Last(n) PROVE n = Size(rb)
  <2>1. n <= Size(rb)
    <3> SUFFICES ASSUME n > Size(rb) PROVE FALSE
      BY <1>1
    <3>1. Size(rb) \in 0..(n - 1)
      BY <1>1
    <3> QED BY <1>2, <1>3, <3>1
  <2>2. n \in 0..Size(rb)
    BY <1>1, <2>1
  <2> QED BY <1>3, <2>2, StopsAtSize
<1>4. (CHOOSE n \in 0..N : Last(n)) = Size(rb)
  BY <1>1, <1>2, <1>3
<1> QED BY <1>4 DEF Contents

(* The arithmetic of push: of the indices s and w of a buffer of size z,   *)
(* t and the size y after the push, x is that of the k-th element.         *)
LEMMA PushedIndex ==
  ASSUME N \in Nat \ {0}, NEW s \in 0..(N - 1), NEW z \in 0..N, NEW w \in 0..(N - 1),
         w = IF s + z < N THEN s + z ELSE s + z - N,
         NEW t \in 0..(N - 1),
         t = IF z = N THEN IF s + 1 < N THEN s + 1 ELSE 0 ELSE s,
         NEW y \in 1..N, y = IF z = N THEN N ELSE z + 1,
         NEW k \in 1..y, NEW x \in 0..(N - 1),
         x = IF t + k - 1 < N THEN t + k - 1 ELSE t + k - 1 - N
  PROVE  /\ x = w <=> k = y
         /\ k # y /\ z = N => x = IF s + k < N THEN s + k ELSE s + k - N
<1>1. CASE z = N /\ s + 1 < N
  BY <1>1
<1>2. CASE z = N /\ ~(s + 1 < N)
  BY <1>2
<1>3. CASE z # N
  BY <1>3
<1> QED BY <1>1, <1>2, <1>3

(* The size is what leads from the first index to the next write. *)
LEMMA PushedSize ==
  ASSUME N \in Nat \ {0}, NEW s \in 0..(N - 1), NEW z \in 0..(N - 1), NEW w \in 0..(N - 1),
         w = IF s + z < N THEN s + z ELSE s + z - N,
         NEW v \in 0..(N - 1), v = IF w + 1 < N THEN w + 1 ELSE w + 1 - N,
         NEW y \in 1..N, v = IF s + y < N THEN s + y ELSE s + y - N
  PROVE  y = z + 1
<1>1. CASE s + z < N
  BY <1>1
<1>2. CASE ~(s + z < N)
  BY <1>2
<1> QED BY <1>1, <1>2

(* push keeps a buffer a buffer. *)
LEMMA PushType ==
  ASSUME N \in Nat \ {0}, NEW rb \in Buffers, NEW e \in Elem
  PROVE  /\ Push(rb, e) \in Buffers
         /\ Push(rb, e).storage = [rb.storage EXCEPT ![rb.write] = e]
         /\ Push(rb, e).start = IF Size(rb) = N THEN (rb.start + 1) % N ELSE rb.start
         /\ Push(rb, e).write = (rb.write + 1) % N
         /\ Push(rb, e).full = TRUE <=> Push(rb, e).start = Push(rb, e).write
<1> DEFINE new == Push(rb, e)
<1>1. /\ rb.start \in 0..(N - 1) /\ rb.write \in 0..(N - 1) /\ rb.full \in BOOLEAN
      /\ (rb.full = TRUE => rb.start = rb.write)
      /\ rb.storage \in [0..(N - 1) -> Elem]
  BY DEF Buffers
<1>2. Size(rb) = N <=> rb.full = TRUE
  BY SizeType
<1>3. /\ new.storage = [rb.storage EXCEPT ![rb.write] = e]
      /\ new.start = IF Size(rb) = N THEN (rb.start + 1) % N ELSE rb.start
      /\ new.write = (rb.write + 1) % N
      /\ new.full = (new.start = new.write)
  BY <1>1, <1>2 DEF Push
<1>4. (rb.start + 1) % N \in 0..(N - 1) /\ (rb.write + 1) % N \in 0..(N - 1)
  BY <1>1, Wraps
<1>5. new.start \in 0..(N - 1) /\ new.write \in 0..(N - 1)
  BY <1>1, <1>3, <1>4
<1>6. new.storage \in [0..(N - 1) -> Elem]
  BY <1>1, <1>3
<1>7. new.full \in BOOLEAN /\ (new.full = TRUE <=> new.start = new.write)
  BY <1>3
<1>8. new \in Buffers
  BY <1>5, <1>6, <1>7 DEF Push, Buffers
<1> QED BY <1>3, <1>7, <1>8

(* push keeps the newest N elements: the oldest one goes only when there   *)
(* is no room, and the others keep their order.                            *)
THEOREM PushKeepsNewest ==
  ASSUME N \in Nat \ {0}, NEW rb \in Buffers, NEW e \in Elem
  PROVE  /\ Push(rb, e) \in Buffers
         /\ Size(Push(rb, e)) = IF Size(rb) = N THEN N ELSE Size(rb) + 1
         /\ \A k \in 1..Size(Push(rb, e)) :
              Contents(Push(rb, e))[k] =
                IF k = Size(Push(rb, e)) THEN e
                ELSE IF Size(rb) = N THEN Contents(rb)[k + 1] ELSE Contents(rb)[k]
<1> DEFINE new == Push(rb, e)
           s == rb.start  w == rb.write  z == Size(rb)
           t == new.start  v == new.write  y == Size(new)
<1>1. s \in 0..(N - 1) /\ w \in 0..(N - 1) /\ rb.storage \in [0..(N - 1) -> Elem]
  BY DEF Buffers
<1>2. /\ z \in 0..N /\ w = (s + z) % N
      /\ z = N => s = w
  BY SizeType DEF Buffers
<1>3. /\ new \in Buffers
      /\ new.storage = [rb.storage EXCEPT ![w] = e]
      /\ t = (IF z = N THEN (s + 1) % N ELSE s)
      /\ v = (w + 1) % N
      /\ new.full = TRUE <=> t = v
  BY PushType
<1> HIDE DEF new
<1>4. t \in 0..(N - 1) /\ v \in 0..(N - 1)
  BY <1>3 DEF Buffers
<1>5. y \in 0..N /\ (y = N <=> t = v) /\ v = (t + y) % N
  BY <1>3, SizeType
<1> HIDE DEF s, w, z, t, v, y
<1>6. /\ w = IF s + z < N THEN s + z ELSE s + z - N
      /\ t = IF z = N THEN IF s + 1 < N THEN s + 1 ELSE 0 ELSE s
      /\ v = IF w + 1 < N THEN w + 1 ELSE w + 1 - N
      /\ v = IF t + y < N THEN t + y ELSE t + y - N
  <2>1. (s + 1) % N = IF s + 1 < N THEN s + 1 ELSE s + 1 - N
    BY <1>1
  <2>2. (s + z) % N = IF s + z < N THEN s + z ELSE s + z - N
    BY <1>1, <1>2
  <2>3. (w + 1) % N = IF w + 1 < N THEN w + 1 ELSE w + 1 - N
    BY <1>1
  <2>4. (t + y) % N = IF t + y < N THEN t + y ELSE t + y - N
    BY <1>4, <1>5
  <2>5. ~(s + 1 < N) => s + 1 - N = 0
    BY <1>1
  <2> QED BY <1>2, <1>3, <1>5, <2>1, <2>2, <2>3, <2>4, <2>5
<1>7. y \in 1..N /\ y = IF z = N THEN N ELSE z + 1
  <2>1. CASE z = N
    BY <1>1, <1>2, <1>3, <1>5, <2>1
  <2>2. CASE z # N
    <3>1. y \in 1..N /\ z \in 0..(N - 1) /\ t = s
      BY <1>2, <1>4, <1>5, <1>6, <2>2
    <3> QED BY <1>1, <1>4, <1>6, <2>2, <3>1, PushedSize
  <2> QED BY <2>1, <2>2
<1>8. ASSUME NEW k \in 1..y
      PROVE  Contents(new)[k] =
               IF k = y THEN e
               ELSE IF z = N THEN Contents(rb)[k + 1] ELSE Contents(rb)[k]
  <2> DEFINE x == (t + k - 1) % N
  <2>1. t + k - 1 \in 0..(2 * N - 1)
    BY <1>4, <1>7
  <2>2. /\ x \in 0..(N - 1)
        /\ x = IF t + k - 1 < N THEN t + k - 1 ELSE t + k - 1 - N
    BY <1>4, <1>7, <2>1, Wraps
  <2>3. Contents(new)[k] = new.storage[x]
    BY <1>3, IteratorVisitsAll DEF t, y
  <2>4. \A i \in 1..z : Contents(rb)[i] = rb.storage[(s + i - 1) % N]
    BY IteratorVisitsAll DEF s, z
  <2>5. (s + k - 1) % N = x \/ z = N
    BY <1>6
  <2> HIDE DEF x
  <2>6. /\ x = w <=> k = y
        /\ k # y /\ z = N => x = IF s + k < N THEN s + k ELSE s + k - N
    BY <1>1, <1>2, <1>4, <1>6, <1>7, <2>2, PushedIndex
  <2>7. CASE k = y
    BY <1>1, <1>3, <2>2, <2>3, <2>6, <2>7
  <2>8. CASE k # y /\ z = N
    <3>1. k + 1 \in 1..z /\ s + (k + 1) - 1 = s + k /\ s + k \in 0..(2 * N - 1)
      BY <1>1, <1>7, <2>8
    <3>2. x = (s + k) % N
      BY <1>1, <1>7, <2>6, <2>8, <3>1
    <3>3. Contents(rb)[k + 1] = rb.storage[x]
      BY <2>4, <2>8, <3>1, <3>2
    <3> QED BY <1>1, <1>3, <2>2, <2>3, <2>6, <2>8, <3>3
  <2>9. CASE k # y /\ z # N
    <3>1. k \in 1..z
      BY <1>2, <1>7, <2>9
    <3>2. Contents(rb)[k] = rb.storage[x]
      BY <2>4, <2>9, <2>5, <3>1
    <3> QED BY <1>1, <1>3, <2>2, <2>3, <2>6, <2>9, <3>2
  <2> QED BY <2>7, <2>8, <2>9
<1> QED BY <1>3, <1>7, <1>8 DEF new, y, z

(* operator[] counts from the oldest element, or back from the newest. *)
THEOREM IndexCountsFromEnds ==
  ASSUME N \in Nat \ {0}, NEW rb \in Buffers, NEW i \in 1..Size(rb)
  PROVE  At(rb, i - 1) = Contents(rb)[i] /\ At(rb, -i) = Contents(rb)[Size(rb) + 1 - i]
<1>1. rb.start \in 0..(N - 1) /\ rb.write \in 0..(N - 1) /\ rb.full \in BOOLEAN
      /\ (rb.full = TRUE => rb.start = rb.write)
  BY DEF Buffers
<1>0. Size(rb) \in 0..N /\ (Size(rb) = N <=> rb.full = TRUE)
  BY SizeType
<1>2. Size(rb) \in 0..N /\ (Size(rb) = N <=> rb.full = TRUE) /\ i \in 1..N
  BY <1>0
<1>3. Size(rb) = IF rb.full = TRUE THEN N
                 ELSE IF rb.start > rb.write THEN rb.write - rb.start + N
                 ELSE rb.write - rb.start
  BY <1>1 DEF Size
<1>4. At(rb, i - 1) = Contents(rb)[i]
  <2>1. i - 1 >= 0 /\ rb.start + (i - 1) = rb.start + i - 1
    BY <1>1, <1>2
  <2> QED BY <2>1, IteratorVisitsAll DEF At
<1>5. At(rb, -i) = Contents(rb)[Size(rb) + 1 - i]
  <2> DEFINE k == Size(rb) + 1 - i
  <2>1. k \in 1..Size(rb) /\ ~(-i >= 0)
    BY <1>2
  <2>2. (rb.start + k - 1) % N = IF rb.start + k - 1 < N THEN rb.start + k - 1
                                 ELSE rb.start + k - 1 - N
    BY <1>1, <1>2, <2>1, Wraps
  <2>3. (rb.write + (-i) + N) % N = IF rb.write - i + N < N THEN rb.write - i + N
                                    ELSE rb.write - i
    <3>1. rb.write + (-i) + N \in 0..(2 * N - 1)
      BY <1>1, <1>2
    <3> QED BY <1>1, <1>2, <3>1, Wraps
  <2>4. (rb.write + (-i) + N) % N = (rb.start + k - 1) % N
    BY <1>1, <1>2, <1>3, <2>1, <2>2, <2>3
  <2> QED BY <2>1, <2>4, IteratorVisitsAll DEF At
<1> QED BY <1>4, <1>5

(* Until the buffer is full it has lost nothing, and what lies beyond the  *)
(* next write has never been written.                                      *)
Unwrapped(rb) ==
  rb.full = FALSE => rb.start = 0 /\ \A k \in rb.write..(N - 1) : rb.storage[k] = Zero

(* The buffer nothing was pushed to. *)
LEMMA EmptyIsUnwrapped ==
  ASSUME N \in Nat \ {0}, Zero \in Elem
  PROVE  Empty \in Buffers /\ Size(Empty) = 0 /\ Unwrapped(Empty)
<1>1. Empty \in Buffers /\ Size(Empty) = 0
  BY DEF Empty, Buffers, Size
<1>2. Unwrapped(Empty)
  BY DEF Empty, Unwrapped
<1> QED BY <1>1, <1>2

(* push writes the first of the elements that were never written. *)
LEMMA PushKeepsUnwrapped ==
  ASSUME N \in Nat \ {0}, NEW rb \in Buffers, NEW e \in Elem, Unwrapped(rb)
  PROVE  Unwrapped(Push(rb, e))
<1> DEFINE new == Push(rb, e)
<1>1. rb.start \in 0..(N - 1) /\ rb.write \in 0..(N - 1) /\ rb.full \in BOOLEAN
      /\ (rb.full = TRUE => rb.start = rb.write)
      /\ rb.storage \in [0..(N - 1) -> Elem]
  BY DEF Buffers
<1>2. /\ new.storage = [rb.storage EXCEPT ![rb.write] = e]
      /\ new.start = IF Size(rb) = N THEN (rb.start + 1) % N ELSE rb.start
      /\ new.write = (rb.write + 1) % N
      /\ new.full = TRUE <=> new.start = new.write
  BY PushType
<1>3. Size(rb) = N <=> rb.full = TRUE
  BY SizeType
<1>4. (rb.write + 1) % N = IF rb.write + 1 < N THEN rb.write + 1 ELSE 0
  BY <1>1, Wraps
<1> HIDE DEF new
<1> SUFFICES ASSUME new.full = FALSE
             PROVE  new.start = 0 /\ \A k \in new.write..(N - 1) : new.storage[k] = Zero
  BY DEF Unwrapped, new
<1>5. rb.full = FALSE
  <2>1. rb.full = TRUE => new.start = new.write
    BY <1>1, <1>2, <1>3
  <2> QED BY <1>1, <1>2, <2>1
<1>6. rb.start = 0 /\ \A k \in rb.write..(N - 1) : rb.storage[k] = Zero
  BY <1>5 DEF Unwrapped
<1>7. new.start = 0 /\ new.write = rb.write + 1
  BY <1>1, <1>2, <1>3, <1>4, <1>5, <1>6
<1> QED BY <1>1, <1>2, <1>6, <1>7

(* Further back than the first push, operator[] finds what was never       *)
(* written.                                                                *)
LEMMA BeforeFirst ==
  ASSUME N \in Nat \ {0}, NEW rb \in Buffers, Unwrapped(rb), NEW i \in 1..N, Size(rb) < i
  PROVE  At(rb, -i) = Zero
<1>1. rb.start \in 0..(N - 1) /\ rb.write \in 0..(N - 1) /\ rb.full \in BOOLEAN
  BY DEF Buffers
<1>2. Size(rb) \in 0..N /\ (Size(rb) = N <=> rb.full = TRUE)
  BY SizeType
<1>3. rb.full = FALSE
  BY <1>1, <1>2
<1>4. rb.start = 0 /\ \A k \in rb.write..(N - 1) : rb.storage[k] = Zero
  BY <1>3 DEF Unwrapped
<1>5. rb.write < i
  BY <1>1, <1>3, <1>4 DEF Size
<1>6. rb.write + (-i) + N \in rb.write..(N - 1)
  BY <1>1, <1>5
<1>7. (rb.write + (-i) + N) % N = rb.write + (-i) + N
  BY <1>1, <1>6, Wraps
<1> QED BY <1>4, <1>6, <1>7 DEF At

-----------------------------------------------------------------------------
(* operator[] finds an element, whatever was pushed. *)
LEMMA BackType ==
  ASSUME N \in Nat \ {0}, NEW rb \in Buffers, NEW i \in 1..N
  PROVE  At(rb, -i) \in Elem
<1>1. rb.write \in 0..(N - 1) /\ rb.storage \in [0..(N - 1) -> Elem]
  BY DEF Buffers
<1>2. rb.write + (-i) + N \in 0..(2 * N - 1) /\ ~(-i >= 0)
  BY <1>1
<1>3. (rb.write + (-i) + N) % N \in 0..(N - 1)
  BY <1>1, <1>2, Wraps
<1> QED BY <1>1, <1>2, <1>3 DEF At

After(t, times) == {s \in times : s > t}

(* An element that is later than one has fewer after it. *)
LEMMA AfterOrder ==
  ASSUME NEW times \in SUBSET Nat, IsFiniteSet(times), NEW t \in times
  PROVE  /\ Cardinality(After(t, times)) \in 0..(Cardinality(times) - 1)
         /\ Cardinality(times) \in Nat
         /\ \A u \in times : Cardinality(After(t, times)) = Cardinality(After(u, times)) => t = u
<1>1. ASSUME NEW u \in times
      PROVE  /\ IsFiniteSet(After(u, times)) /\ u \notin After(u, times)
             /\ Cardinality(After(u, times)) \in Nat
             /\ Cardinality(After(u, times) \cup {u}) = Cardinality(After(u, times)) + 1
  <2>1. After(u, times) \in SUBSET times /\ u \notin After(u, times)
    BY DEF After
  <2>2. IsFiniteSet(After(u, times))
    BY <2>1, FS_Subset
  <2> QED BY <2>1, <2>2, FS_AddElement, FS_CardinalityType
<1>2. ASSUME NEW u \in times, NEW v \in times, u < v
      PROVE  Cardinality(After(v, times)) < Cardinality(After(u, times))
  <2>1. After(v, times) \cup {v} \in SUBSET After(u, times)
    <3>1. ASSUME NEW s \in After(v, times) \cup {v} PROVE s \in times /\ s > u
      BY <1>2 DEF After
    <3> QED BY <3>1 DEF After
  <2>2. IsFiniteSet(After(u, times))
    BY <1>1
  <2>3. Cardinality(After(v, times) \cup {v}) <= Cardinality(After(u, times))
    BY <2>1, <2>2, FS_Subset
  <2>4. /\ Cardinality(After(u, times)) \in Nat /\ Cardinality(After(v, times)) \in Nat
        /\ Cardinality(After(v, times) \cup {v}) = Cardinality(After(v, times)) + 1
    BY <1>1
  <2> QED BY <2>3, <2>4
<1>3. Cardinality(After(t, times)) \in 0..(Cardinality(times) - 1)
      /\ Cardinality(times) \in Nat
  <2>1. After(t, times) \cup {t} \in SUBSET times
    BY DEF After
  <2>2. Cardinality(After(t, times) \cup {t}) <= Cardinality(times)
    BY <2>1, FS_Subset
  <2> QED BY <1>1, <2>2, FS_CardinalityType
<1>4. ASSUME NEW u \in times, Cardinality(After(t, times)) = Cardinality(After(u, times))
      PROVE  t = u
  <2>1. Cardinality(After(t, times)) \in Nat /\ Cardinality(After(u, times)) \in Nat
    BY <1>1
  <2>2. ~(t < u) /\ ~(u < t)
    BY <1>2, <1>4, <2>1
  <2>3. t \in Nat /\ u \in Nat
    OBVIOUS
  <2> QED BY <2>2, <2>3
<1> QED BY <1>3, <1>4

(* The buffer holds the newest N of the times, in order. *)
KeepsNewest(rb, times) ==
  /\ Size(rb) = IF Cardinality(times) < N THEN Cardinality(times) ELSE N
  /\ \A i \in 1..Size(rb) :
       /\ Contents(rb)[i].time \in times
       /\ Cardinality(After(Contents(rb)[i].time, times)) = Size(rb) - i

LEMMA EmptyKeepsNewest ==
  ASSUME N \in Nat \ {0}, Zero \in Elem
  PROVE  KeepsNewest(Empty, {})
BY EmptyIsUnwrapped, FS_EmptySet DEF KeepsNewest

(* What is later than all the others is added by one push. *)
THEOREM PushKeepsNewestTimes ==
  ASSUME N \in Nat \ {0}, NEW rb \in Buffers, NEW e \in Elem,
         NEW times \in SUBSET Nat, IsFiniteSet(times), e.time \in Nat,
         \A s \in times : s < e.time, KeepsNewest(rb, times)
  PROVE  KeepsNewest(Push(rb, e), times \cup {e.time})
<1> DEFINE new == Push(rb, e)
           now == e.time
           more == times \cup {now}
           y == Size(new)
           z == Size(rb)
<1>1. /\ y = IF z = N THEN N ELSE z + 1
      /\ \A k \in 1..y :
           Contents(new)[k] =
             IF k = y THEN e
             ELSE IF z = N THEN Contents(rb)[k + 1] ELSE Contents(rb)[k]
  BY PushKeepsNewest
<1>2. z \in 0..N
  BY SizeType
<1>3. y \in 1..N
  BY <1>1, <1>2
<1>4. IsFiniteSet(more) /\ Cardinality(more) = Cardinality(times) + 1
      /\ Cardinality(times) \in Nat
  <2>1. now \notin times
    OBVIOUS
  <2> QED BY <2>1, FS_AddElement, FS_CardinalityType
<1>5. y = IF Cardinality(more) < N THEN Cardinality(more) ELSE N
  BY <1>1, <1>2, <1>4 DEF KeepsNewest
<1>6. \A i \in 1..z : /\ Contents(rb)[i].time \in times
                      /\ Cardinality(After(Contents(rb)[i].time, times)) = z - i
  BY DEF KeepsNewest
<1> HIDE DEF new, now, y, z
<1>7. ASSUME NEW t \in times
      PROVE  Cardinality(After(t, more)) = Cardinality(After(t, times)) + 1
  <2>1. After(t, more) = After(t, times) \cup {now} /\ now \notin After(t, times)
    BY <1>7 DEF After, now
  <2>2. After(t, times) \in SUBSET times
    BY DEF After
  <2>3. IsFiniteSet(After(t, times))
    BY <2>2, FS_Subset
  <2> QED BY <2>1, <2>3, FS_AddElement
<1>8. Cardinality(After(now, more)) = 0
  <2>1. ASSUME NEW s \in more PROVE ~(s > now)
    BY DEF now
  <2>2. After(now, more) = {}
    BY <2>1 DEF After
  <2> QED BY <2>2, FS_EmptySet
<1>9. ASSUME NEW k \in 1..y
      PROVE  /\ Contents(new)[k].time \in more
             /\ Cardinality(After(Contents(new)[k].time, more)) = y - k
  <2>1. CASE k = y
    <3>1. Contents(new)[k].time = now
      BY <1>1, <2>1 DEF now
    <3>2. y - k = 0
      BY <1>3, <2>1
    <3> QED BY <1>8, <3>1, <3>2
  <2>2. CASE k # y
    <3> DEFINE i == IF z = N THEN k + 1 ELSE k
               t == Contents(rb)[i].time
    <3>1. i \in 1..z /\ z - i + 1 = y - k
      BY <1>1, <1>2, <1>3, <2>2
    <3>2. Contents(new)[k] = Contents(rb)[i]
      BY <1>1, <2>2
    <3>3. t \in times /\ Cardinality(After(t, times)) = z - i
      BY <1>6, <3>1
    <3>4. Cardinality(After(t, more)) = y - k
      BY <1>7, <3>1, <3>3
    <3> QED BY <3>2, <3>3, <3>4
  <2> QED BY <2>1, <2>2
<1> QED BY <1>5, <1>9 DEF KeepsNewest, new, now, y

(* Back from the newest element there is each of the last times, the       *)
(* newest first, and nothing else.                                         *)
LEMMA BackThroughTimes ==
  ASSUME N \in Nat \ {0}, NEW rb \in Buffers, NEW times \in SUBSET Nat, IsFiniteSet(times),
         KeepsNewest(rb, times)
  PROVE  /\ \A i \in 1..Size(rb) : /\ At(rb, -i) = Contents(rb)[Size(rb) + 1 - i]
                                   /\ At(rb, -i).time \in times
         /\ Size(rb) > 0 => \A s \in times : s <= At(rb, -1).time
         /\ \A t \in times : Cardinality(After(t, times)) < Size(rb)
              => At(rb, -(Cardinality(After(t, times)) + 1)).time = t
<1>1. Size(rb) \in 0..N
  BY SizeType
<1>2. ASSUME NEW i \in 1..Size(rb)
      PROVE  /\ At(rb, -i) = Contents(rb)[Size(rb) + 1 - i]
             /\ At(rb, -i).time \in times
             /\ Cardinality(After(At(rb, -i).time, times)) = i - 1
  <2>1. At(rb, -i) = Contents(rb)[Size(rb) + 1 - i]
    BY IndexCountsFromEnds
  <2>2. Size(rb) + 1 - i \in 1..Size(rb) /\ Size(rb) - (Size(rb) + 1 - i) = i - 1
    BY <1>1
  <2> QED BY <2>1, <2>2 DEF KeepsNewest
<1>3. ASSUME Size(rb) > 0, NEW s \in times PROVE s <= At(rb, -1).time
  <2> DEFINE t == At(rb, -1).time
  <2>1. 1 \in 1..Size(rb)
    BY <1>1, <1>3
  <2>2. t \in times /\ Cardinality(After(t, times)) = 0
    BY <1>2, <2>1
  <2>3. IsFiniteSet(After(t, times))
    <3>1. After(t, times) \in SUBSET times
      BY DEF After
    <3> QED BY <3>1, FS_Subset
  <2>4. After(t, times) = {}
    BY <2>2, <2>3, FS_EmptySet
  <2> HIDE DEF t
  <2>5. ~(s > t) /\ t \in Nat /\ s \in Nat
    BY <2>2, <2>4 DEF After
  <2> QED BY <2>5 DEF t
<1>4. ASSUME NEW t \in times, Cardinality(After(t, times)) < Size(rb)
      PROVE  At(rb, -(Cardinality(After(t, times)) + 1)).time = t
  <2> DEFINE c == Cardinality(After(t, times))
             u == At(rb, -(c + 1)).time
  <2>1. c \in Nat
    BY AfterOrder
  <2>2. c + 1 \in 1..Size(rb) /\ (c + 1) - 1 = c
    BY <1>1, <1>4, <2>1
  <2> HIDE DEF c
  <2>3. u \in times /\ Cardinality(After(u, times)) = c
    BY <1>2, <2>2
  <2> QED BY <2>3, AfterOrder DEF c
<1> QED BY <1>2, <1>3, <1>4

=============================================================================
