---------------------------- MODULE HistoryProofs ----------------------------
(***************************************************************************)
(* Theorems about the histories, module History, for every number of       *)
(* devices and slots, and every size of the buffers and units of time.     *)
(***************************************************************************)
EXTENDS History, FiniteSetTheorems, TLAPS

(* What the three buffers are made of. *)
Reading == [data : SUBSET (Ids \X Nat), time : Nat]
MinuteMean == [data : SUBSET (SUBSET (Ids \X Nat)), time : Nat]
HourMean == [data : SUBSET (SUBSET (SUBSET (Ids \X Nat))), time : Nat]

SecondFacts == INSTANCE RingBufferProofs WITH N <- SecondsKept, Elem <- Reading
MinuteFacts == INSTANCE RingBufferProofs WITH N <- MinutesKept, Elem <- MinuteMean
HourFacts == INSTANCE RingBufferProofs WITH N <- HoursKept, Elem <- HourMean

(* The assumption on the constants, in the form the proofs use. *)
LEMMA Constants ==
  /\ SlotCount \in Nat \ {0} /\ PerMinute \in Nat \ {0} /\ PerHour \in Nat \ {0}
  /\ SecondsKept \in Nat \ {0} /\ SecondsKept >= PerMinute
  /\ MinutesKept \in Nat \ {0} /\ MinutesKept >= PerHour
  /\ HoursKept \in Nat \ {0} /\ Len(Order) \in Nat
  /\ Ids \subseteq Nat \ {0} /\ Free \notin Ids
  /\ Zero \in Reading /\ Zero \in MinuteMean /\ Zero \in HourMean
<1>1. /\ SlotCount \in Nat \ {0} /\ PerMinute \in Nat \ {0} /\ PerHour \in Nat \ {0}
      /\ SecondsKept \in Nat /\ SecondsKept >= PerMinute
      /\ MinutesKept \in Nat /\ MinutesKept >= PerHour
      /\ HoursKept \in Nat \ {0} /\ Order \in Seq(Nat \ {0})
  BY HistoryAssumption
<1>2. Len(Order) \in Nat /\ \A i \in 1..Len(Order) : Order[i] \in Nat \ {0}
  BY <1>1
<1>3. Ids \subseteq Nat \ {0} /\ Free \notin Ids
  BY <1>2 DEF Ids, Free
<1>4. Zero \in Reading /\ Zero \in MinuteMean /\ Zero \in HourMean
  BY DEF Zero, Reading, MinuteMean, HourMean
<1> QED BY <1>1, <1>2, <1>3, <1>4

(* What the instances of RingBufferProofs mean by the size of a set. *)
LEMMA SameSize ==
  /\ \A S : SecondFacts!IsFiniteSet(S) <=> IsFiniteSet(S)
  /\ \A S : SecondFacts!Cardinality(S) = Cardinality(S)
  /\ \A S : MinuteFacts!IsFiniteSet(S) <=> IsFiniteSet(S)
  /\ \A S : MinuteFacts!Cardinality(S) = Cardinality(S)
  /\ \A S : HourFacts!IsFiniteSet(S) <=> IsFiniteSet(S)
  /\ \A S : HourFacts!Cardinality(S) = Cardinality(S)
BY DEF SecondFacts!IsFiniteSet, MinuteFacts!IsFiniteSet, HourFacts!IsFiniteSet, IsFiniteSet,
       SecondFacts!Cardinality, MinuteFacts!Cardinality, HourFacts!Cardinality, Cardinality

(* The operators of the buffers are those RingBufferProofs is about. *)
LEMMA SameSeconds ==
  /\ \A rb, e : Seconds!Push(rb, e) = SecondFacts!Push(rb, e)
  /\ \A rb : Seconds!Size(rb) = SecondFacts!Size(rb)
  /\ \A rb : Seconds!Contents(rb) = SecondFacts!Contents(rb)
  /\ \A rb, i : Seconds!At(rb, i) = SecondFacts!At(rb, i)
  /\ Seconds!Empty = SecondFacts!Empty
BY DEF Seconds!Push, SecondFacts!Push, Seconds!Size, SecondFacts!Size,
       Seconds!Contents, SecondFacts!Contents, Seconds!Stops, SecondFacts!Stops,
       Seconds!At, SecondFacts!At, Seconds!Empty, SecondFacts!Empty

LEMMA SameMinutes ==
  /\ \A rb, e : Minutes!Push(rb, e) = MinuteFacts!Push(rb, e)
  /\ \A rb : Minutes!Size(rb) = MinuteFacts!Size(rb)
  /\ \A rb : Minutes!Contents(rb) = MinuteFacts!Contents(rb)
  /\ \A rb, i : Minutes!At(rb, i) = MinuteFacts!At(rb, i)
  /\ Minutes!Empty = MinuteFacts!Empty
BY DEF Minutes!Push, MinuteFacts!Push, Minutes!Size, MinuteFacts!Size,
       Minutes!Contents, MinuteFacts!Contents, Minutes!Stops, MinuteFacts!Stops,
       Minutes!At, MinuteFacts!At, Minutes!Empty, MinuteFacts!Empty

LEMMA SameHours ==
  /\ \A rb, e : Hours!Push(rb, e) = HourFacts!Push(rb, e)
  /\ \A rb : Hours!Size(rb) = HourFacts!Size(rb)
  /\ \A rb : Hours!Contents(rb) = HourFacts!Contents(rb)
  /\ Hours!Empty = HourFacts!Empty
BY DEF Hours!Push, HourFacts!Push, Hours!Size, HourFacts!Size,
       Hours!Contents, HourFacts!Contents, Hours!Stops, HourFacts!Stops,
       Hours!Empty, HourFacts!Empty

(* What a push leaves in each of them, in these operators. *)
LEMMA SecondsPush ==
  ASSUME NEW rb \in SecondFacts!Buffers, NEW e \in Reading
  PROVE  /\ Seconds!Push(rb, e) \in SecondFacts!Buffers
         /\ Seconds!Size(rb) \in 0..SecondsKept
         /\ Seconds!Size(Seconds!Push(rb, e)) \in 1..SecondsKept
         /\ Seconds!Size(Seconds!Push(rb, e)) =
              IF Seconds!Size(rb) = SecondsKept THEN SecondsKept ELSE Seconds!Size(rb) + 1
         /\ \A k \in 1..Seconds!Size(Seconds!Push(rb, e)) :
              Seconds!Contents(Seconds!Push(rb, e))[k] =
                IF k = Seconds!Size(Seconds!Push(rb, e)) THEN e
                ELSE IF Seconds!Size(rb) = SecondsKept THEN Seconds!Contents(rb)[k + 1]
                     ELSE Seconds!Contents(rb)[k]
<1> DEFINE new == SecondFacts!Push(rb, e)
<1>1. /\ new \in SecondFacts!Buffers
      /\ SecondFacts!Size(new) = IF SecondFacts!Size(rb) = SecondsKept THEN SecondsKept ELSE SecondFacts!Size(rb) + 1
      /\ \A k \in 1..SecondFacts!Size(new) :
           SecondFacts!Contents(new)[k] =
             IF k = SecondFacts!Size(new) THEN e
             ELSE IF SecondFacts!Size(rb) = SecondsKept THEN SecondFacts!Contents(rb)[k + 1]
                  ELSE SecondFacts!Contents(rb)[k]
  BY Constants, SecondFacts!PushKeepsNewest
<1>2. SecondFacts!Size(rb) \in 0..SecondsKept
  BY Constants, SecondFacts!SizeType
<1>3. SecondFacts!Size(new) \in 1..SecondsKept
  BY <1>1, <1>2, Constants
<1>4. Seconds!Push(rb, e) = new
  BY SameSeconds
<1> HIDE DEF new
<1>5. /\ Seconds!Size(rb) = SecondFacts!Size(rb) /\ Seconds!Size(new) = SecondFacts!Size(new)
      /\ Seconds!Contents(rb) = SecondFacts!Contents(rb) /\ Seconds!Contents(new) = SecondFacts!Contents(new)
  BY SameSeconds
<1> QED BY <1>1, <1>2, <1>3, <1>4, <1>5

LEMMA MinutesPush ==
  ASSUME NEW rb \in MinuteFacts!Buffers, NEW e \in MinuteMean
  PROVE  /\ Minutes!Push(rb, e) \in MinuteFacts!Buffers
         /\ Minutes!Size(rb) \in 0..MinutesKept
         /\ Minutes!Size(Minutes!Push(rb, e)) \in 1..MinutesKept
         /\ Minutes!Size(Minutes!Push(rb, e)) =
              IF Minutes!Size(rb) = MinutesKept THEN MinutesKept ELSE Minutes!Size(rb) + 1
         /\ \A k \in 1..Minutes!Size(Minutes!Push(rb, e)) :
              Minutes!Contents(Minutes!Push(rb, e))[k] =
                IF k = Minutes!Size(Minutes!Push(rb, e)) THEN e
                ELSE IF Minutes!Size(rb) = MinutesKept THEN Minutes!Contents(rb)[k + 1]
                     ELSE Minutes!Contents(rb)[k]
<1> DEFINE new == MinuteFacts!Push(rb, e)
<1>1. /\ new \in MinuteFacts!Buffers
      /\ MinuteFacts!Size(new) = IF MinuteFacts!Size(rb) = MinutesKept THEN MinutesKept ELSE MinuteFacts!Size(rb) + 1
      /\ \A k \in 1..MinuteFacts!Size(new) :
           MinuteFacts!Contents(new)[k] =
             IF k = MinuteFacts!Size(new) THEN e
             ELSE IF MinuteFacts!Size(rb) = MinutesKept THEN MinuteFacts!Contents(rb)[k + 1]
                  ELSE MinuteFacts!Contents(rb)[k]
  BY Constants, MinuteFacts!PushKeepsNewest
<1>2. MinuteFacts!Size(rb) \in 0..MinutesKept
  BY Constants, MinuteFacts!SizeType
<1>3. MinuteFacts!Size(new) \in 1..MinutesKept
  BY <1>1, <1>2, Constants
<1>4. Minutes!Push(rb, e) = new
  BY SameMinutes
<1> HIDE DEF new
<1>5. /\ Minutes!Size(rb) = MinuteFacts!Size(rb) /\ Minutes!Size(new) = MinuteFacts!Size(new)
      /\ Minutes!Contents(rb) = MinuteFacts!Contents(rb) /\ Minutes!Contents(new) = MinuteFacts!Contents(new)
  BY SameMinutes
<1> QED BY <1>1, <1>2, <1>3, <1>4, <1>5

LEMMA HoursPush ==
  ASSUME NEW rb \in HourFacts!Buffers, NEW e \in HourMean
  PROVE  /\ Hours!Push(rb, e) \in HourFacts!Buffers
         /\ Hours!Size(rb) \in 0..HoursKept
         /\ Hours!Size(Hours!Push(rb, e)) \in 1..HoursKept
         /\ Hours!Size(Hours!Push(rb, e)) =
              IF Hours!Size(rb) = HoursKept THEN HoursKept ELSE Hours!Size(rb) + 1
         /\ \A k \in 1..Hours!Size(Hours!Push(rb, e)) :
              Hours!Contents(Hours!Push(rb, e))[k] =
                IF k = Hours!Size(Hours!Push(rb, e)) THEN e
                ELSE IF Hours!Size(rb) = HoursKept THEN Hours!Contents(rb)[k + 1]
                     ELSE Hours!Contents(rb)[k]
<1> DEFINE new == HourFacts!Push(rb, e)
<1>1. /\ new \in HourFacts!Buffers
      /\ HourFacts!Size(new) = IF HourFacts!Size(rb) = HoursKept THEN HoursKept ELSE HourFacts!Size(rb) + 1
      /\ \A k \in 1..HourFacts!Size(new) :
           HourFacts!Contents(new)[k] =
             IF k = HourFacts!Size(new) THEN e
             ELSE IF HourFacts!Size(rb) = HoursKept THEN HourFacts!Contents(rb)[k + 1]
                  ELSE HourFacts!Contents(rb)[k]
  BY Constants, HourFacts!PushKeepsNewest
<1>2. HourFacts!Size(rb) \in 0..HoursKept
  BY Constants, HourFacts!SizeType
<1>3. HourFacts!Size(new) \in 1..HoursKept
  BY <1>1, <1>2, Constants
<1>4. Hours!Push(rb, e) = new
  BY SameHours
<1> HIDE DEF new
<1>5. /\ Hours!Size(rb) = HourFacts!Size(rb) /\ Hours!Size(new) = HourFacts!Size(new)
      /\ Hours!Contents(rb) = HourFacts!Contents(rb) /\ Hours!Contents(new) = HourFacts!Contents(new)
  BY SameHours
<1> QED BY <1>1, <1>2, <1>3, <1>4, <1>5

-----------------------------------------------------------------------------
(* Units of time. *)
LEMMA Div ==
  ASSUME NEW c \in Nat \ {0}, NEW x \in Nat
  PROVE  x \div c \in Nat /\ c * (x \div c) <= x /\ x < c * (x \div c) + c
BY SMT

LEMMA DivMonotonic ==
  ASSUME NEW c \in Nat \ {0}, NEW x \in Nat, NEW y \in Nat, x <= y
  PROVE  x \div c <= y \div c
BY SMT

LEMMA DivMultiple ==
  ASSUME NEW c \in Nat \ {0}, NEW q \in Nat
  PROVE  (q * c) \div c = q /\ q * c \in Nat
BY SMT

LEMMA DivTwice ==
  ASSUME NEW c \in Nat \ {0}, NEW d \in Nat \ {0}, NEW x \in Nat
  PROVE  (x \div c) \div d = x \div (c * d) /\ c * d \in Nat \ {0}
BY SMT

LEMMA HourType == Hour \in Nat \ {0} /\ \A q \in Nat : (q * PerMinute) \div Hour = q \div PerHour
<1>1. Hour \in Nat \ {0}
  BY Constants, DivTwice DEF Hour
<1>2. ASSUME NEW q \in Nat PROVE (q * PerMinute) \div Hour = q \div PerHour
  <2>1. (q * PerMinute) \div PerMinute = q /\ q * PerMinute \in Nat
    BY Constants, DivMultiple
  <2> QED BY <2>1, Constants, DivTwice DEF Hour
<1> QED BY <1>1, <1>2

-----------------------------------------------------------------------------
(* What the buffers of a device hold, of the times it was written at.      *)
In(t, unit, times) == {s \in times : s \div unit = t \div unit}
Readings(id, times) == {{<<id, t>>} : t \in times}

SecondsHold(rb, id, times) ==
  /\ SecondFacts!Unwrapped(rb) /\ SecondFacts!KeepsNewest(rb, times)
  /\ \A i \in 1..Seconds!Size(rb) :
       Seconds!Contents(rb)[i].data = {<<id, Seconds!Contents(rb)[i].time>>}

MinutesHold(rb, id, times) ==
  /\ MinuteFacts!Unwrapped(rb) /\ MinuteFacts!KeepsNewest(rb, Over(times, PerMinute))
  /\ \A i \in 1..Minutes!Size(rb) :
       Minutes!Contents(rb)[i].data =
         Readings(id, In(Minutes!Contents(rb)[i].time, PerMinute, times))

MinutesOf(times) == {t \div PerMinute : t \in times}
HourOf(id, t, times) ==
  {Readings(id, In(m * PerMinute, PerMinute, times)) :
     m \in {m \in MinutesOf(In(t, Hour, times)) :
              \E later \in MinutesOf(In(t, Hour, times)) : m < later}}

HoursAverage(rb, id, times) ==
  \A i \in 1..Hours!Size(rb) :
    LET h == Hours!Contents(rb)[i]
    IN /\ h.time \in Nat /\ h.data = HourOf(id, h.time, times) /\ In(h.time, Hour, times) # {}
       /\ \E s \in times : h.time \div Hour < s \div Hour

HoursHold(rb, id, times) ==
  HourFacts!KeepsNewest(rb, OverWithMinutes(times)) /\ HoursAverage(rb, id, times)

(* What the data of a device are made of. *)
Data == [second : SecondFacts!Buffers, minute : MinuteFacts!Buffers, hour : HourFacts!Buffers]

Holds(d, id, times) ==
  SecondsHold(d.second, id, times) /\ MinutesHold(d.minute, id, times)
  /\ HoursHold(d.hour, id, times)

(* A device just given a slot has nothing of the one before. *)
LEMMA FreshHolds ==
  ASSUME NEW id
  PROVE  Fresh \in Data /\ Holds(Fresh, id, {})
<1>1. /\ SecondFacts!Empty \in SecondFacts!Buffers /\ SecondFacts!Unwrapped(SecondFacts!Empty)
      /\ SecondFacts!Size(SecondFacts!Empty) = 0
      /\ SecondFacts!KeepsNewest(SecondFacts!Empty, {})
  BY Constants, SecondFacts!EmptyIsUnwrapped, SecondFacts!EmptyKeepsNewest
<1>2. /\ MinuteFacts!Empty \in MinuteFacts!Buffers /\ MinuteFacts!Unwrapped(MinuteFacts!Empty)
      /\ MinuteFacts!Size(MinuteFacts!Empty) = 0
      /\ MinuteFacts!KeepsNewest(MinuteFacts!Empty, {})
  BY Constants, MinuteFacts!EmptyIsUnwrapped, MinuteFacts!EmptyKeepsNewest
<1>3. /\ HourFacts!Empty \in HourFacts!Buffers /\ HourFacts!Size(HourFacts!Empty) = 0
      /\ HourFacts!KeepsNewest(HourFacts!Empty, {})
  BY Constants, HourFacts!EmptyIsUnwrapped, HourFacts!EmptyKeepsNewest
<1>4. Over({}, PerMinute) = {} /\ OverWithMinutes({}) = {}
  BY DEF Over, OverWithMinutes
<1>5. Fresh \in Data
  BY <1>1, <1>2, <1>3, SameSeconds, SameMinutes, SameHours DEF Fresh, Data
<1>6. SecondsHold(Fresh.second, id, {})
  BY <1>1, SameSeconds DEF Fresh, SecondsHold
<1>7. MinutesHold(Fresh.minute, id, {})
  BY <1>2, <1>4, SameMinutes DEF Fresh, MinutesHold
<1>8. HoursHold(Fresh.hour, id, {})
  BY <1>3, <1>4, SameHours DEF Fresh, HoursHold, HoursAverage
<1> QED BY <1>5, <1>6, <1>7, <1>8 DEF Holds

-----------------------------------------------------------------------------
(* What add_data finds when it looks back through the seconds and minutes. *)
LEMMA SecondsBeforeFirst ==
  ASSUME NEW rb \in SecondFacts!Buffers, NEW i \in 1..SecondsKept
  PROVE  /\ Seconds!At(rb, -i) \in Reading
         /\ SecondFacts!Unwrapped(rb) /\ Seconds!Size(rb) < i => Seconds!At(rb, -i) = Zero
<1>1. SecondFacts!At(rb, -i) \in Reading
  BY Constants, SecondFacts!BackType
<1>2. SecondFacts!Unwrapped(rb) /\ SecondFacts!Size(rb) < i => SecondFacts!At(rb, -i) = Zero
  BY Constants, SecondFacts!BeforeFirst
<1>3. Seconds!Size(rb) = SecondFacts!Size(rb) /\ Seconds!At(rb, -i) = SecondFacts!At(rb, -i)
  BY SameSeconds
<1> QED BY <1>1, <1>2, <1>3

LEMMA SecondsBack ==
  ASSUME NEW rb \in SecondFacts!Buffers, NEW times \in SUBSET Nat, IsFiniteSet(times),
         SecondFacts!KeepsNewest(rb, times)
  PROVE  /\ Seconds!Size(rb) =
              IF Cardinality(times) < SecondsKept THEN Cardinality(times) ELSE SecondsKept
         /\ \A i \in 1..Seconds!Size(rb) :
              /\ Seconds!At(rb, -i) = Seconds!Contents(rb)[Seconds!Size(rb) + 1 - i]
              /\ Seconds!At(rb, -i).time \in times
         /\ Seconds!Size(rb) > 0 => \A s \in times : s <= Seconds!At(rb, -1).time
         /\ \A t \in times : Cardinality(SecondFacts!After(t, times)) < Seconds!Size(rb)
              => Seconds!At(rb, -(Cardinality(SecondFacts!After(t, times)) + 1)).time = t
<1>1. /\ \A i \in 1..SecondFacts!Size(rb) :
           /\ SecondFacts!At(rb, -i) = SecondFacts!Contents(rb)[SecondFacts!Size(rb) + 1 - i]
           /\ SecondFacts!At(rb, -i).time \in times
      /\ SecondFacts!Size(rb) > 0 => \A s \in times : s <= SecondFacts!At(rb, -1).time
      /\ \A t \in times : SecondFacts!Cardinality(SecondFacts!After(t, times)) < SecondFacts!Size(rb)
           => SecondFacts!At(rb, -(SecondFacts!Cardinality(SecondFacts!After(t, times)) + 1)).time = t
  <2>1. SecondFacts!IsFiniteSet(times)
    BY SameSize
  <2> QED BY <2>1, Constants, SecondFacts!BackThroughTimes
<1>2. SecondFacts!Size(rb) = IF Cardinality(times) < SecondsKept THEN Cardinality(times) ELSE SecondsKept
  BY SameSize DEF SecondFacts!KeepsNewest
<1>3. /\ Seconds!Size(rb) = SecondFacts!Size(rb) /\ Seconds!Contents(rb) = SecondFacts!Contents(rb)
      /\ \A i : Seconds!At(rb, i) = SecondFacts!At(rb, i)
  BY SameSeconds
<1> QED BY <1>1, <1>2, <1>3, SameSize

LEMMA MinutesBeforeFirst ==
  ASSUME NEW rb \in MinuteFacts!Buffers, NEW i \in 1..MinutesKept
  PROVE  /\ Minutes!At(rb, -i) \in MinuteMean
         /\ MinuteFacts!Unwrapped(rb) /\ Minutes!Size(rb) < i => Minutes!At(rb, -i) = Zero
<1>1. MinuteFacts!At(rb, -i) \in MinuteMean
  BY Constants, MinuteFacts!BackType
<1>2. MinuteFacts!Unwrapped(rb) /\ MinuteFacts!Size(rb) < i => MinuteFacts!At(rb, -i) = Zero
  BY Constants, MinuteFacts!BeforeFirst
<1>3. Minutes!Size(rb) = MinuteFacts!Size(rb) /\ Minutes!At(rb, -i) = MinuteFacts!At(rb, -i)
  BY SameMinutes
<1> QED BY <1>1, <1>2, <1>3

LEMMA MinutesBack ==
  ASSUME NEW rb \in MinuteFacts!Buffers, NEW times \in SUBSET Nat, IsFiniteSet(times),
         MinuteFacts!KeepsNewest(rb, times)
  PROVE  /\ Minutes!Size(rb) =
              IF Cardinality(times) < MinutesKept THEN Cardinality(times) ELSE MinutesKept
         /\ \A i \in 1..Minutes!Size(rb) :
              /\ Minutes!At(rb, -i) = Minutes!Contents(rb)[Minutes!Size(rb) + 1 - i]
              /\ Minutes!At(rb, -i).time \in times
         /\ Minutes!Size(rb) > 0 => \A s \in times : s <= Minutes!At(rb, -1).time
         /\ \A t \in times : Cardinality(MinuteFacts!After(t, times)) < Minutes!Size(rb)
              => Minutes!At(rb, -(Cardinality(MinuteFacts!After(t, times)) + 1)).time = t
<1>1. /\ \A i \in 1..MinuteFacts!Size(rb) :
           /\ MinuteFacts!At(rb, -i) = MinuteFacts!Contents(rb)[MinuteFacts!Size(rb) + 1 - i]
           /\ MinuteFacts!At(rb, -i).time \in times
      /\ MinuteFacts!Size(rb) > 0 => \A s \in times : s <= MinuteFacts!At(rb, -1).time
      /\ \A t \in times : MinuteFacts!Cardinality(MinuteFacts!After(t, times)) < MinuteFacts!Size(rb)
           => MinuteFacts!At(rb, -(MinuteFacts!Cardinality(MinuteFacts!After(t, times)) + 1)).time = t
  <2>1. MinuteFacts!IsFiniteSet(times)
    BY SameSize
  <2> QED BY <2>1, Constants, MinuteFacts!BackThroughTimes
<1>2. MinuteFacts!Size(rb) = IF Cardinality(times) < MinutesKept THEN Cardinality(times) ELSE MinutesKept
  BY SameSize DEF MinuteFacts!KeepsNewest
<1>3. /\ Minutes!Size(rb) = MinuteFacts!Size(rb) /\ Minutes!Contents(rb) = MinuteFacts!Contents(rb)
      /\ \A i : Minutes!At(rb, i) = MinuteFacts!At(rb, i)
  BY SameMinutes
<1> QED BY <1>1, <1>2, <1>3, SameSize

(* The times a device is written at: no unit of them is 0. *)
Recorded(times) == times \in SUBSET Nat /\ IsFiniteSet(times) /\ \A s \in times : Hour <= s

(* The newest second is the last one written. *)
LEMMA LastSecond ==
  ASSUME NEW d \in Data, NEW id, NEW times, Recorded(times), SecondsHold(d.second, id, times)
  PROVE  /\ Seconds!Size(d.second) > 0 <=> times # {}
         /\ times # {} => /\ Seconds!At(d.second, -1).time \in times
                          /\ \A s \in times : s <= Seconds!At(d.second, -1).time
<1> DEFINE rb == d.second
<1>1. rb \in SecondFacts!Buffers
  BY DEF Data
<1>2. /\ Seconds!Size(rb) =
           IF Cardinality(times) < SecondsKept THEN Cardinality(times) ELSE SecondsKept
      /\ \A i \in 1..Seconds!Size(rb) : Seconds!At(rb, -i).time \in times
      /\ Seconds!Size(rb) > 0 => \A s \in times : s <= Seconds!At(rb, -1).time
  BY <1>1, SecondsBack DEF SecondsHold, Recorded
<1>3. Cardinality(times) \in Nat /\ (Cardinality(times) = 0 <=> times = {})
  BY FS_CardinalityType, FS_EmptySet DEF Recorded
<1>4. Seconds!Size(rb) \in Nat /\ (Seconds!Size(rb) > 0 <=> times # {})
  BY <1>2, <1>3, Constants
<1>5. times # {} => 1 \in 1..Seconds!Size(rb)
  BY <1>4
<1> QED BY <1>2, <1>4, <1>5

(* Before the last second of a minute that is over there is room for all   *)
(* others of it in what add_data looks at.                                 *)
LEMMA FewAfter ==
  ASSUME NEW times, Recorded(times), NEW t \in times, NEW last \in times,
         \A s \in times : s <= last, t \div PerMinute = last \div PerMinute
  PROVE  Cardinality(SecondFacts!After(t, times)) \in 0..(PerMinute - 1)
<1> DEFINE later == SecondFacts!After(t, times)
           unit == PerMinute * (last \div PerMinute)
<1>1. t \in Nat /\ last \in Nat /\ PerMinute \in Nat \ {0}
  BY Constants DEF Recorded
<1>2. unit \in Nat /\ unit <= t /\ last < unit + PerMinute
  BY <1>1, Div
<1> HIDE DEF unit
<1>3. later \in SUBSET ((t + 1)..(unit + PerMinute - 1))
  <2>1. ASSUME NEW s \in later PROVE s \in (t + 1)..(unit + PerMinute - 1)
    <3>1. s \in times /\ s > t
      BY DEF SecondFacts!After
    <3>2. s \in Nat /\ s <= last
      BY <3>1 DEF Recorded
    <3> QED BY <1>1, <1>2, <3>1, <3>2
  <2> QED BY <2>1
<1>4. /\ IsFiniteSet((t + 1)..(unit + PerMinute - 1))
      /\ Cardinality((t + 1)..(unit + PerMinute - 1)) <= PerMinute - 1
  <2> DEFINE a == t + 1
             b == unit + PerMinute - 1
  <2>1. a \in Int /\ b \in Int /\ b - a + 1 <= PerMinute - 1 /\ 0 <= PerMinute - 1
    BY <1>1, <1>2
  <2> HIDE DEF a, b
  <2>2. IsFiniteSet(a..b) /\ Cardinality(a..b) = IF a > b THEN 0 ELSE b - a + 1
    BY <2>1, FS_Interval
  <2>3. Cardinality(a..b) <= PerMinute - 1
    BY <2>1, <2>2
  <2> QED BY <2>2, <2>3 DEF a, b
<1>5. Cardinality(later) <= Cardinality((t + 1)..(unit + PerMinute - 1)) /\ IsFiniteSet(later)
  BY <1>3, <1>4, FS_Subset
<1>6. Cardinality(later) \in Nat /\ Cardinality((t + 1)..(unit + PerMinute - 1)) \in Nat
  BY <1>4, <1>5, FS_CardinalityType
<1> QED BY <1>1, <1>4, <1>5, <1>6

(* The average of a minute that is over is that of all its seconds.        *)
LEMMA AveragesSeconds ==
  ASSUME NEW d \in Data, NEW id, NEW times, Recorded(times), times # {},
         SecondsHold(d.second, id, times)
  PROVE  LET prev == Seconds!At(d.second, -1).time \div PerMinute
             entries == {Seconds!At(d.second, i) : i \in -PerMinute..-1}
         IN {e.data : e \in {e \in entries : e.time \div PerMinute = prev}}
              = Readings(id, {s \in times : s \div PerMinute = prev})
<1> DEFINE rb == d.second
           last == Seconds!At(rb, -1).time
           prev == last \div PerMinute
           entries == {Seconds!At(rb, i) : i \in -PerMinute..-1}
           z == Seconds!Size(rb)
<1>1. rb \in SecondFacts!Buffers
  BY DEF Data
<1>2. /\ z = IF Cardinality(times) < SecondsKept THEN Cardinality(times) ELSE SecondsKept
      /\ \A i \in 1..SecondsKept : z < i => Seconds!At(rb, -i) = Zero
      /\ \A i \in 1..z : /\ Seconds!At(rb, -i) = Seconds!Contents(rb)[z + 1 - i]
                         /\ Seconds!At(rb, -i).time \in times
      /\ \A t \in times : Cardinality(SecondFacts!After(t, times)) < z
           => Seconds!At(rb, -(Cardinality(SecondFacts!After(t, times)) + 1)).time = t
  <2>1. SecondFacts!Unwrapped(rb) /\ SecondFacts!KeepsNewest(rb, times)
    BY DEF SecondsHold
  <2>2. times \in SUBSET Nat /\ IsFiniteSet(times)
    BY DEF Recorded
  <2> HIDE DEF rb
  <2>3. z = IF Cardinality(times) < SecondsKept THEN Cardinality(times) ELSE SecondsKept
    BY <1>1, <2>1, <2>2, SecondsBack
  <2>4. \A i \in 1..SecondsKept : z < i => Seconds!At(rb, -i) = Zero
    BY <1>1, <2>1, SecondsBeforeFirst
  <2>5. \A i \in 1..z : /\ Seconds!At(rb, -i) = Seconds!Contents(rb)[z + 1 - i]
                        /\ Seconds!At(rb, -i).time \in times
    BY <1>1, <2>1, <2>2, SecondsBack
  <2>6. \A t \in times : Cardinality(SecondFacts!After(t, times)) < z
          => Seconds!At(rb, -(Cardinality(SecondFacts!After(t, times)) + 1)).time = t
    BY <1>1, <2>1, <2>2, SecondsBack
  <2> QED BY <2>3, <2>4, <2>5, <2>6
<1>3. last \in times /\ \A s \in times : s <= last
  BY LastSecond
<1>4. Cardinality(times) \in Nat
  BY FS_CardinalityType DEF Recorded
<1>5. z \in 0..SecondsKept
  BY <1>2, <1>4, Constants
<1>6. \A i \in 1..z : Seconds!Contents(rb)[i].data = {<<id, Seconds!Contents(rb)[i].time>>}
  BY DEF SecondsHold
<1>7. \A i \in 1..z : Seconds!At(rb, -i).data = {<<id, Seconds!At(rb, -i).time>>}
  <2>1. \A i \in 1..z : z + 1 - i \in 1..z
    BY <1>5, Constants
  <2> QED BY <1>2, <1>6, <2>1
<1>8. prev \in Nat /\ prev # 0
  <2>1. last \in Nat /\ PerMinute \in Nat \ {0} /\ PerMinute <= last
    <3>1. PerMinute <= Hour
      BY Constants, SMT DEF Hour
    <3>2. last \in Nat /\ Hour <= last
      BY <1>3 DEF Recorded
    <3> HIDE DEF last
    <3> QED BY <3>1, <3>2, Constants, HourType
  <2>2. PerMinute \div PerMinute = 1
    BY Constants, SMT
  <2>3. PerMinute \div PerMinute <= prev /\ prev \in Nat
    BY <2>1, Div, DivMonotonic
  <2> QED BY <2>2, <2>3
<1> HIDE DEF z, rb, last, prev
<1>9. ASSUME NEW e \in entries, e.time \div PerMinute = prev
      PROVE  e.time \in times /\ e.data = {<<id, e.time>>}
  <2>1. PICK i \in 1..PerMinute : e = Seconds!At(rb, -i)
    <3>1. PICK j \in -PerMinute..-1 : e = Seconds!At(rb, j)
      OBVIOUS
    <3>2. -j \in 1..PerMinute /\ -(-j) = j
      BY Constants
    <3> QED BY <3>1, <3>2
  <2>2. i \in 1..SecondsKept
    BY Constants
  <2>3. i \in 1..z
    <3> SUFFICES ASSUME z < i PROVE FALSE
      BY <1>5, <2>2, Constants
    <3>1. e.time = 0
      BY <1>2, <2>1, <2>2 DEF Zero
    <3>2. 0 \div PerMinute = 0
      BY Constants, SMT
    <3> QED BY <1>8, <1>9, <3>1, <3>2
  <2> QED BY <1>2, <1>7, <2>1, <2>3
<1>10. ASSUME NEW t \in times, t \div PerMinute = prev
       PROVE  \E e \in entries : e.time = t
  <2> DEFINE c == Cardinality(SecondFacts!After(t, times))
  <2>1. c \in 0..(PerMinute - 1)
    BY <1>3, <1>10, FewAfter DEF prev
  <2>2. c \in 0..(Cardinality(times) - 1)
    BY SecondFacts!AfterOrder, SameSize DEF Recorded
  <2> HIDE DEF c
  <2>3. c < z
    BY <1>2, <1>4, <2>1, <2>2, Constants
  <2>4. Seconds!At(rb, -(c + 1)).time = t
    BY <1>2, <2>3 DEF c
  <2>5. -(c + 1) \in -PerMinute..-1
    BY <2>1, Constants
  <2> QED BY <2>4, <2>5
<1>11. {e.data : e \in {e \in entries : e.time \div PerMinute = prev}}
         = Readings(id, {s \in times : s \div PerMinute = prev})
  <2>1. ASSUME NEW e \in entries, e.time \div PerMinute = prev
        PROVE  e.data \in Readings(id, {s \in times : s \div PerMinute = prev})
    BY <1>9, <2>1 DEF Readings
  <2>2. ASSUME NEW t \in times, t \div PerMinute = prev
        PROVE  \E e \in {e \in entries : e.time \div PerMinute = prev} : e.data = {<<id, t>>}
    <3>1. PICK e \in entries : e.time = t
      BY <1>10, <2>2
    <3>2. e.data = {<<id, t>>}
      BY <1>9, <2>2, <3>1
    <3> QED BY <2>2, <3>1, <3>2
  <2> HIDE DEF entries
  <2> QED BY <2>1, <2>2 DEF Readings
<1> QED BY <1>11 DEF rb, last, prev


-----------------------------------------------------------------------------
(* What one more time, later than all the others, changes.                 *)
LEMMA RecordedStep ==
  ASSUME NEW times, Recorded(times), NEW now \in Nat, Hour <= now
  PROVE  Recorded(times \cup {now})
BY FS_AddElement DEF Recorded

(* The units that are over are those before the last one. *)
LEMMA UnitsOver ==
  ASSUME NEW unit \in Nat \ {0}, NEW times \in SUBSET Nat,
         NEW last \in times, \A s \in times : s <= last
  PROVE  Over(times, unit) =
           {(t \div unit) * unit : t \in {t \in times : t \div unit < last \div unit}}
<1>1. ASSUME NEW t \in times
      PROVE  (\E s \in times : t \div unit < s \div unit) <=> t \div unit < last \div unit
  <2>1. ASSUME NEW s \in times, t \div unit < s \div unit
        PROVE  t \div unit < last \div unit
    <3>1. s \in Nat /\ t \in Nat /\ last \in Nat /\ s <= last
      OBVIOUS
    <3>2. /\ s \div unit <= last \div unit
          /\ s \div unit \in Nat /\ t \div unit \in Nat /\ last \div unit \in Nat
      BY <3>1, Div, DivMonotonic
    <3> QED BY <2>1, <3>2
  <2> QED BY <2>1
<1>2. {t \in times : \E s \in times : t \div unit < s \div unit}
        = {t \in times : t \div unit < last \div unit}
  BY <1>1
<1> QED BY <1>2 DEF Over

LEMMA OverType ==
  ASSUME NEW unit \in Nat \ {0}, NEW times \in SUBSET Nat, NEW now \in Nat,
         \A s \in times : s < now
  PROVE  Over(times, unit) \in SUBSET Nat /\ IsFiniteSet(Over(times, unit))
<1>1. ASSUME NEW m \in Over(times, unit) PROVE m \in Nat /\ m <= now
  <2>1. PICK t \in times : m = (t \div unit) * unit
    BY DEF Over
  <2>2. t \in Nat /\ t < now
    OBVIOUS
  <2> QED BY <2>1, <2>2, Div, DivMultiple, SMT
<1> QED BY <1>1, FS_BoundedSetOfNaturals

(* A unit of time is over when the first value of another is written. *)
LEMMA OverStep ==
  ASSUME NEW unit \in Nat \ {0}, NEW times \in SUBSET Nat,
         NEW last \in times, \A s \in times : s <= last,
         NEW now \in Nat, \A s \in times : s < now
  PROVE  /\ last \div unit \in Nat /\ now \div unit \in Nat
         /\ last \div unit <= now \div unit
         /\ last \div unit = now \div unit => Over(times \cup {now}, unit) = Over(times, unit)
         /\ last \div unit # now \div unit
              => /\ Over(times \cup {now}, unit) = Over(times, unit) \cup {(last \div unit) * unit}
                 /\ \A m \in Over(times, unit) : m < (last \div unit) * unit
<1> DEFINE D(t) == t \div unit
           more == times \cup {now}
<1>1. last \in Nat /\ last < now
  OBVIOUS
<1>2. D(last) \in Nat /\ D(now) \in Nat /\ D(last) <= D(now)
  BY <1>1, Div, DivMonotonic
<1>3. ASSUME NEW t \in times PROVE D(t) \in Nat /\ D(t) <= D(last)
  BY <1>1, Div, DivMonotonic
<1>4. Over(times, unit) = {D(t) * unit : t \in {t \in times : D(t) < D(last)}}
  BY UnitsOver
<1>5. Over(more, unit) = {D(t) * unit : t \in {t \in more : D(t) < D(now)}}
  <2>1. more \in SUBSET Nat /\ now \in more /\ \A s \in more : s <= now
    BY <1>1
  <2> QED BY <2>1, UnitsOver
<1> HIDE DEF D
<1>6. {t \in more : D(t) < D(now)} = {t \in times : D(t) < D(now)}
  BY <1>2
<1>7. CASE D(last) = D(now)
  BY <1>2, <1>4, <1>5, <1>6, <1>7 DEF D
<1>8. CASE D(last) # D(now)
  <2>0. \A t \in times : D(t) < D(now)
    BY <1>2, <1>3, <1>8
  <2>1. {t \in times : D(t) < D(now)} = times
    BY <2>0
  <2>2. Over(more, unit) = {D(t) * unit : t \in times}
    BY <1>5, <1>6, <2>1
  <2>3. ASSUME NEW t \in times
        PROVE  D(t) * unit \in Over(times, unit) \cup {D(last) * unit}
    <3>1. CASE D(t) = D(last)
      BY <3>1
    <3>2. CASE D(t) # D(last)
      <4>1. D(t) < D(last)
        BY <1>2, <1>3, <3>2
      <4> QED BY <1>4, <4>1
    <3> QED BY <3>1, <3>2
  <2>4. Over(times, unit) \cup {D(last) * unit} \subseteq Over(more, unit)
    BY <1>4, <2>2
  <2>5. Over(more, unit) = Over(times, unit) \cup {D(last) * unit}
    BY <2>2, <2>3, <2>4
  <2>6. ASSUME NEW m \in Over(times, unit) PROVE m < D(last) * unit
    <3>1. PICK t \in times : D(t) < D(last) /\ m = D(t) * unit
      BY <1>4
    <3>2. D(t) \in Nat
      BY <1>3
    <3> QED BY <1>1, <1>2, <3>1, <3>2, SMT
  <2> QED BY <1>2, <1>8, <2>5, <2>6 DEF D
<1> QED BY <1>7, <1>8

(* With the last value of an hour it is known whether the hour is passed   *)
(* over: it is if no minute was over before.                               *)
LEMMA OverWithMinutesStep ==
  ASSUME NEW times, Recorded(times), NEW last \in times, \A s \in times : s <= last,
         NEW now \in Nat, \A s \in times : s < now
  PROVE  /\ last \div Hour = now \div Hour
              => OverWithMinutes(times \cup {now}) = OverWithMinutes(times)
         /\ last \div Hour # now \div Hour
              => /\ OverWithMinutes(times \cup {now}) =
                      OverWithMinutes(times)
                        \cup (IF Over(times, PerMinute) = {} THEN {} ELSE {(last \div Hour) * Hour})
                 /\ \A h \in OverWithMinutes(times) : h < (last \div Hour) * Hour
<1> DEFINE M(t) == t \div PerMinute
           H(t) == t \div Hour
           Two(h, all) == \E a, b \in all : M(a) < M(b) /\ H(b) <= H(h)
           more == times \cup {now}
           new == H(last) * Hour
<1>1. times \in SUBSET Nat /\ Hour \in Nat \ {0} /\ PerMinute \in Nat \ {0} /\ last \in Nat
  BY Constants, HourType DEF Recorded
<1>2. \A t \in more : M(t) \in Nat /\ M(t) <= M(now) /\ H(t) \in Nat /\ H(t) <= H(now)
  <2>1. \A t \in more : t \in Nat /\ t <= now
    BY <1>1
  <2> QED BY <1>1, <2>1, Div, DivMonotonic
<1>3. \A t \in times : H(t) <= H(last)
  BY <1>1, DivMonotonic
<1>4. \A all : OverWithMinutes(all) = {h \in Over(all, Hour) : Two(h, all)}
  BY DEF OverWithMinutes
<1>5. \A h \in Over(times, Hour) \cup Over(more, Hour) : H(h) \in Nat /\ H(h) < H(now)
  <2>1. ASSUME NEW h, NEW t \in more, NEW s \in more, H(t) < H(s), h = H(t) * Hour
        PROVE  H(h) \in Nat /\ H(h) < H(now)
    <3>1. H(h) = H(t)
      BY <1>1, <1>2, <2>1, DivMultiple
    <3> HIDE DEF H
    <3> QED BY <1>2, <2>1, <3>1
  <2> QED BY <2>1 DEF Over
<1>6. /\ H(last) = H(now) => Over(more, Hour) = Over(times, Hour)
      /\ H(last) # H(now) => /\ Over(more, Hour) = Over(times, Hour) \cup {new}
                             /\ \A h \in Over(times, Hour) : h < new
  BY <1>1, OverStep
<1>7. H(new) = H(last)
  BY <1>1, <1>2, DivMultiple
<1>8. Over(times, PerMinute) # {} <=> \E a, b \in times : M(a) < M(b)
  BY DEF Over
<1> HIDE DEF M, H, new
<1>9. ASSUME NEW h, H(h) \in Nat, H(h) < H(now) PROVE Two(h, more) <=> Two(h, times)
  <2>1. ASSUME NEW a \in more, NEW b \in more, M(a) < M(b), H(b) <= H(h)
        PROVE  a \in times /\ b \in times
    <3>1. b # now
      <4> SUFFICES ASSUME b = now PROVE FALSE
        OBVIOUS
      <4>1. H(now) \in Nat /\ H(h) < H(now) /\ H(now) <= H(h)
        BY <1>2, <1>9, <2>1
      <4> QED BY <1>9, <4>1
    <3>2. a # now
      BY <1>2, <2>1
    <3> QED BY <3>1, <3>2
  <2> QED BY <2>1
<1>10. Two(new, times) <=> Over(times, PerMinute) # {}
  BY <1>3, <1>7, <1>8
<1> HIDE DEF Two
<1>11. CASE H(last) = H(now)
  BY <1>4, <1>5, <1>6, <1>9, <1>11 DEF H
<1>12. CASE H(last) # H(now)
  <2>1. H(new) \in Nat /\ H(new) < H(now)
    BY <1>2, <1>7, <1>12
  <2>2. OverWithMinutes(more) =
          OverWithMinutes(times) \cup (IF Over(times, PerMinute) = {} THEN {} ELSE {new})
    <3>1. \A h \in Over(times, Hour) \cup {new} : Two(h, more) <=> Two(h, times)
      BY <1>5, <1>9, <2>1
    <3>2. OverWithMinutes(more) = {h \in Over(times, Hour) \cup {new} : Two(h, times)}
      BY <1>4, <1>6, <1>12, <3>1
    <3> QED BY <1>4, <1>10, <3>2
  <2>3. \A h \in OverWithMinutes(times) : h < new
    BY <1>4, <1>6, <1>12
  <2> QED BY <1>12, <2>2, <2>3 DEF H, new
<1> QED BY <1>11, <1>12 DEF H

-----------------------------------------------------------------------------
(* add_data, buffer by buffer.                                             *)
Value(id, now) == [data |-> {<<id, now>>}, time |-> now]

LEMMA SecondsStep ==
  ASSUME NEW rb \in SecondFacts!Buffers, NEW id \in Ids, NEW times, Recorded(times),
         NEW now \in Nat, \A s \in times : s < now, SecondsHold(rb, id, times)
  PROVE  /\ Seconds!Push(rb, Value(id, now)) \in SecondFacts!Buffers
         /\ SecondsHold(Seconds!Push(rb, Value(id, now)), id, times \cup {now})
<1> DEFINE e == Value(id, now)
           new == Seconds!Push(rb, e)
<1>1. e \in Reading /\ e.time = now /\ e.data = {<<id, now>>}
  BY DEF Reading, Value
<1>2. times \in SUBSET Nat /\ SecondFacts!IsFiniteSet(times)
  BY SameSize DEF Recorded
<1> HIDE DEF e
<1>3. SecondFacts!KeepsNewest(rb, times) /\ SecondFacts!Unwrapped(rb)
      /\ \A i \in 1..Seconds!Size(rb) :
           Seconds!Contents(rb)[i].data = {<<id, Seconds!Contents(rb)[i].time>>}
  BY DEF SecondsHold
<1>4. SecondFacts!KeepsNewest(SecondFacts!Push(rb, e), times \cup {now})
  BY <1>1, <1>2, <1>3, Constants, SecondFacts!PushKeepsNewestTimes
<1>5. SecondFacts!Unwrapped(SecondFacts!Push(rb, e))
  BY <1>1, <1>3, Constants, SecondFacts!PushKeepsUnwrapped
<1>6. new = SecondFacts!Push(rb, e)
  BY SameSeconds
<1>7. /\ new \in SecondFacts!Buffers
      /\ Seconds!Size(rb) \in 0..SecondsKept /\ Seconds!Size(new) \in 1..SecondsKept
      /\ Seconds!Size(new) =
           IF Seconds!Size(rb) = SecondsKept THEN SecondsKept ELSE Seconds!Size(rb) + 1
      /\ \A k \in 1..Seconds!Size(new) :
           Seconds!Contents(new)[k] =
             IF k = Seconds!Size(new) THEN e
             ELSE IF Seconds!Size(rb) = SecondsKept THEN Seconds!Contents(rb)[k + 1]
                  ELSE Seconds!Contents(rb)[k]
  BY <1>1, SecondsPush
<1> HIDE DEF new
<1>8. ASSUME NEW k \in 1..Seconds!Size(new)
      PROVE  Seconds!Contents(new)[k].data = {<<id, Seconds!Contents(new)[k].time>>}
  <2>1. CASE k = Seconds!Size(new)
    BY <1>1, <1>7, <2>1
  <2>2. CASE k # Seconds!Size(new)
    <3> DEFINE i == IF Seconds!Size(rb) = SecondsKept THEN k + 1 ELSE k
    <3>1. i \in 1..Seconds!Size(rb)
      BY <1>7, <2>2, Constants
    <3>2. Seconds!Contents(new)[k] = Seconds!Contents(rb)[i]
      BY <1>7, <2>2
    <3> QED BY <1>3, <3>1, <3>2
  <2> QED BY <2>1, <2>2
<1> QED BY <1>4, <1>5, <1>6, <1>7, <1>8 DEF SecondsHold, new, e

(* The times of the minutes a buffer holds are those of minutes that are   *)
(* over.                                                                   *)
LEMMA HeldMinutes ==
  ASSUME NEW rb, NEW id, NEW times, MinutesHold(rb, id, times)
  PROVE  \A i \in 1..Minutes!Size(rb) :
           /\ Minutes!Contents(rb)[i].time \in Over(times, PerMinute)
           /\ Minutes!Contents(rb)[i].data =
                Readings(id, In(Minutes!Contents(rb)[i].time, PerMinute, times))
<1>1. Minutes!Size(rb) = MinuteFacts!Size(rb) /\ Minutes!Contents(rb) = MinuteFacts!Contents(rb)
  BY SameMinutes
<1>2. \A i \in 1..MinuteFacts!Size(rb) : MinuteFacts!Contents(rb)[i].time \in Over(times, PerMinute)
  BY DEF MinutesHold, MinuteFacts!KeepsNewest
<1> QED BY <1>1, <1>2 DEF MinutesHold

(* A minute that is over has a later one. *)
LEMMA OverMinute ==
  ASSUME NEW times, Recorded(times), NEW m \in Over(times, PerMinute)
  PROVE  \E t \in times, s \in times :
           /\ m = (t \div PerMinute) * PerMinute /\ m \div PerMinute = t \div PerMinute
           /\ m \in Nat /\ t \div PerMinute \in Nat
           /\ m \div PerMinute < s \div PerMinute
<1>1. PICK t \in times, s \in times :
        m = (t \div PerMinute) * PerMinute /\ t \div PerMinute < s \div PerMinute
  BY DEF Over
<1>2. t \div PerMinute \in Nat
  BY Constants, Div DEF Recorded
<1>3. m \div PerMinute = t \div PerMinute /\ m \in Nat
  BY <1>1, <1>2, Constants, DivMultiple
<1> QED BY <1>1, <1>2, <1>3

(* A minute that is over gets no more values. *)
LEMMA OldMinute ==
  ASSUME NEW times, Recorded(times), NEW now \in Nat, \A s \in times : s < now,
         NEW m \in Over(times, PerMinute)
  PROVE  In(m, PerMinute, times \cup {now}) = In(m, PerMinute, times)
<1>1. PICK s \in times : m \div PerMinute \in Nat /\ m \div PerMinute < s \div PerMinute
  BY OverMinute
<1>2. s \div PerMinute \in Nat /\ now \div PerMinute \in Nat
      /\ s \div PerMinute <= now \div PerMinute
  BY Constants, Div, DivMonotonic DEF Recorded
<1>3. m \div PerMinute # now \div PerMinute
  BY <1>1, <1>2
<1> QED BY <1>3 DEF In

(* While its minute goes on, nothing changes. *)
LEMMA MinuteGoesOn ==
  ASSUME NEW rb, NEW id \in Ids, NEW times, Recorded(times), NEW now \in Nat,
         \A s \in times : s < now, MinutesHold(rb, id, times),
         Over(times \cup {now}, PerMinute) = Over(times, PerMinute)
  PROVE  MinutesHold(rb, id, times \cup {now})
<1>1. ASSUME NEW i \in 1..Minutes!Size(rb)
      PROVE  Minutes!Contents(rb)[i].data =
               Readings(id, In(Minutes!Contents(rb)[i].time, PerMinute, times \cup {now}))
  <2> DEFINE m == Minutes!Contents(rb)[i].time
  <2>1. m \in Over(times, PerMinute)
        /\ Minutes!Contents(rb)[i].data = Readings(id, In(m, PerMinute, times))
    BY HeldMinutes
  <2> HIDE DEF m
  <2>2. In(m, PerMinute, times \cup {now}) = In(m, PerMinute, times)
    BY <2>1, OldMinute
  <2> QED BY <2>1, <2>2 DEF m
<1> QED BY <1>1 DEF MinutesHold

(* When its minute is over, the average of it is the newest. *)
LEMMA MinuteIsOver ==
  ASSUME NEW rb \in MinuteFacts!Buffers, NEW id \in Ids, NEW times, Recorded(times),
         NEW last \in times, \A s \in times : s <= last,
         NEW now \in Nat, Hour <= now, \A s \in times : s < now, MinutesHold(rb, id, times),
         last \div PerMinute # now \div PerMinute,
         NEW e \in MinuteMean, e.time = (last \div PerMinute) * PerMinute,
         e.data = Readings(id, {s \in times : s \div PerMinute = last \div PerMinute})
  PROVE  /\ Minutes!Push(rb, e) \in MinuteFacts!Buffers
         /\ MinutesHold(Minutes!Push(rb, e), id, times \cup {now})
<1> DEFINE new == Minutes!Push(rb, e)
           prev == last \div PerMinute
           more == times \cup {now}
<1>1. /\ prev \in Nat /\ now \div PerMinute \in Nat /\ prev <= now \div PerMinute
      /\ Over(more, PerMinute) = Over(times, PerMinute) \cup {prev * PerMinute}
      /\ \A m \in Over(times, PerMinute) : m < prev * PerMinute
  <2>1. times \in SUBSET Nat /\ PerMinute \in Nat \ {0}
    BY Constants DEF Recorded
  <2>2. /\ last \div PerMinute \in Nat /\ now \div PerMinute \in Nat
        /\ last \div PerMinute <= now \div PerMinute
        /\ last \div PerMinute # now \div PerMinute =>
             /\ Over(times \cup {now}, PerMinute)
                  = Over(times, PerMinute) \cup {(last \div PerMinute) * PerMinute}
             /\ \A m \in Over(times, PerMinute) : m < (last \div PerMinute) * PerMinute
    BY <2>1, OverStep
  <2> QED BY <2>2
<1>2. e.time = prev * PerMinute /\ e.time \in Nat /\ e.time \div PerMinute = prev
  BY <1>1, Constants, DivMultiple
<1>3. Over(times, PerMinute) \in SUBSET Nat /\ MinuteFacts!IsFiniteSet(Over(times, PerMinute))
  BY Constants, OverType, SameSize DEF Recorded
<1>4. MinuteFacts!KeepsNewest(rb, Over(times, PerMinute)) /\ MinuteFacts!Unwrapped(rb)
  BY DEF MinutesHold
<1> HIDE DEF prev
<1>5. MinuteFacts!KeepsNewest(MinuteFacts!Push(rb, e), Over(times, PerMinute) \cup {e.time})
  BY <1>1, <1>2, <1>3, <1>4, Constants, MinuteFacts!PushKeepsNewestTimes
<1>6. MinuteFacts!Unwrapped(MinuteFacts!Push(rb, e))
  BY <1>4, Constants, MinuteFacts!PushKeepsUnwrapped
<1>7. new = MinuteFacts!Push(rb, e)
  BY SameMinutes
<1>8. /\ new \in MinuteFacts!Buffers
      /\ Minutes!Size(rb) \in 0..MinutesKept /\ Minutes!Size(new) \in 1..MinutesKept
      /\ Minutes!Size(new) =
           IF Minutes!Size(rb) = MinutesKept THEN MinutesKept ELSE Minutes!Size(rb) + 1
      /\ \A k \in 1..Minutes!Size(new) :
           Minutes!Contents(new)[k] =
             IF k = Minutes!Size(new) THEN e
             ELSE IF Minutes!Size(rb) = MinutesKept THEN Minutes!Contents(rb)[k + 1]
                  ELSE Minutes!Contents(rb)[k]
  BY MinutesPush
<1> HIDE DEF new
<1>9. ASSUME NEW k \in 1..Minutes!Size(new)
      PROVE  Minutes!Contents(new)[k].data =
               Readings(id, In(Minutes!Contents(new)[k].time, PerMinute, more))
  <2>1. CASE k = Minutes!Size(new)
    <3>1. In(e.time, PerMinute, more) = {s \in times : s \div PerMinute = last \div PerMinute}
      BY <1>1, <1>2 DEF In, prev
    <3> QED BY <1>8, <2>1, <3>1
  <2>2. CASE k # Minutes!Size(new)
    <3> DEFINE i == IF Minutes!Size(rb) = MinutesKept THEN k + 1 ELSE k
               m == Minutes!Contents(rb)[i].time
    <3>1. i \in 1..Minutes!Size(rb)
      BY <1>8, <2>2, Constants
    <3>2. Minutes!Contents(new)[k] = Minutes!Contents(rb)[i]
      BY <1>8, <2>2
    <3>3. m \in Over(times, PerMinute)
          /\ Minutes!Contents(rb)[i].data = Readings(id, In(m, PerMinute, times))
      BY <3>1, HeldMinutes
    <3> HIDE DEF m
    <3>4. In(m, PerMinute, more) = In(m, PerMinute, times)
      BY <3>3, OldMinute
    <3> QED BY <3>2, <3>3, <3>4 DEF m
  <2> QED BY <2>1, <2>2
<1> QED BY <1>1, <1>2, <1>5, <1>6, <1>7, <1>8, <1>9 DEF MinutesHold, new

(* Nor does an hour that is over. *)
LEMMA OldHour ==
  ASSUME NEW times, Recorded(times), NEW now \in Nat, NEW id, NEW t \in Nat,
         t \div Hour # now \div Hour
  PROVE  /\ In(t, Hour, times \cup {now}) = In(t, Hour, times)
         /\ HourOf(id, t, times \cup {now}) = HourOf(id, t, times)
<1> DEFINE more == times \cup {now}
           minutes == MinutesOf(In(t, Hour, times))
<1>1. In(t, Hour, more) = In(t, Hour, times)
  BY DEF In
<1>2. ASSUME NEW m \in minutes
      PROVE  In(m * PerMinute, PerMinute, more) = In(m * PerMinute, PerMinute, times)
  <2>1. PICK s \in times : s \div Hour = t \div Hour /\ m = s \div PerMinute
    BY DEF MinutesOf, In
  <2>2. s \in Nat /\ m \in Nat /\ (m * PerMinute) \div PerMinute = m
    BY <2>1, Constants, Div, DivMultiple DEF Recorded
  <2>3. m \div PerHour = t \div Hour
    BY <2>1, <2>2, Constants, DivTwice DEF Hour
  <2>4. (now \div PerMinute) \div PerHour = now \div Hour
    BY Constants, DivTwice DEF Hour
  <2>5. now \div PerMinute # m
    BY <2>3, <2>4
  <2> QED BY <2>2, <2>5 DEF In
<1>3. {Readings(id, In(m * PerMinute, PerMinute, more)) :
         m \in {m \in minutes : \E later \in minutes : m < later}}
        = {Readings(id, In(m * PerMinute, PerMinute, times)) :
             m \in {m \in minutes : \E later \in minutes : m < later}}
  BY <1>2
<1> QED BY <1>1, <1>3 DEF HourOf

(* Of an hour that is over, add_data looks at enough minutes. *)
LEMMA FewMinutesAfter ==
  ASSUME NEW times, Recorded(times), NEW last \in times, \A s \in times : s <= last,
         NEW m \in Nat, m \div PerHour = last \div Hour
  PROVE  Cardinality(MinuteFacts!After(m * PerMinute, Over(times, PerMinute))) \in 0..(PerHour - 1)
<1> DEFINE D(t) == t \div PerMinute
           prev == last \div Hour
           later == MinuteFacts!After(m * PerMinute, Over(times, PerMinute))
           a == m + 1
           b == PerHour * prev + PerHour - 1
           f == [x \in later |-> D(x)]
<1>1. /\ last \in Nat /\ D(last) \in Nat /\ D(last) \div PerHour = prev
  BY Constants, Div, DivTwice DEF Recorded, Hour
<1>2. /\ PerHour \in Nat \ {0} /\ prev \in Nat /\ PerHour * prev \in Nat
      /\ D(last) <= b /\ PerHour * prev <= m
  <2>1. D(last) < PerHour * prev + PerHour /\ prev \in Nat
    BY <1>1, Constants, Div
  <2>2. PerHour * prev <= m
    BY Constants, Div
  <2>3. PerHour \in Nat \ {0} /\ PerHour * prev \in Nat
    BY <2>1, Constants
  <2> HIDE DEF prev, D
  <2> QED BY <1>1, <2>1, <2>2, <2>3
<1> HIDE DEF prev
<1>3. ASSUME NEW x \in later
      PROVE  D(x) \in a..b /\ x = D(x) * PerMinute
  <2>1. x \in Over(times, PerMinute) /\ x > m * PerMinute
    BY DEF MinuteFacts!After
  <2>2. PICK t \in times : x = D(t) * PerMinute /\ D(x) = D(t) /\ x \in Nat /\ D(t) \in Nat
    BY <2>1, OverMinute
  <2>3. t \in Nat /\ t <= last
    BY DEF Recorded
  <2>4. D(t) <= D(last)
    BY <1>1, <2>3, Constants, DivMonotonic
  <2>5. m < D(x)
    <3>1. (m * PerMinute) \div PerMinute = m /\ m * PerMinute \in Nat
      BY Constants, DivMultiple
    <3>2. m <= D(x)
      <4>1. m * PerMinute <= x /\ x \in Nat
        BY <2>1, <2>2, <3>1
      <4>2. (m * PerMinute) \div PerMinute <= D(x)
        BY <3>1, <4>1, Constants, DivMonotonic
      <4> QED BY <3>1, <4>2
    <3>3. m # D(x)
      BY <2>1, <2>2, <3>1
    <3> HIDE DEF D
    <3> QED BY <2>2, <3>2, <3>3
  <2> HIDE DEF D
  <2> QED BY <1>1, <1>2, <2>2, <2>4, <2>5
<1> HIDE DEF D, later
<1>4. f \in Injection(later, a..b)
  BY <1>3 DEF Injection, IsInjective
<1>5. a \in Int /\ b \in Int /\ b - a + 1 <= PerHour - 1 /\ 0 <= PerHour - 1
  BY <1>2
<1> HIDE DEF a, b, f
<1>6. IsFiniteSet(a..b) /\ Cardinality(a..b) = IF a > b THEN 0 ELSE b - a + 1
  BY <1>5, FS_Interval
<1>7. IsFiniteSet(later) /\ Cardinality(later) <= Cardinality(a..b)
  BY <1>4, <1>6, FS_Injection
<1>8. Cardinality(later) \in Nat
  BY <1>7, FS_CardinalityType
<1> QED BY <1>2, <1>5, <1>6, <1>7, <1>8 DEF later

(* The average of an hour that is over is that of its minutes but the      *)
(* last one, whose average is only added afterwards.                       *)
LEMMA AveragesMinutes ==
  ASSUME NEW rb \in MinuteFacts!Buffers, NEW id, NEW times, Recorded(times),
         NEW last \in times, \A s \in times : s <= last, MinutesHold(rb, id, times)
  PROVE  LET prev == last \div Hour
             entries == {Minutes!At(rb, i) : i \in -PerHour..-1}
         IN {e.data : e \in {e \in entries : e.time \div Hour = prev}}
              = HourOf(id, prev * Hour, times)
<1> DEFINE prev == last \div Hour
           entries == {Minutes!At(rb, i) : i \in -PerHour..-1}
           z == Minutes!Size(rb)
           over == Over(times, PerMinute)
           minutes == MinutesOf(In(prev * Hour, Hour, times))
<1>1. last \in Nat /\ Hour \in Nat \ {0} /\ Hour <= last /\ times \in SUBSET Nat
  BY HourType DEF Recorded
<1>2. prev \in Nat /\ prev # 0 /\ (prev * Hour) \div Hour = prev
  <2>1. Hour \div Hour = 1
    BY <1>1, SMT
  <2>2. Hour \div Hour <= prev /\ prev \in Nat
    BY <1>1, Div, DivMonotonic
  <2> QED BY <1>1, <2>1, <2>2, DivMultiple
<1>3. In(prev * Hour, Hour, times) = {s \in times : s \div Hour = prev}
  BY <1>2 DEF In
<1>4. over \in SUBSET Nat /\ IsFiniteSet(over)
  <2>1. last + 1 \in Nat /\ \A s \in times : s < last + 1
    BY <1>1
  <2> QED BY <1>1, <2>1, Constants, OverType
<1>5. MinuteFacts!KeepsNewest(rb, over) /\ MinuteFacts!Unwrapped(rb)
  BY DEF MinutesHold
<1> HIDE DEF over, prev
<1>6. z = IF Cardinality(over) < MinutesKept THEN Cardinality(over) ELSE MinutesKept
  BY <1>4, <1>5, MinutesBack
<1>7. \A i \in 1..z : Minutes!At(rb, -i) = Minutes!Contents(rb)[z + 1 - i]
  BY <1>4, <1>5, MinutesBack
<1>8. \A t \in over : Cardinality(MinuteFacts!After(t, over)) < z
        => Minutes!At(rb, -(Cardinality(MinuteFacts!After(t, over)) + 1)).time = t
  BY <1>4, <1>5, MinutesBack
<1>9. \A i \in 1..MinutesKept : z < i => Minutes!At(rb, -i) = Zero
  BY <1>5, MinutesBeforeFirst
<1>10. Cardinality(over) \in Nat /\ z \in 0..MinutesKept
  BY <1>4, <1>6, FS_CardinalityType, Constants
<1>11. \A i \in 1..z : /\ Minutes!At(rb, -i).time \in over
                       /\ Minutes!At(rb, -i).data
                            = Readings(id, In(Minutes!At(rb, -i).time, PerMinute, times))
  <2>1. \A i \in 1..z : z + 1 - i \in 1..z
    BY <1>10, Constants
  <2> QED BY <1>7, <2>1, HeldMinutes DEF over
<1> HIDE DEF z
<1>12. ASSUME NEW e \in entries, e.time \div Hour = prev
       PROVE  /\ e.time \in over /\ e.data = Readings(id, In(e.time, PerMinute, times))
  <2>1. PICK i \in 1..PerHour : e = Minutes!At(rb, -i)
    <3>1. PICK j \in -PerHour..-1 : e = Minutes!At(rb, j)
      OBVIOUS
    <3>2. -j \in 1..PerHour /\ -(-j) = j
      BY Constants
    <3> QED BY <3>1, <3>2
  <2>2. i \in 1..MinutesKept
    BY Constants
  <2>3. i \in 1..z
    <3> SUFFICES ASSUME z < i PROVE FALSE
      BY <1>10, <2>2, Constants
    <3>1. e.time = 0
      BY <1>9, <2>1, <2>2 DEF Zero
    <3>2. 0 \div Hour = 0
      BY <1>1, SMT
    <3> QED BY <1>2, <1>12, <3>1, <3>2
  <2> QED BY <1>11, <2>1, <2>3
<1>13. ASSUME NEW x \in over, x \div Hour = prev
       PROVE  \E m \in minutes : x = m * PerMinute /\ \E later \in minutes : m < later
  <2> DEFINE D(t) == t \div PerMinute
  <2>1. PICK t \in times, s \in times :
          x = D(t) * PerMinute /\ D(x) = D(t) /\ D(t) \in Nat /\ D(x) < D(s)
    BY OverMinute DEF over
  <2>2. D(t) \div PerHour = prev
    BY <1>13, <2>1, HourType
  <2>3. t \div Hour = prev
    BY <1>1, <2>2, Constants, DivTwice DEF Hour
  <2>4. D(t) \in minutes /\ D(last) \in minutes
    BY <1>3, <2>3 DEF MinutesOf, prev
  <2>5. D(s) <= D(last) /\ D(s) \in Nat /\ D(last) \in Nat
    BY <1>1, Constants, Div, DivMonotonic
  <2> HIDE DEF D
  <2>6. D(t) < D(last)
    BY <2>1, <2>5
  <2> QED BY <2>1, <2>4, <2>6
<1>14. ASSUME NEW m \in minutes, NEW later \in minutes, m < later
       PROVE  \E e \in entries : e.time = m * PerMinute /\ e.time \div Hour = prev
  <2> DEFINE c == Cardinality(MinuteFacts!After(m * PerMinute, over))
  <2>1. PICK t \in times, u \in times :
          /\ m = t \div PerMinute /\ t \div Hour = prev
          /\ later = u \div PerMinute
    BY <1>3 DEF MinutesOf
  <2>2. m \in Nat /\ m \div PerHour = prev
    BY <1>1, <2>1, Constants, Div, DivTwice DEF Hour
  <2>3. m * PerMinute \in over
    BY <1>14, <2>1 DEF over, Over
  <2>4. c \in 0..(PerHour - 1)
    BY <2>2, FewMinutesAfter DEF over, prev
  <2>5. c \in 0..(Cardinality(over) - 1)
    BY <1>4, <2>3, MinuteFacts!AfterOrder, SameSize
  <2> HIDE DEF c
  <2>6. c < z
    BY <1>6, <1>10, <2>4, <2>5, Constants
  <2>7. Minutes!At(rb, -(c + 1)).time = m * PerMinute
    BY <1>8, <2>3, <2>6 DEF c
  <2>8. -(c + 1) \in -PerHour..-1
    BY <2>4, Constants
  <2>9. (m * PerMinute) \div Hour = prev
    BY <2>2, HourType
  <2> QED BY <2>7, <2>8, <2>9
<1> HIDE DEF entries, minutes
<1>15. {e.data : e \in {e \in entries : e.time \div Hour = prev}}
         = {Readings(id, In(m * PerMinute, PerMinute, times)) :
              m \in {m \in minutes : \E later \in minutes : m < later}}
  <2>1. ASSUME NEW e \in entries, e.time \div Hour = prev
        PROVE  \E m \in {m \in minutes : \E later \in minutes : m < later} :
                 e.data = Readings(id, In(m * PerMinute, PerMinute, times))
    BY <1>12, <1>13, <2>1
  <2>2. ASSUME NEW m \in minutes, NEW later \in minutes, m < later
        PROVE  \E e \in {e \in entries : e.time \div Hour = prev} :
                 e.data = Readings(id, In(m * PerMinute, PerMinute, times))
    BY <1>12, <1>14, <2>2
  <2> QED BY <2>1, <2>2
<1> QED BY <1>15 DEF HourOf, prev, entries, minutes

(* One more time takes nothing away from the hours there are. *)
LEMMA HoursStay ==
  ASSUME NEW rb, NEW id \in Ids, NEW times, Recorded(times), NEW now \in Nat,
         \A s \in times : s < now, HoursAverage(rb, id, times)
  PROVE  HoursAverage(rb, id, times \cup {now})
<1>1. ASSUME NEW i \in 1..Hours!Size(rb), NEW t, t = Hours!Contents(rb)[i].time
      PROVE  /\ t \in Nat /\ Hours!Contents(rb)[i].data = HourOf(id, t, times \cup {now})
             /\ In(t, Hour, times \cup {now}) # {}
             /\ \E s \in times \cup {now} : t \div Hour < s \div Hour
  <2>1. /\ t \in Nat /\ Hours!Contents(rb)[i].data = HourOf(id, t, times)
        /\ In(t, Hour, times) # {}
        /\ \E s \in times : t \div Hour < s \div Hour
    BY <1>1 DEF HoursAverage
  <2>2. PICK s \in times : t \div Hour < s \div Hour
    BY <2>1
  <2>3. s \in Nat /\ s <= now /\ Hour \in Nat \ {0}
    BY HourType DEF Recorded
  <2>4. /\ s \div Hour <= now \div Hour /\ s \div Hour \in Nat
        /\ t \div Hour \in Nat /\ now \div Hour \in Nat
    BY <2>1, <2>3, Div, DivMonotonic
  <2>5. t \div Hour # now \div Hour
    BY <2>2, <2>4
  <2> QED BY <2>1, <2>5, OldHour
<1> QED BY <1>1 DEF HoursAverage

(* While its hour goes on, or when it is passed over, nothing changes; *)
LEMMA HourGoesOn ==
  ASSUME NEW rb, NEW id \in Ids, NEW times, Recorded(times), NEW now \in Nat,
         \A s \in times : s < now, HoursHold(rb, id, times),
         OverWithMinutes(times \cup {now}) = OverWithMinutes(times)
  PROVE  HoursHold(rb, id, times \cup {now})
BY HoursStay DEF HoursHold

(* when it is over, the average of it is the newest. *)
LEMMA HourIsOver ==
  ASSUME NEW rb \in HourFacts!Buffers, NEW id \in Ids, NEW times, Recorded(times),
         NEW last \in times, \A s \in times : s <= last,
         NEW now \in Nat, \A s \in times : s < now,
         HoursHold(rb, id, times), last \div Hour # now \div Hour, Over(times, PerMinute) # {},
         NEW e \in HourMean, e.time = (last \div Hour) * Hour, e.data = HourOf(id, e.time, times)
  PROVE  /\ Hours!Push(rb, e) \in HourFacts!Buffers
         /\ HoursHold(Hours!Push(rb, e), id, times \cup {now})
<1> DEFINE new == Hours!Push(rb, e)
           more == times \cup {now}
<1>1. /\ new \in HourFacts!Buffers
      /\ Hours!Size(rb) \in 0..HoursKept /\ Hours!Size(new) \in 1..HoursKept
      /\ Hours!Size(new) =
           IF Hours!Size(rb) = HoursKept THEN HoursKept ELSE Hours!Size(rb) + 1
      /\ \A k \in 1..Hours!Size(new) :
           Hours!Contents(new)[k] =
             IF k = Hours!Size(new) THEN e
             ELSE IF Hours!Size(rb) = HoursKept THEN Hours!Contents(rb)[k + 1]
                  ELSE Hours!Contents(rb)[k]
  BY HoursPush
<1>2. HoursAverage(rb, id, more)
  BY HoursStay DEF HoursHold
<1>3. /\ e.time \in Nat /\ e.time \div Hour = last \div Hour
      /\ last \div Hour \in Nat /\ now \div Hour \in Nat /\ last \div Hour <= now \div Hour
  <2>1. last \in Nat /\ last <= now /\ Hour \in Nat \ {0}
    BY HourType DEF Recorded
  <2> QED BY <2>1, Div, DivMonotonic, DivMultiple
<1>4. /\ e.data = HourOf(id, e.time, more) /\ In(e.time, Hour, more) # {}
      /\ \E s \in more : e.time \div Hour < s \div Hour
  <2>1. e.time \div Hour # now \div Hour /\ e.time \div Hour < now \div Hour
    BY <1>3
  <2>2. last \in In(e.time, Hour, times)
    BY <1>3 DEF In
  <2> QED BY <1>3, <2>1, <2>2, OldHour
<1> HIDE DEF new
<1>5. ASSUME NEW k \in 1..Hours!Size(new)
      PROVE  LET h == Hours!Contents(new)[k]
             IN /\ h.time \in Nat /\ h.data = HourOf(id, h.time, more)
                /\ In(h.time, Hour, more) # {}
                /\ \E s \in more : h.time \div Hour < s \div Hour
  <2>1. CASE k = Hours!Size(new)
    BY <1>1, <1>3, <1>4, <2>1
  <2>2. CASE k # Hours!Size(new)
    <3> DEFINE i == IF Hours!Size(rb) = HoursKept THEN k + 1 ELSE k
    <3>1. i \in 1..Hours!Size(rb)
      BY <1>1, <2>2, Constants
    <3>2. Hours!Contents(new)[k] = Hours!Contents(rb)[i]
      BY <1>1, <2>2
    <3> QED BY <1>2, <3>1, <3>2 DEF HoursAverage
  <2> QED BY <2>1, <2>2
<1>6. HourFacts!KeepsNewest(new, OverWithMinutes(more))
  <2> DEFINE hours == OverWithMinutes(times)
  <2>1. OverWithMinutes(more) = hours \cup {e.time} /\ \A h \in hours : h < e.time
    <3>1. /\ OverWithMinutes(more) = hours \cup {(last \div Hour) * Hour}
          /\ \A h \in hours : h < (last \div Hour) * Hour
      BY OverWithMinutesStep
    <3> QED BY <3>1
  <2>2. hours \in SUBSET Nat /\ HourFacts!IsFiniteSet(hours)
    <3>1. Over(times, Hour) \in SUBSET Nat /\ IsFiniteSet(Over(times, Hour))
      BY HourType, OverType DEF Recorded
    <3>2. hours \in SUBSET Over(times, Hour)
      BY DEF OverWithMinutes
    <3> QED BY <3>1, <3>2, FS_Subset, SameSize
  <2>3. HourFacts!KeepsNewest(rb, hours)
    BY DEF HoursHold
  <2> HIDE DEF hours
  <2>4. HourFacts!KeepsNewest(HourFacts!Push(rb, e), hours \cup {e.time})
    BY <1>3, <2>1, <2>2, <2>3, Constants, HourFacts!PushKeepsNewestTimes
  <2> QED BY <2>1, <2>4, SameHours DEF new
<1> QED BY <1>1, <1>5, <1>6 DEF HoursHold, HoursAverage, new

LEMMA ReadingsType ==
  ASSUME NEW id \in Ids, NEW times \in SUBSET Nat
  PROVE  Readings(id, times) \in SUBSET SUBSET (Ids \X Nat)
<1>1. ASSUME NEW t \in times PROVE {<<id, t>>} \in SUBSET (Ids \X Nat)
  OBVIOUS
<1> QED BY <1>1 DEF Readings

LEMMA HourOfType ==
  ASSUME NEW id \in Ids, NEW times \in SUBSET Nat, NEW t
  PROVE  HourOf(id, t, times) \in SUBSET SUBSET SUBSET (Ids \X Nat)
<1>1. ASSUME NEW m PROVE Readings(id, In(m * PerMinute, PerMinute, times))
                           \in SUBSET SUBSET (Ids \X Nat)
  <2>1. In(m * PerMinute, PerMinute, times) \in SUBSET Nat
    BY DEF In
  <2> QED BY <2>1, ReadingsType
<1> QED BY <1>1 DEF HourOf

(* add_data leaves a device with what it has to hold.                      *)
THEOREM AddDataHolds ==
  ASSUME NEW d \in Data, NEW id \in Ids, NEW times, Recorded(times),
         NEW now \in Nat, Hour <= now, \A s \in times : s < now, Holds(d, id, times)
  PROVE  /\ AddData(d, {<<id, now>>}, now) \in Data
         /\ Holds(AddData(d, {<<id, now>>}, now), id, times \cup {now})
<1> DEFINE new == AddData(d, {<<id, now>>}, now)
           last == Seconds!At(d.second, -1).time
           more == times \cup {now}
           newMinute == Seconds!Size(d.second) > 0 /\ last \div PerMinute # now \div PerMinute
           newHour == Minutes!Size(d.minute) > 0 /\ last \div Hour # now \div Hour
           seconds == {Seconds!At(d.second, i) : i \in -PerMinute..-1}
           minutes == {Minutes!At(d.minute, i) : i \in -PerHour..-1}
           minute == Average(seconds, PerMinute, last \div PerMinute)
           hour == Average(minutes, Hour, last \div Hour)
<1>1. /\ new.second = Seconds!Push(d.second, Value(id, now))
      /\ new.minute = IF newMinute THEN Minutes!Push(d.minute, minute) ELSE d.minute
      /\ new.hour = IF newHour THEN Hours!Push(d.hour, hour) ELSE d.hour
      /\ new = [second |-> new.second, minute |-> new.minute, hour |-> new.hour]
  BY DEF AddData, Value, IsOver
<1>2. /\ d.second \in SecondFacts!Buffers /\ d.minute \in MinuteFacts!Buffers
      /\ d.hour \in HourFacts!Buffers
  BY DEF Data
<1>3. /\ SecondsHold(d.second, id, times) /\ MinutesHold(d.minute, id, times)
      /\ HoursHold(d.hour, id, times)
  BY DEF Holds
<1>4. new.second \in SecondFacts!Buffers /\ SecondsHold(new.second, id, more)
  BY <1>1, <1>2, <1>3, SecondsStep
<1>5. /\ Seconds!Size(d.second) > 0 <=> times # {}
      /\ times # {} => last \in times /\ \A s \in times : s <= last
  BY <1>3, LastSecond
<1> HIDE DEF new, last
<1>6. times # {} => last \in Nat /\ last \div PerMinute \in Nat /\ last \div Hour \in Nat
  BY <1>5, Constants, HourType, Div DEF Recorded
<1>7. new.minute \in MinuteFacts!Buffers /\ MinutesHold(new.minute, id, more)
  <2>1. CASE newMinute
    <3>1. minute.time = (last \div PerMinute) * PerMinute
          /\ minute.data = Readings(id, {s \in times : s \div PerMinute = last \div PerMinute})
      BY <1>3, <1>5, <2>1, AveragesSeconds DEF Average, last
    <3>2. minute \in MinuteMean
      <4>1. minute.time \in Nat
        BY <1>5, <1>6, <2>1, <3>1, Constants, DivMultiple
      <4>2. minute.data \in SUBSET SUBSET (Ids \X Nat)
        <5>1. {s \in times : s \div PerMinute = last \div PerMinute} \in SUBSET Nat
          BY DEF Recorded
        <5>2. Readings(id, {s \in times : s \div PerMinute = last \div PerMinute})
                \in SUBSET SUBSET (Ids \X Nat)
          BY <5>1, ReadingsType
        <5> HIDE DEF minute
        <5> QED BY <3>1, <5>2
      <4>3. minute = [data |-> minute.data, time |-> minute.time]
        BY DEF Average
      <4> HIDE DEF minute
      <4> QED BY <4>1, <4>2, <4>3 DEF MinuteMean
    <3> HIDE DEF minute
    <3>3. /\ last \in times /\ \A s \in times : s <= last
          /\ last \div PerMinute # now \div PerMinute
      BY <1>5, <2>1
    <3>4. /\ Minutes!Push(d.minute, minute) \in MinuteFacts!Buffers
          /\ MinutesHold(Minutes!Push(d.minute, minute), id, more)
      BY <1>2, <1>3, <3>1, <3>2, <3>3, MinuteIsOver
    <3> QED BY <1>1, <2>1, <3>4
  <2>2. CASE ~newMinute
    <3>1. Over(more, PerMinute) = Over(times, PerMinute)
      <4>1. CASE times = {}
        <5>1. now \div PerMinute \in Nat
          BY Constants, Div
        <5> QED BY <4>1, <5>1 DEF Over
      <4>2. CASE times # {}
        <5>1. times \in SUBSET Nat /\ PerMinute \in Nat \ {0}
          BY Constants DEF Recorded
        <5>2. /\ last \in times /\ \A s \in times : s <= last
              /\ last \div PerMinute = now \div PerMinute
          BY <1>5, <2>2, <4>2
        <5> QED BY <5>1, <5>2, OverStep
      <4> QED BY <4>1, <4>2
    <3> QED BY <1>1, <1>2, <1>3, <2>2, <3>1, MinuteGoesOn
  <2> QED BY <2>1, <2>2
<1>8. Minutes!Size(d.minute) > 0 <=> Over(times, PerMinute) # {}
  <2> DEFINE over == Over(times, PerMinute)
  <2>1. over \in SUBSET Nat /\ IsFiniteSet(over)
    BY Constants, OverType DEF Recorded
  <2>2. MinuteFacts!KeepsNewest(d.minute, over)
    BY <1>3 DEF MinutesHold
  <2> HIDE DEF over
  <2>3. Minutes!Size(d.minute) =
          IF Cardinality(over) < MinutesKept THEN Cardinality(over) ELSE MinutesKept
    BY <1>2, <2>1, <2>2, MinutesBack
  <2>4. Cardinality(over) \in Nat /\ (Cardinality(over) = 0 <=> over = {})
    BY <2>1, FS_CardinalityType, FS_EmptySet
  <2> QED BY <2>3, <2>4, Constants DEF over
<1>9. new.hour \in HourFacts!Buffers /\ HoursHold(new.hour, id, more)
  <2>1. CASE newHour
    <3>1. times # {} /\ Over(times, PerMinute) # {}
      BY <1>8, <2>1 DEF Over
    <3>2. hour.time = (last \div Hour) * Hour /\ hour.data = HourOf(id, hour.time, times)
      BY <1>2, <1>3, <1>5, <3>1, AveragesMinutes DEF Average
    <3>3. hour \in HourMean
      <4>1. hour.time \in Nat
        BY <1>6, <3>1, <3>2, HourType, DivMultiple
      <4>2. hour.data \in SUBSET SUBSET SUBSET (Ids \X Nat)
        <5> HIDE DEF hour
        <5>1. times \in SUBSET Nat
          BY DEF Recorded
        <5>2. HourOf(id, hour.time, times) \in SUBSET SUBSET SUBSET (Ids \X Nat)
          BY <5>1, HourOfType
        <5> QED BY <3>2, <5>2
      <4>3. hour = [data |-> hour.data, time |-> hour.time]
        BY DEF Average
      <4> HIDE DEF hour
      <4> QED BY <4>1, <4>2, <4>3 DEF HourMean
    <3> HIDE DEF hour
    <3> QED BY <1>1, <1>2, <1>3, <1>5, <2>1, <3>1, <3>2, <3>3, HourIsOver
  <2>2. CASE ~newHour
    <3>1. OverWithMinutes(more) = OverWithMinutes(times)
      <4>1. CASE times = {}
        <5>1. now \div Hour \in Nat
          BY HourType, Div
        <5> QED BY <4>1, <5>1 DEF Over, OverWithMinutes
      <4>2. CASE times # {}
        BY <1>5, <1>8, <2>2, <4>2, OverWithMinutesStep
      <4> QED BY <4>1, <4>2
    <3> QED BY <1>1, <1>2, <1>3, <2>2, <3>1, HourGoesOn
  <2> QED BY <2>1, <2>2
<1>10. new \in Data
  BY <1>1, <1>4, <1>7, <1>9 DEF Data
<1> QED BY <1>4, <1>7, <1>9, <1>10 DEF Holds, new

-----------------------------------------------------------------------------
(* The inductive invariant, in four parts.                                 *)
Times(id) == {w[2] : w \in {w \in written : w[1] = id}}

Typed ==
  /\ slots \in [Slots -> [id : Ids \cup {Free}, data : Data]]
  /\ next \in 0..(Len(Order) + 1) /\ clock \in Nat
  /\ live \subseteq Ids /\ found \subseteq Ids /\ written \subseteq Ids \X Nat

(* A device has at most one slot, and nothing is kept of one without. *)
OneSlotEach ==
  /\ \A j, k \in Slots : slots[j].id = slots[k].id /\ slots[j].id # Free => j = k
  /\ \A w \in written : \E k \in Slots : slots[k].id = w[1]

(* What is written is in the past, but for the devices this round is done  *)
(* with.                                                                   *)
TimePasses ==
  /\ Hour <= clock + 1 /\ (next # 0 => Hour <= clock)
  /\ \A w \in written :
       /\ Hour <= w[2] /\ w[2] <= clock
       /\ w[2] = clock /\ next # 0 => \E i \in 1..(next - 1) : Order[i] = w[1]

(* Every slot that is taken holds what it has to. *)
AllHold ==
  \A k \in Slots : slots[k].id # Free => Holds(slots[k].data, slots[k].id, Times(slots[k].id))

(* The slots are taken by devices of this round and the last one; who did  *)
(* not get one found them all taken.                                       *)
FullOrFound ==
  /\ \A k \in Slots : slots[k].id \in live \cup found \cup {Free}
  /\ \A id \in found : \/ \E k \in Slots : slots[k].id = id
                       \/ Cardinality(live \cup found) > SlotCount

IInv == Typed /\ OneSlotEach /\ TimePasses /\ AllHold /\ FullOrFound

LEMMA IdsFinite == IsFiniteSet(Ids) /\ \A S \in SUBSET Ids : IsFiniteSet(S)
<1> DEFINE f == [i \in 1..Len(Order) |-> Order[i]]
<1>1. Len(Order) \in Nat
  BY Constants
<1>2. f \in Surjection(1..Len(Order), Ids)
  BY DEF Surjection, Ids
<1>3. IsFiniteSet(1..Len(Order))
  BY <1>1, FS_Interval
<1> HIDE DEF f
<1>4. IsFiniteSet(Ids)
  BY <1>2, <1>3, FS_Surjection
<1> QED BY <1>4, FS_Subset

(* What is written of a device is recorded. *)
LEMMA TimesRecorded ==
  ASSUME Typed, TimePasses, NEW id
  PROVE  /\ Recorded(Times(id)) /\ \A s \in Times(id) : s <= clock
         /\ id \in Ids \/ Times(id) = {}
<1>1. ASSUME NEW s \in Times(id) PROVE s \in Nat /\ Hour <= s /\ s <= clock /\ id \in Ids
  <2>1. <<id, s>> \in written
    BY DEF Times, Typed
  <2> QED BY <2>1 DEF Typed, TimePasses
<1>2. clock \in Nat /\ Times(id) \in SUBSET Nat
  BY <1>1 DEF Typed
<1>3. IsFiniteSet(Times(id))
  BY <1>1, <1>2, FS_BoundedSetOfNaturals
<1> QED BY <1>1, <1>2, <1>3 DEF Recorded

(* The device written next has not been written this round. *)
LEMMA NotYet ==
  ASSUME Typed, TimePasses, next \in 1..Len(Order)
  PROVE  Order[next] \in Ids /\ \A s \in Times(Order[next]) : s < clock
<1>1. Order[next] \in Ids
  BY DEF Ids
<1>2. ASSUME NEW s \in Times(Order[next]) PROVE s < clock
  <2>1. <<Order[next], s>> \in written /\ s \in Nat /\ s <= clock /\ clock \in Nat
    <3>1. <<Order[next], s>> \in written
      BY DEF Times, Typed
    <3> QED BY <3>1 DEF Typed, TimePasses
  <2>2. s # clock
    <3>1. SUFFICES ASSUME s = clock PROVE FALSE
      OBVIOUS
    <3>2. PICK i \in 1..(next - 1) : Order[i] = Order[next]
      BY <2>1, <3>1 DEF TimePasses
    <3>3. i \in 1..Len(Order) /\ i # next
      BY Constants
    <3> QED BY <3>2, <3>3, HistoryAssumption
  <2> QED BY <2>1, <2>2
<1> QED BY <1>1, <1>2

(* What Put does to a slot of the device or a free one.                    *)
LEMMA PutTimes ==
  ASSUME Typed, NEW id \in Ids, written' = written \cup {<<id, clock>>}
  PROVE  /\ Times(id)' = Times(id) \cup {clock}
         /\ \A other \in Ids : other # id => Times(other)' = Times(other)
<1>1. ASSUME NEW other
      PROVE  /\ Times(other)' = {w[2] : w \in {w \in written : w[1] = other}
                                         \cup {w \in {<<id, clock>>} : w[1] = other}}
             /\ Times(other) = {w[2] : w \in {w \in written : w[1] = other}}
  <2>1. {w \in written' : w[1] = other} = {w \in written : w[1] = other}
                                            \cup {w \in {<<id, clock>>} : w[1] = other}
    OBVIOUS
  <2> QED BY <2>1 DEF Times
<1>2. {w \in {<<id, clock>>} : w[1] = id} = {<<id, clock>>}
  OBVIOUS
<1>3. Times(id)' = Times(id) \cup {clock}
  <2> DEFINE old == {w \in written : w[1] = id}
  <2>1. Times(id)' = {w[2] : w \in old \cup {<<id, clock>>}}
    BY <1>1, <1>2
  <2>2. {w[2] : w \in old \cup {<<id, clock>>}} = {w[2] : w \in old} \cup {clock}
    <3> HIDE DEF old
    <3>1. ASSUME NEW x, NEW w \in old \cup {<<id, clock>>}, x = w[2]
          PROVE  x \in {v[2] : v \in old} \cup {clock}
      BY <3>1
    <3>2. <<id, clock>>[2] = clock
      OBVIOUS
    <3>3. clock \in {w[2] : w \in old \cup {<<id, clock>>}}
      BY <3>2
    <3>4. {w[2] : w \in old} \subseteq {w[2] : w \in old \cup {<<id, clock>>}}
      OBVIOUS
    <3> QED BY <3>1, <3>3, <3>4
  <2> QED BY <1>1, <2>1, <2>2
<1>4. ASSUME NEW other \in Ids, other # id PROVE Times(other)' = Times(other)
  <2>1. {w \in {<<id, clock>>} : w[1] = other} = {}
    BY <1>4
  <2> QED BY <1>1, <2>1
<1> QED BY <1>3, <1>4


(* A write gives one slot what it has to hold and touches no other.        *)
LEMMA PutKeeps ==
  ASSUME IInv, next \in 1..Len(Order), NEW id, id = Order[next], NEW k \in Slots,
         NEW data \in Data, Holds(data, id, Times(id)),
         slots[k].id \in {id, Free}, \A j \in Slots : slots[j].id = id => j = k,
         Put(k, id, data), next' = next + 1, found' = found \cup {id},
         UNCHANGED <<clock, live>>
  PROVE  IInv'
<1> USE DEF IInv
<1> DEFINE new == AddData(data, {<<id, clock>>}, clock)
<1>1. /\ id \in Ids /\ \A s \in Times(id) : s < clock
      /\ Recorded(Times(id)) /\ clock \in Nat /\ Hour <= clock
  <2>1. id \in Ids /\ \A s \in Times(id) : s < clock
    BY NotYet
  <2>2. clock \in Nat /\ Hour <= clock
    BY Constants DEF Typed, TimePasses
  <2> QED BY <2>1, <2>2, TimesRecorded
<1>2. new \in Data /\ Holds(new, id, Times(id) \cup {clock})
  BY <1>1, AddDataHolds
<1> HIDE DEF new
<1>3. /\ slots' = [slots EXCEPT ![k] = [id |-> id, data |-> new]]
      /\ written' = written \cup {<<id, clock>>}
  BY DEF Put, new
<1>4. /\ slots \in [Slots -> [id : Ids \cup {Free}, data : Data]]
      /\ slots'[k] = [id |-> id, data |-> new] /\ \A j \in Slots \ {k} : slots'[j] = slots[j]
  BY <1>3 DEF Typed
<1>5. Free \notin Ids /\ Len(Order) \in Nat
  BY Constants
<1>6. Typed'
  <2>1. slots' \in [Slots -> [id : Ids \cup {Free}, data : Data]]
    BY <1>1, <1>2, <1>3, <1>4
  <2>2. next' \in 0..(Len(Order) + 1)
    BY <1>5
  <2>3. /\ clock' \in Nat /\ live' \subseteq Ids /\ found' \subseteq Ids
        /\ written' \subseteq Ids \X Nat
    BY <1>1, <1>3 DEF Typed
  <2> QED BY <2>1, <2>2, <2>3 DEF Typed
<1>7. OneSlotEach'
  <2>1. ASSUME NEW i \in Slots, NEW j \in Slots, slots'[i].id = slots'[j].id, slots'[i].id # Free
        PROVE  i = j
    BY <1>4, <2>1 DEF OneSlotEach
  <2>2. ASSUME NEW w \in written' PROVE \E j \in Slots : slots'[j].id = w[1]
    <3>1. CASE w = <<id, clock>>
      BY <1>4, <3>1
    <3>2. CASE w \in written
      <4>1. PICK j \in Slots : slots[j].id = w[1]
        BY <3>2 DEF OneSlotEach
      <4>2. w[1] \in Ids
        BY <3>2 DEF Typed
      <4> QED BY <1>4, <1>5, <4>1, <4>2
    <3> QED BY <1>3, <3>1, <3>2
  <2> QED BY <2>1, <2>2 DEF OneSlotEach
<1>8. TimePasses'
  <2>1. Hour <= clock' + 1 /\ Hour <= clock'
    BY <1>1, HourType
  <2>2. ASSUME NEW w \in written'
        PROVE  /\ Hour <= w[2] /\ w[2] <= clock'
               /\ w[2] = clock' /\ next' # 0 => \E i \in 1..(next' - 1) : Order[i] = w[1]
    <3>1. CASE w = <<id, clock>>
      BY <1>1, <1>5, <3>1
    <3>2. CASE w \in written
      <4>1. \A i \in 1..(next - 1) : i \in 1..(next' - 1)
        BY <1>5
      <4>2. /\ Hour <= w[2] /\ w[2] <= clock
            /\ w[2] = clock => \E i \in 1..(next - 1) : Order[i] = w[1]
        BY <1>5, <3>2 DEF TimePasses
      <4> QED BY <4>1, <4>2
    <3> QED BY <1>3, <3>1, <3>2
  <2> QED BY <2>1, <2>2 DEF TimePasses
<1>9. AllHold'
  <2> DEFINE after(x) == {w[2] : w \in {w \in written' : w[1] = x}}
  <2>1. after(id) = Times(id) \cup {clock} /\ \A x \in Ids : x # id => after(x) = Times(x)
    BY <1>1, <1>3, PutTimes DEF Times
  <2>2. ASSUME NEW j \in Slots, slots'[j].id # Free
        PROVE  Holds(slots'[j].data, slots'[j].id, after(slots'[j].id))
    <3> HIDE DEF after
    <3>1. CASE j = k
      <4>1. slots'[j].data = new /\ slots'[j].id = id
        BY <1>4, <3>1
      <4> QED BY <1>2, <2>1, <4>1
    <3>2. CASE j # k
      <4>1. slots'[j] = slots[j] /\ slots[j].id \in Ids /\ slots[j].id # id
        BY <1>4, <2>2, <3>2
      <4>2. Holds(slots[j].data, slots[j].id, Times(slots[j].id))
        BY <2>2, <4>1 DEF AllHold
      <4> QED BY <2>1, <4>1, <4>2
    <3> QED BY <3>1, <3>2
  <2> QED BY <2>2 DEF AllHold, Times
<1>10. FullOrFound'
  <2>1. \A j \in Slots : slots'[j].id \in live' \cup found' \cup {Free}
    BY <1>4 DEF FullOrFound
  <2>2. ASSUME NEW other \in found'
        PROVE  \/ \E j \in Slots : slots'[j].id = other
               \/ Cardinality(live' \cup found') > SlotCount
    <3>1. CASE other = id
      BY <1>4, <3>1
    <3>2. CASE other \in found /\ other # id /\ \E j \in Slots : slots[j].id = other
      BY <1>4, <1>5, <3>2 DEF Typed
    <3>3. CASE Cardinality(live \cup found) > SlotCount
      <4>1. live' \cup found' \in SUBSET Ids /\ live \cup found \in SUBSET (live' \cup found')
        BY <1>6 DEF Typed
      <4>2. Cardinality(live \cup found) <= Cardinality(live' \cup found')
        BY <4>1, IdsFinite, FS_Subset
      <4>3. /\ Cardinality(live \cup found) \in Nat /\ Cardinality(live' \cup found') \in Nat
            /\ SlotCount \in Nat
        BY <4>1, IdsFinite, FS_CardinalityType, Constants DEF Typed
      <4> QED BY <3>3, <4>2, <4>3
    <3> QED BY <3>1, <3>2, <3>3 DEF FullOrFound
  <2> QED BY <2>1, <2>2 DEF FullOrFound
<1> QED BY <1>6, <1>7, <1>8, <1>9, <1>10


(* A device that does not get a slot has found them all with others.       *)
LEMMA DropKeeps ==
  ASSUME IInv, next \in 1..Len(Order), NEW id, id = Order[next],
         Holding(id) \cup Holding(Free) = {}, UNCHANGED <<slots, written, clock, live>>,
         next' = next + 1, found' = found \cup {id}
  PROVE  IInv'
<1> USE DEF IInv
<1>1. id \in Ids /\ Len(Order) \in Nat /\ SlotCount \in Nat
  BY Constants DEF Ids
<1>2. Typed'
  BY <1>1 DEF Typed
<1>3. OneSlotEach' /\ AllHold'
  BY DEF OneSlotEach, AllHold, Times
<1>4. TimePasses'
  <2>1. \A i \in 1..(next - 1) : i \in 1..(next' - 1)
    BY <1>1
  <2> QED BY <1>1, <2>1 DEF TimePasses
<1>5. FullOrFound'
  <2> DEFINE all == live \cup found \cup {id}
             taken == [k \in Slots |-> slots[k].id]
  <2>1. \A k \in Slots : slots[k].id \in (live \cup found) \ {id, Free}
    BY DEF FullOrFound, Holding
  <2>2. taken \in Injection(Slots, all \ {id})
    <3>1. taken \in [Slots -> all \ {id}]
      BY <2>1
    <3>2. ASSUME NEW j \in Slots, NEW k \in Slots, taken[j] = taken[k] PROVE j = k
      <4>1. slots[j].id = slots[k].id /\ slots[j].id # Free
        BY <2>1, <3>2
      <4> QED BY <4>1 DEF OneSlotEach
    <3> HIDE DEF all, taken
    <3> QED BY <3>1, <3>2 DEF Injection, IsInjective
  <2>3. IsFiniteSet(all) /\ IsFiniteSet(all \ {id})
    BY <1>1, IdsFinite DEF Typed
  <2>4. IsFiniteSet(Slots) /\ Cardinality(Slots) = SlotCount
    <3>1. SlotCount \in Nat \ {0} /\ 1 \in Int /\ SlotCount \in Int
      BY Constants
    <3>2. /\ IsFiniteSet(1..SlotCount)
          /\ Cardinality(1..SlotCount) = IF 1 > SlotCount THEN 0 ELSE SlotCount - 1 + 1
      BY <3>1, FS_Interval
    <3> QED BY <3>1, <3>2 DEF Slots
  <2> HIDE DEF all, taken
  <2>5. Cardinality(Slots) <= Cardinality(all \ {id})
    BY <2>2, <2>3, FS_Injection
  <2>6. Cardinality(all \ {id}) = Cardinality(all) - 1 /\ Cardinality(all) \in Nat
    <3>1. id \in all
      BY DEF all
    <3> QED BY <2>3, <3>1, FS_RemoveElement, FS_CardinalityType
  <2>7. Cardinality(all) > SlotCount
    BY <1>1, <2>4, <2>5, <2>6
  <2>8. live' \cup found' = all
    BY DEF all
  <2>9. \A k \in Slots : slots'[k].id \in live' \cup found' \cup {Free}
    BY DEF FullOrFound
  <2> QED BY <2>7, <2>8, <2>9 DEF FullOrFound
<1> QED BY <1>2, <1>3, <1>4, <1>5

LEMMA StartType == Start \in Nat /\ Hour <= Start
<1>1. Hour \in Nat \ {0} /\ Hour = PerMinute * PerHour
  BY HourType DEF Hour
<1>2. 2 * PerMinute * PerHour = 2 * (PerMinute * PerHour)
  BY Constants, SMT
<1> HIDE DEF Hour
<1>3. Start = 2 * Hour - 1
  BY <1>1, <1>2 DEF Start
<1> QED BY <1>1, <1>3

LEMMA IInvInit == Init => IInv
<1> SUFFICES ASSUME Init PROVE IInv
  OBVIOUS
<1>1. Len(Order) \in Nat /\ Free \notin Ids
  BY Constants
<1>2. Start \in Nat /\ Hour <= Start /\ Hour \in Nat \ {0}
  BY StartType, HourType
<1>3. Fresh \in Data
  BY FreshHolds
<1>4. Typed
  <2> HIDE DEF Start
  <2>1. clock \in Nat
    BY <1>2 DEF Init
  <2> QED BY <1>1, <1>3, <2>1 DEF Init, Typed
<1>5. OneSlotEach /\ AllHold /\ FullOrFound
  BY <1>1 DEF Init, OneSlotEach, AllHold, FullOrFound
<1>6. TimePasses
  <2> HIDE DEF Start
  <2>1. Hour <= clock + 1 /\ next = 0 /\ written = {}
    BY <1>2 DEF Init
  <2> QED BY <2>1 DEF TimePasses
<1> QED BY <1>4, <1>5, <1>6 DEF IInv

(* The device looked at next is written, or passed over. *)
LEMMA RecordKeeps ==
  ASSUME IInv, Record
  PROVE  IInv'
<1> DEFINE id == Order[next]
<1>1. next \in 1..Len(Order) /\ next' = next + 1 /\ UNCHANGED <<clock, live>>
  BY DEF Record
<1>2. /\ id \in Ids /\ Len(Order) \in Nat /\ Free \notin Ids
  BY <1>1, Constants DEF Ids
<1>3. CASE UNCHANGED <<slots, written, found>>
  <2>1. Typed'
    BY <1>1, <1>2, <1>3 DEF IInv, Typed
  <2>2. OneSlotEach' /\ AllHold' /\ FullOrFound'
    BY <1>1, <1>3 DEF IInv, OneSlotEach, AllHold, Times, FullOrFound
  <2>3. \A i \in 1..(next - 1) : i \in 1..(next' - 1)
    BY <1>1, <1>2
  <2>4. TimePasses'
    BY <1>1, <1>2, <1>3, <2>3 DEF IInv, TimePasses
  <2> QED BY <2>1, <2>2, <2>4 DEF IInv
<1>4. CASE Write(id) /\ found' = found \cup {id}
  <2>1. CASE \E k \in Slots : First(k, Holding(id)) /\ Put(k, id, slots[k].data)
    <3>1. PICK k \in Slots : First(k, Holding(id)) /\ Put(k, id, slots[k].data)
      BY <2>1
    <3>2. slots[k].id = id /\ id # Free
      BY <1>2, <3>1 DEF First, Holding
    <3>3. slots[k].data \in Data /\ Holds(slots[k].data, id, Times(id))
      BY <3>2 DEF IInv, Typed, AllHold
    <3>4. \A j \in Slots : slots[j].id = id => j = k
      BY <3>2 DEF IInv, OneSlotEach
    <3> HIDE DEF id
    <3> QED BY <1>1, <1>4, <3>1, <3>2, <3>3, <3>4, PutKeeps DEF id
  <2>2. CASE Holding(id) = {} /\ \E k \in Slots : First(k, Holding(Free)) /\ Put(k, id, Fresh)
    <3>1. PICK k \in Slots : First(k, Holding(Free)) /\ Put(k, id, Fresh)
      BY <2>2
    <3>2. slots[k].id = Free /\ \A j \in Slots : slots[j].id # id
      BY <2>2, <3>1 DEF First, Holding
    <3>3. Times(id) = {}
      BY <3>2 DEF IInv, OneSlotEach, Times
    <3>4. Fresh \in Data /\ Holds(Fresh, id, Times(id))
      BY <3>3, FreshHolds
    <3> HIDE DEF id
    <3> QED BY <1>1, <1>4, <3>1, <3>2, <3>4, PutKeeps DEF id
  <2>3. CASE Holding(id) \cup Holding(Free) = {} /\ UNCHANGED <<slots, written>>
    <3> HIDE DEF id
    <3> QED BY <1>1, <1>4, <2>3, DropKeeps DEF id
  <2> QED BY <1>4, <2>1, <2>2, <2>3 DEF Write
<1> QED BY <1>3, <1>4 DEF Record

LEMMA BeginKeeps ==
  ASSUME IInv, Begin
  PROVE  IInv'
<1>1. /\ next = 0 /\ clock' = clock + 1 /\ next' \in {1, Len(Order) + 1}
      /\ UNCHANGED <<slots, live, found, written>> /\ Len(Order) \in Nat
  BY Constants DEF Begin
<1>2. Typed'
  BY <1>1 DEF IInv, Typed
<1>3. OneSlotEach' /\ AllHold' /\ FullOrFound'
  BY <1>1 DEF IInv, OneSlotEach, AllHold, Times, FullOrFound
<1>4. TimePasses'
  <2>1. Hour \in Nat /\ clock \in Nat /\ Hour <= clock + 1
    BY HourType DEF IInv, Typed, TimePasses
  <2>2. Hour <= clock' + 1 /\ Hour <= clock'
    BY <1>1, <2>1
  <2>3. ASSUME NEW w \in written PROVE Hour <= w[2] /\ w[2] <= clock' /\ w[2] # clock'
    BY <1>1, <2>1, <2>3 DEF IInv, TimePasses, Typed
  <2> QED BY <1>1, <2>2, <2>3 DEF TimePasses
<1> QED BY <1>2, <1>3, <1>4 DEF IInv

LEMMA RemoveStaleKeeps ==
  ASSUME IInv, NEW present \in SUBSET Ids, RemoveStale(present)
  PROVE  IInv'
<1>1. /\ next = Len(Order) + 1 /\ next' = 0 /\ live' = present /\ found' = {}
      /\ slots' = Freed(present) /\ clock' = clock /\ Len(Order) \in Nat
      /\ written' = {w \in written : \E k \in Slots : slots'[k].id = w[1]}
  BY Constants DEF RemoveStale
<1>2. Free \notin Ids /\ slots \in [Slots -> [id : Ids \cup {Free}, data : Data]]
  BY Constants DEF IInv, Typed
<1>3. \A k \in Slots : \/ slots'[k] = slots[k] /\ slots[k].id \in present
                       \/ slots'[k].id = Free
  BY <1>1 DEF Freed
<1>4. Typed'
  <2>1. slots' \in [Slots -> [id : Ids \cup {Free}, data : Data]]
    BY <1>1, <1>2 DEF Freed
  <2> QED BY <1>1, <2>1 DEF IInv, Typed
<1>5. OneSlotEach'
  <2>1. ASSUME NEW i \in Slots, NEW j \in Slots, slots'[i].id = slots'[j].id, slots'[i].id # Free
        PROVE  i = j
    <3>1. slots'[i] = slots[i] /\ slots'[j] = slots[j]
      BY <1>3, <2>1
    <3> QED BY <2>1, <3>1 DEF IInv, OneSlotEach
  <2> QED BY <1>1, <2>1 DEF OneSlotEach
<1>6. TimePasses'
  BY <1>1 DEF IInv, TimePasses
<1>7. AllHold'
  <2> DEFINE after(x) == {w[2] : w \in {w \in written' : w[1] = x}}
  <2>1. ASSUME NEW k \in Slots, slots'[k].id # Free
        PROVE  Holds(slots'[k].data, slots'[k].id, after(slots'[k].id))
    <3>1. slots'[k] = slots[k] /\ slots[k].id # Free
      BY <1>3, <2>1
    <3>2. {w \in written' : w[1] = slots[k].id} = {w \in written : w[1] = slots[k].id}
      BY <1>1, <3>1
    <3>3. after(slots[k].id) = Times(slots[k].id)
      BY <3>2 DEF Times
    <3> HIDE DEF after
    <3>4. Holds(slots[k].data, slots[k].id, Times(slots[k].id))
      BY <3>1 DEF IInv, AllHold
    <3> QED BY <3>1, <3>3, <3>4
  <2> QED BY <2>1 DEF AllHold, Times
<1>8. FullOrFound'
  BY <1>1, <1>3 DEF FullOrFound
<1> QED BY <1>4, <1>5, <1>6, <1>7, <1>8 DEF IInv

LEMMA IInvNext == IInv /\ [Next]_vars => IInv'
<1> SUFFICES ASSUME IInv, [Next]_vars PROVE IInv'
  OBVIOUS
<1>1. CASE Begin
  BY <1>1, BeginKeeps
<1>2. CASE Record
  BY <1>2, RecordKeeps
<1>3. CASE \E present \in SUBSET Ids : RemoveStale(present)
  BY <1>3, RemoveStaleKeeps
<1>4. CASE UNCHANGED vars
  BY <1>4 DEF vars, IInv, Typed, OneSlotEach, TimePasses, AllHold, Times, FullOrFound
<1> QED BY <1>1, <1>2, <1>3, <1>4 DEF Next


-----------------------------------------------------------------------------
(* What the parts of the invariant say in the terms of the properties.     *)
LEMMA SlotHolds ==
  ASSUME IInv, NEW k \in Taken
  PROVE  /\ k \in Slots /\ slots[k].data \in Data /\ Written(k) = Times(slots[k].id)
         /\ Recorded(Written(k)) /\ Holds(slots[k].data, slots[k].id, Written(k))
<1>1. k \in Slots /\ slots[k].id # Free
  BY DEF Taken
<1>2. Written(k) = Times(slots[k].id)
  BY DEF Written, Times
<1>3. slots[k].data \in Data /\ Holds(slots[k].data, slots[k].id, Times(slots[k].id))
  BY <1>1 DEF IInv, Typed, AllHold
<1>4. Recorded(Times(slots[k].id))
  BY TimesRecorded DEF IInv
<1> QED BY <1>1, <1>2, <1>3, <1>4

LEMMA LengthOfContents ==
  ASSUME NEW d \in Data
  PROVE  /\ Len(Seconds!Contents(d.second)) = Seconds!Size(d.second)
         /\ Len(Minutes!Contents(d.minute)) = Minutes!Size(d.minute)
         /\ Len(Hours!Contents(d.hour)) = Hours!Size(d.hour)
<1>1. /\ d.second \in SecondFacts!Buffers /\ d.minute \in MinuteFacts!Buffers
      /\ d.hour \in HourFacts!Buffers
  BY DEF Data
<1>2. ASSUME NEW n \in Nat, NEW f, f = [i \in 1..n |-> f[i]] PROVE Len(f) = n
  BY <1>2
<1>3. Len(SecondFacts!Contents(d.second)) = SecondFacts!Size(d.second)
  <2>1. SecondFacts!Size(d.second) \in 0..SecondsKept
    BY <1>1, Constants, SecondFacts!SizeType
  <2>2. SecondFacts!Contents(d.second) =
          [i \in 1..SecondFacts!Size(d.second) |->
             d.second.storage[(d.second.start + i - 1) % SecondsKept]]
    BY <1>1, Constants, SecondFacts!IteratorVisitsAll
  <2> QED BY <2>1, <2>2
<1>4. Len(MinuteFacts!Contents(d.minute)) = MinuteFacts!Size(d.minute)
  <2>1. MinuteFacts!Size(d.minute) \in 0..MinutesKept
    BY <1>1, Constants, MinuteFacts!SizeType
  <2>2. MinuteFacts!Contents(d.minute) =
          [i \in 1..MinuteFacts!Size(d.minute) |->
             d.minute.storage[(d.minute.start + i - 1) % MinutesKept]]
    BY <1>1, Constants, MinuteFacts!IteratorVisitsAll
  <2> QED BY <2>1, <2>2
<1>5. Len(HourFacts!Contents(d.hour)) = HourFacts!Size(d.hour)
  <2>1. HourFacts!Size(d.hour) \in 0..HoursKept
    BY <1>1, Constants, HourFacts!SizeType
  <2>2. HourFacts!Contents(d.hour) =
          [i \in 1..HourFacts!Size(d.hour) |->
             d.hour.storage[(d.hour.start + i - 1) % HoursKept]]
    BY <1>1, Constants, HourFacts!IteratorVisitsAll
  <2> QED BY <2>1, <2>2
<1> QED BY <1>3, <1>4, <1>5, SameSeconds, SameMinutes, SameHours

(* What a buffer that keeps the newest of some times holds, in order. *)
LEMMA NewestAreLast ==
  ASSUME NEW times
  PROVE  /\ \A rb : SecondFacts!KeepsNewest(rb, times)
                   /\ Len(Seconds!Contents(rb)) = Seconds!Size(rb)
                     => AreLast(Seconds!Contents(rb), times, SecondsKept)
         /\ \A rb : MinuteFacts!KeepsNewest(rb, times)
                   /\ Len(Minutes!Contents(rb)) = Minutes!Size(rb)
                     => AreLast(Minutes!Contents(rb), times, MinutesKept)
         /\ \A rb : HourFacts!KeepsNewest(rb, times)
                   /\ Len(Hours!Contents(rb)) = Hours!Size(rb)
                     => AreLast(Hours!Contents(rb), times, HoursKept)
<1>1. \A t : /\ SecondFacts!After(t, times) = {s \in times : s > t}
             /\ MinuteFacts!After(t, times) = {s \in times : s > t}
             /\ HourFacts!After(t, times) = {s \in times : s > t}
  BY DEF SecondFacts!After, MinuteFacts!After, HourFacts!After
<1>2. ASSUME NEW rb, SecondFacts!KeepsNewest(rb, times),
             Len(Seconds!Contents(rb)) = Seconds!Size(rb)
      PROVE  AreLast(Seconds!Contents(rb), times, SecondsKept)
  BY <1>1, <1>2, SameSize, SameSeconds DEF AreLast, SecondFacts!KeepsNewest
<1>3. ASSUME NEW rb, MinuteFacts!KeepsNewest(rb, times),
             Len(Minutes!Contents(rb)) = Minutes!Size(rb)
      PROVE  AreLast(Minutes!Contents(rb), times, MinutesKept)
  BY <1>1, <1>3, SameSize, SameMinutes DEF AreLast, MinuteFacts!KeepsNewest
<1>4. ASSUME NEW rb, HourFacts!KeepsNewest(rb, times),
             Len(Hours!Contents(rb)) = Hours!Size(rb)
      PROVE  AreLast(Hours!Contents(rb), times, HoursKept)
  BY <1>1, <1>4, SameSize, SameHours DEF AreLast, HourFacts!KeepsNewest
<1> QED BY <1>2, <1>3, <1>4

LEMMA IInvKeepsLatest == IInv => KeepsLatest
<1> SUFFICES ASSUME IInv PROVE KeepsLatest
  OBVIOUS
<1>1. \A j, k \in Taken : slots[j].id = slots[k].id => j = k
  BY DEF IInv, OneSlotEach, Taken
<1>2. ASSUME NEW k \in Taken
      PROVE  LET kept == Seconds!Contents(slots[k].data.second)
             IN /\ Len(kept) = Seconds!Size(slots[k].data.second)
                /\ AreLast(kept, Written(k), SecondsKept)
                /\ \A i \in 1..Len(kept) : kept[i].data = {<<slots[k].id, kept[i].time>>}
  <2> DEFINE rb == slots[k].data.second
             id == slots[k].id
  <2>1. SecondsHold(rb, id, Written(k))
    BY SlotHolds DEF Holds
  <2>2. Len(Seconds!Contents(rb)) = Seconds!Size(rb)
    BY SlotHolds, LengthOfContents
  <2> HIDE DEF rb, id
  <2>3. AreLast(Seconds!Contents(rb), Written(k), SecondsKept)
    BY <2>1, <2>2, NewestAreLast DEF SecondsHold
  <2>4. \A i \in 1..Len(Seconds!Contents(rb)) :
          Seconds!Contents(rb)[i].data = {<<id, Seconds!Contents(rb)[i].time>>}
    BY <2>1, <2>2 DEF SecondsHold
  <2> QED BY <2>2, <2>3, <2>4 DEF rb, id
<1> QED BY <1>1, <1>2 DEF KeepsLatest

LEMMA IInvMinutesAreAverages == IInv => MinutesAreAverages
<1> SUFFICES ASSUME IInv, NEW k \in Taken,
                    NEW i \in 1..Len(Minutes!Contents(slots[k].data.minute))
             PROVE  LET minutes == Minutes!Contents(slots[k].data.minute)
                    IN minutes[i].data = Values(k, Within(minutes[i].time, PerMinute, k))
  BY DEF MinutesAreAverages
<1> DEFINE rb == slots[k].data.minute
           m == Minutes!Contents(rb)[i]
<1>1. i \in 1..Minutes!Size(rb)
  BY SlotHolds, LengthOfContents
<1>2. MinutesHold(rb, slots[k].id, Written(k))
  BY SlotHolds DEF Holds
<1>3. m.data = Readings(slots[k].id, In(m.time, PerMinute, Written(k)))
  BY <1>1, <1>2 DEF MinutesHold
<1>4. Within(m.time, PerMinute, k) = In(m.time, PerMinute, Written(k))
  BY DEF Within, In
<1>5. \A times : Values(k, times) = Readings(slots[k].id, times)
  BY DEF Values, Readings
<1> QED BY <1>3, <1>4, <1>5

LEMMA IInvHoursLackLastMinute == IInv => HoursLackLastMinute
<1> SUFFICES ASSUME IInv, NEW k \in Taken,
                    NEW i \in 1..Len(Hours!Contents(slots[k].data.hour))
             PROVE  LET hours == Hours!Contents(slots[k].data.hour)
                        times == Within(hours[i].time, Hour, k)
                        minutes == {t \div PerMinute : t \in times}
                    IN /\ times # {}
                       /\ hours[i].data =
                            {Values(k, Within(m * PerMinute, PerMinute, k)) :
                               m \in {m \in minutes : \E later \in minutes : m < later}}
  BY DEF HoursLackLastMinute
<1> DEFINE rb == slots[k].data.hour
           h == Hours!Contents(rb)[i]
           times == Within(h.time, Hour, k)
           ended == {m \in MinutesOf(times) : \E later \in MinutesOf(times) : m < later}
<1>1. i \in 1..Hours!Size(rb)
  BY SlotHolds, LengthOfContents
<1>2. HoursHold(rb, slots[k].id, Written(k))
  BY SlotHolds DEF Holds
<1>3. h.data = HourOf(slots[k].id, h.time, Written(k)) /\ In(h.time, Hour, Written(k)) # {}
  BY <1>1, <1>2 DEF HoursHold, HoursAverage
<1>4. \A t, unit : Within(t, unit, k) = In(t, unit, Written(k))
  BY DEF Within, In
<1>5. \A s : Values(k, s) = Readings(slots[k].id, s)
  BY DEF Values, Readings
<1>6. HourOf(slots[k].id, h.time, Written(k)) =
        {Readings(slots[k].id, In(m * PerMinute, PerMinute, Written(k))) : m \in ended}
  BY <1>4 DEF HourOf
<1>7. \A m : Readings(slots[k].id, In(m * PerMinute, PerMinute, Written(k)))
               = Values(k, Within(m * PerMinute, PerMinute, k))
  BY <1>4, <1>5
<1>8. h.data = {Values(k, Within(m * PerMinute, PerMinute, k)) : m \in ended}
  <2> HIDE DEF ended, h
  <2> QED BY <1>3, <1>6, <1>7
<1>9. times # {}
  BY <1>3, <1>4
<1>10. MinutesOf(times) = {t \div PerMinute : t \in times}
  BY DEF MinutesOf
<1> QED BY <1>8, <1>9, <1>10


LEMMA IInvNothingLeftOut == IInv => NothingLeftOut
<1> SUFFICES ASSUME IInv, NEW k \in Taken
             PROVE  /\ AreLast(Minutes!Contents(slots[k].data.minute),
                               Over(Written(k), PerMinute), MinutesKept)
                    /\ AreLast(Hours!Contents(slots[k].data.hour),
                               OverWithMinutes(Written(k)), HoursKept)
  BY DEF NothingLeftOut
<1>1. /\ MinuteFacts!KeepsNewest(slots[k].data.minute, Over(Written(k), PerMinute))
      /\ HourFacts!KeepsNewest(slots[k].data.hour, OverWithMinutes(Written(k)))
  BY SlotHolds DEF Holds, MinutesHold, HoursHold
<1>2. /\ Len(Minutes!Contents(slots[k].data.minute)) = Minutes!Size(slots[k].data.minute)
      /\ Len(Hours!Contents(slots[k].data.hour)) = Hours!Size(slots[k].data.hour)
  BY SlotHolds, LengthOfContents
<1> QED BY <1>1, <1>2, NewestAreLast

(* A slot of inverter_data is always free or belongs to a device.          *)
THEOREM TypeCorrect == Spec => []TypeOK
<1>1. IInv => TypeOK
  BY DEF IInv, Typed, TypeOK
<1> QED BY <1>1, IInvInit, IInvNext, PTL DEF Spec

(* The seconds of a device in inverter_data are always the newest ones     *)
(* written of it, in order and of no other device.                         *)
THEOREM SlotsKeepLatest == Spec => []KeepsLatest
<1> QED BY IInvKeepsLatest, IInvInit, IInvNext, PTL DEF Spec

(* Every minute of inverter_data is the average of all seconds in it.      *)
THEOREM MinutesAverageSeconds == Spec => []MinutesAreAverages
<1> QED BY IInvMinutesAreAverages, IInvInit, IInvNext, PTL DEF Spec

(* Every hour of inverter_data averages its minutes but for the last.      *)
THEOREM HoursMissLastMinute == Spec => []HoursLackLastMinute
<1> QED BY IInvHoursLackLastMinute, IInvInit, IInvNext, PTL DEF Spec

(* No minute that is over is left out, nor any hour but a first one with   *)
(* values in only one minute, for every pattern of pauses.                 *)
THEOREM HistoryHasNoGaps == Spec => []NothingLeftOut
<1> QED BY IInvNothingLeftOut, IInvInit, IInvNext, PTL DEF Spec

(* With a slot for every device of this round and the last one, none that  *)
(* is still there is left out when the stale ids are removed.              *)
THEOREM StayingAlwaysRecorded == Spec => StayingIsRecorded
<1>1. ASSUME IInv, NEW present \in SUBSET Ids, RemoveStale(present),
             Cardinality(live \cup found) <= SlotCount, NEW id \in found \cap present
      PROVE  \E k \in Slots : slots'[k].id = id
  <2>1. PICK k \in Slots : slots[k].id = id
    <3>1. Cardinality(live \cup found) \in Nat /\ SlotCount \in Nat
      <4>1. live \cup found \in SUBSET Ids
        BY <1>1 DEF IInv, Typed
      <4> QED BY <4>1, IdsFinite, FS_CardinalityType, Constants
    <3> QED BY <1>1, <3>1 DEF IInv, FullOrFound
  <2>2. slots'[k] = slots[k]
    BY <1>1, <2>1 DEF RemoveStale, Freed
  <2> QED BY <2>1, <2>2
<1>2. IInv => [\A present \in SUBSET Ids :
                 RemoveStale(present) /\ Cardinality(live \cup found) <= SlotCount
                   => \A id \in found \cap present : \E k \in Slots : slots'[k].id = id]_vars
  BY <1>1
<1> QED BY <1>2, IInvInit, IInvNext, PTL DEF Spec, StayingIsRecorded


=============================================================================
