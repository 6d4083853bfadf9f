------------------------------- MODULE History -------------------------------
(***************************************************************************)
(* The history of the inverter devices, src/src/history_data.cpp, as       *)
(* modbus_task writes it once a round.  A device id is given a slot when   *)
(* it is first written and loses it when no inverter reports the id any    *)
(* more; a slot holds one value per second, minute and hour.  soc_data is  *)
(* the same with other ids and slots; meter_data has one device, always    *)
(* there.                                                                  *)
(*                                                                         *)
(* A write of one device is a step, and so is the removal of the stale     *)
(* ids: each holds the mutex of the data, and between two of them the      *)
(* answers of the inverters may make a device come or go, so each step     *)
(* looks anew which devices there are.                                     *)
(*                                                                         *)
(* The value measured of device id at time t is {<<id, t>>}, and an        *)
(* average is the set of what it averages; the empty one is 0 / 0, a NaN.  *)
(***************************************************************************)
EXTENDS Integers, Sequences, FiniteSets

CONSTANTS Order,          (* the ids, in the order modbus_task writes them   *)
          SlotCount,
          PerMinute,      (* seconds a minute, and samples looked at         *)
          PerHour,        (* minutes an hour, and minutes looked at          *)
          SecondsKept, MinutesKept, HoursKept,
          Rounds          (* bound on the rounds                             *)

(* get_next_device_id counts: no two devices have the same id (that two    *)
(* tasks are in its unguarded increment at once is left out).              *)
ASSUME HistoryAssumption ==
  /\ Order \in Seq(Nat \ {0})
  /\ \A i, j \in 1..Len(Order) : Order[i] = Order[j] => i = j
  /\ {SlotCount, PerMinute, PerHour, Rounds} \subseteq Nat \ {0}
  /\ SecondsKept \in Nat /\ SecondsKept >= PerMinute
  /\ MinutesKept \in Nat /\ MinutesKept >= PerHour
  /\ HoursKept \in Nat \ {0}

Zero == [data |-> {}, time |-> 0]
Seconds == INSTANCE RingBuffer WITH N <- SecondsKept, Zero <- Zero
Minutes == INSTANCE RingBuffer WITH N <- MinutesKept, Zero <- Zero
Hours == INSTANCE RingBuffer WITH N <- HoursKept, Zero <- Zero

VARIABLES slots,     (* inverter_data                                        *)
          next,      (* the place in Order of the device looked at next, 0   *)
                     (* between two rounds                                   *)
          clock,     (* the time of the round                                *)
          live,      (* the ids there were at the end of the last round      *)
          found,     (* the ids that were there when this round wrote them   *)
          written    (* the values written of every id that has a slot       *)

vars == <<slots, next, clock, live, found, written>>

Ids == {Order[i] : i \in 1..Len(Order)}
Free == -1
Slots == 1..SlotCount
Fresh == [second |-> Seconds!Empty, minute |-> Minutes!Empty, hour |-> Hours!Empty]

(* The first round is in the last second of an hour, and no unit of time   *)
(* is 0, the time of an element never written.                             *)
Start == 2 * PerMinute * PerHour - 1

(* The definitions that end in a mistake (ForgetsFree, KeepsData, ...) are *)
(* mutants, used by no action: PROJECT.json lists what catches each.       *)
InitForgetsFree ==
  /\ slots = [s \in Slots |-> [id |-> 0, data |-> Fresh]]
  /\ next = 0 /\ clock = Start - 1
  /\ live = {} /\ found = {} /\ written = {}

Init == /\ slots = [s \in Slots |-> [id |-> Free, data |-> Fresh]]
        /\ next = 0 /\ clock = Start - 1
        /\ live = {} /\ found = {} /\ written = {}

-----------------------------------------------------------------------------
Hour == PerMinute * PerHour

(* The mean of those of the entries, the newest of a buffer, that lie in   *)
(* the unit of time prev.                                                  *)
AverageOfAll(entries, unit, prev) ==
  [data |-> {e.data : e \in entries}, time |-> prev * unit]
Average(entries, unit, prev) ==
  [data |-> {e.data : e \in {e \in entries : e.time \div unit = prev}},
   time |-> prev * unit]

(* A unit of time is over when the first value of another is written; last *)
(* is the time of the last value.                                          *)
IsOverOnTheDot(last, unit, now) == now % unit = 0
IsOver(last, unit, now) == last \div unit # now \div unit

(* add_data: the hour that is over is averaged before the last of its      *)
(* minutes has been added, and passed over if there is none before it.     *)
AddData(d, value, now) ==
  LET last == Seconds!At(d.second, -1).time
      newMinute == Seconds!Size(d.second) > 0 /\ IsOver(last, PerMinute, now)
      newHour == Minutes!Size(d.minute) > 0 /\ IsOver(last, Hour, now)
      seconds == {Seconds!At(d.second, i) : i \in -PerMinute..-1}
      minutes == {Minutes!At(d.minute, i) : i \in -PerHour..-1}
  IN [second |-> Seconds!Push(d.second, [data |-> value, time |-> now]),
      minute |-> IF newMinute
                 THEN Minutes!Push(d.minute, Average(seconds, PerMinute, last \div PerMinute))
                 ELSE d.minute,
      hour |-> IF newHour
               THEN Hours!Push(d.hour, Average(minutes, Hour, last \div Hour))
               ELSE d.hour]

Holding(id) == {k \in Slots : slots[k].id = id}
First(k, S) == k \in S /\ \A j \in S : k <= j

(* The value of device id goes to what slot k is left with. *)
Put(k, id, data) ==
  /\ slots' = [slots EXCEPT ![k] = [id |-> id, data |-> AddData(data, {<<id, clock>>}, clock)]]
  /\ written' = written \cup {<<id, clock>>}

(* write_inverter_data: a device without a slot gets the first free one;   *)
(* when everything is full the value is dropped.                           *)
WriteKeepsData(id) ==
  \/ \E k \in Slots : First(k, Holding(id)) /\ Put(k, id, slots[k].data)
  \/ /\ Holding(id) = {}
     /\ \E k \in Slots : First(k, Holding(Free)) /\ Put(k, id, slots[k].data)
  \/ Holding(id) \cup Holding(Free) = {} /\ UNCHANGED <<slots, written>>

Write(id) ==
  \/ \E k \in Slots : First(k, Holding(id)) /\ Put(k, id, slots[k].data)
  \/ /\ Holding(id) = {}
     /\ \E k \in Slots : First(k, Holding(Free)) /\ Put(k, id, Fresh)
  \/ Holding(id) \cup Holding(Free) = {} /\ UNCHANGED <<slots, written>>

(* A round begins; it writes nothing as long as the time is unknown. *)
Begin == /\ next = 0 /\ clock + 1 < Start + Rounds
         /\ clock' = clock + 1
         /\ next' \in {1, Len(Order) + 1}
         /\ UNCHANGED <<slots, live, found, written>>

(* The next device is written if it is there. *)
Record ==
  /\ next \in 1..Len(Order) /\ next' = next + 1
  /\ \/ Write(Order[next]) /\ found' = found \cup {Order[next]}
     \/ UNCHANGED <<slots, written, found>>
  /\ UNCHANGED <<clock, live>>

(* The slots of the devices that are no longer there are reset; what they  *)
(* held stays until the slot is given away.                                *)
FreedForgets(present) == slots
Freed(present) ==
  [k \in Slots |-> IF slots[k].id \in present THEN slots[k]
                   ELSE [id |-> Free, data |-> slots[k].data]]

RemoveStale(present) ==
  /\ next = Len(Order) + 1 /\ next' = 0
  /\ live' = present /\ found' = {}
  /\ slots' = Freed(present)
  /\ written' = {w \in written : \E k \in Slots : slots'[k].id = w[1]}
  /\ UNCHANGED clock

Next == Begin \/ Record \/ \E present \in SUBSET Ids : RemoveStale(present)

Spec == Init /\ [][Next]_vars

-----------------------------------------------------------------------------
(* A slot of inverter_data is free or belongs to a device id.              *)
TypeOK ==
  /\ next \in 0..(Len(Order) + 1) /\ clock \in Nat
  /\ live \subseteq Ids /\ found \subseteq Ids /\ written \subseteq Ids \X Nat
  /\ \A k \in Slots : slots[k].id \in Ids \cup {Free}

Taken == {k \in Slots : slots[k].id # Free}
Written(k) == {w[2] : w \in {w \in written : w[1] = slots[k].id}}
Within(t, unit, k) == {s \in Written(k) : s \div unit = t \div unit}
Values(k, times) == {{<<slots[k].id, t>>} : t \in times}

(* The elements of kept are those of the last n of times, in order.        *)
AreLast(kept, times, n) ==
  /\ Len(kept) = IF Cardinality(times) < n THEN Cardinality(times) ELSE n
  /\ \A i \in 1..Len(kept) :
       /\ kept[i].time \in times
       /\ Cardinality({s \in times : s > kept[i].time}) = Len(kept) - i

(* A device has one slot, and the slot holds the newest of the values      *)
(* written of that device, in order and of no other device, although slots *)
(* are given away with whatever the device before has left in them.        *)
KeepsLatest ==
  /\ \A j, k \in Taken : slots[j].id = slots[k].id => j = k
  /\ \A k \in Taken :
       LET kept == Seconds!Contents(slots[k].data.second)
       IN /\ Len(kept) = Seconds!Size(slots[k].data.second)
          /\ AreLast(kept, Written(k), SecondsKept)
          /\ \A i \in 1..Len(kept) : kept[i].data = {<<slots[k].id, kept[i].time>>}

(* A minute holds the average of all the values written in it, however     *)
(* few they are, long ago the last one was and often the buffer of the     *)
(* seconds has wrapped around.                                             *)
MinutesAreAverages ==
  \A k \in Taken :
    LET minutes == Minutes!Contents(slots[k].data.minute)
    IN \A i \in 1..Len(minutes) :
         minutes[i].data = Values(k, Within(minutes[i].time, PerMinute, k))

(* An hour holds the average of its minutes without the last one, which    *)
(* leaves nothing to average when that was the only one.                   *)
HoursLackLastMinute ==
  \A k \in Taken :
    LET hours == Hours!Contents(slots[k].data.hour)
    IN \A i \in 1..Len(hours) :
         LET times == Within(hours[i].time, Hour, k)
             minutes == {t \div PerMinute : t \in times}
         IN /\ times # {}
            /\ hours[i].data = {Values(k, Within(m * PerMinute, PerMinute, k)) :
                                  m \in {m \in minutes : \E later \in minutes : m < later}}

(* The units of time that are over, of all that values were written in;    *)
(* and the hours of them until whose end there were values in two minutes. *)
Over(times, unit) ==
  {(t \div unit) * unit : t \in {t \in times : \E s \in times : t \div unit < s \div unit}}
OverWithMinutes(times) ==
  {h \in Over(times, Hour) :
     \E a, b \in times : a \div PerMinute < b \div PerMinute /\ b \div Hour <= h \div Hour}

(* No minute is left out when it is over, however long the device paused,  *)
(* and no hour but the first one of a device that was written in only one  *)
(* minute of it.                                                           *)
NothingLeftOut ==
  \A k \in Taken :
    /\ AreLast(Minutes!Contents(slots[k].data.minute), Over(Written(k), PerMinute), MinutesKept)
    /\ AreLast(Hours!Contents(slots[k].data.hour), OverWithMinutes(Written(k)), HoursKept)

(* A device that is there when it is written and still at the end of the   *)
(* round is recorded, as long as there are slots for it and all that were  *)
(* there, also when the slots were full of others a round before.          *)
StayingIsRecorded ==
  [][\A present \in SUBSET Ids :
       RemoveStale(present) /\ Cardinality(live \cup found) <= SlotCount
         => \A id \in found \cap present : \E k \in Slots : slots'[k].id = id]_vars

=============================================================================
