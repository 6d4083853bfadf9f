------------------------------ MODULE EmmControl ------------------------------
(***************************************************************************)
(* The distribution of the power the home needs over the inverters         *)
(* (src/src/emm.cpp), as modbus_task asks for it after every round of      *)
(* readings (src/src/main.cpp).  Powers are integers, in a unit that is    *)
(* divided without a rest by the shares of the instance; the filter of the *)
(* home power rounds down.  Every inverter and battery has one maximum.    *)
(***************************************************************************)
EXTENDS Integers, FiniteSetsExt, SequencesExt

CONSTANTS Inverters,        (* an interval of numbers from 1 on               *)
          Socs,             (* what the batteries report                      *)
          MaxPower,         (* of an inverter and of its battery              *)
          Priorities, MinSocs, MaxExports

VARIABLES bat_priority, min_soc, max_export,    (* nobody assigns them: 0     *)
          power_info,       (* of the meter: import, or export if negative    *)
          read_power,       (* of each: [inverter |-> , pv |-> , bat_soc |-> ]*)
          power_max,        (* 0 before the first answer of the inverter      *)
          invert_home, home_power,
          needed_power,     (* history: of the last call of update_power      *)
          requested_power

config == <<bat_priority, min_soc, max_export>>
readings == <<power_info, read_power, power_max>>
vars == <<config, readings, invert_home, home_power, needed_power, requested_power>>

Init ==
  /\ bat_priority \in [Inverters -> Priorities]
  /\ min_soc \in [Inverters -> MinSocs] /\ max_export \in MaxExports
  /\ power_info = 0
  /\ read_power = [i \in Inverters |-> [inverter |-> 0, pv |-> 0, bat_soc |-> 0]]
  /\ power_max = [i \in Inverters |-> 0]
  /\ invert_home = FALSE /\ home_power = 0
  /\ needed_power = 0 /\ requested_power = [i \in Inverters |-> 0]

Powers == {-MaxPower, 0, MaxPower}   (* what the devices report               *)
Least(a, b) == Min({a, b})
Clamp(x, lo, hi) == Max({lo, Least(x, hi)})

-----------------------------------------------------------------------------
MaxExpPowAvail(i) ==
  Least(read_power[i].pv + IF read_power[i].bat_soc > min_soc[i] THEN power_max[i] ELSE 0, power_max[i])

MaxImpPowAvail(i) ==
  IF read_power[i].bat_soc >= 99 THEN 0 ELSE Max({0, power_max[i] - read_power[i].pv})

Fill == {i \in Inverters : read_power[i].bat_soc < min_soc[i]}  \* requires_charge
FillableFull == Inverters \ Fill
Fillable == {i \in FillableFull : read_power[i].bat_soc < 98}
Full == FillableFull \ Fillable

(* std::min(power_max, prio * power).  A priority of 0 makes its own share *)
(* 1 / (0 * infinity), which is no number and leaves the maximum, and those*)
(* of all others 1 / infinity.                                             *)
Share(i, power) ==
  LET others(k) == FoldSet(LAMBDA j, p : p * bat_priority[j], 1, FillableFull \ {k})
  IN IF bat_priority[i] = 0 THEN power_max[i]
     ELSE IF others(i) = 0 THEN 0
     ELSE Least(power_max[i], (power * others(i)) \div MapThenSumSet(others, FillableFull))

(* The first loop: shares of what the earlier ones left.                   *)
Remaining(needed, i) ==
  needed - MapThenSumSet(LAMBDA j : Max({0, read_power[j].inverter}), {j \in FillableFull : j < i})
Shared(needed) == [i \in FillableFull |-> Share(i, Remaining(needed, i))]

(* The second loop: the rest goes to those that can give more.             *)
Rest(needed, shared) ==
  FoldLeft(LAMBDA acc, i :
      LET avail == Least(acc.rest, MaxExpPowAvail(i) - acc.req[i])
      IN IF acc.rest > 0 /\ avail > 0
         THEN [rest |-> acc.rest - avail, req |-> [acc.req EXCEPT ![i] = @ + avail]]
         ELSE acc,
    [rest |-> Remaining(needed, Cardinality(Inverters) + 1), req |-> shared],
    SetToSortSeq(FillableFull, <)).req

(* The third loop: full inverters give their power to those that can be    *)
(* filled, and what is left to the grid.                                   *)
Overflow(req0, fillable_power) ==
  FoldLeft(LAMBDA acc, i :
      LET exp  == Clamp((read_power[i].bat_soc - 98) * power_max[i], 0, power_max[i])
          p    == Least(exp, fillable_power)
          rem  == IF exp > p THEN Least(exp - p, acc.left) ELSE 0
      IN [left |-> acc.left - rem,
          req |-> [j \in DOMAIN acc.req |->
                     IF j = i THEN acc.req[j] + p + rem
                     ELSE IF j \in Fillable /\ exp > 0
                     THEN acc.req[j] - p \div Cardinality(Fillable) ELSE acc.req[j]]],
    [left |-> max_export, req |-> req0], SetToSortSeq(Full, <)).req

UpdatePower(home_new) ==
  LET needed == home_power' + MapThenSumSet(MaxImpPowAvail, Fill)
      imp    == MapThenSumSet(MaxImpPowAvail, Inverters)
      asked  == Overflow(Rest(needed, Shared(needed)), imp)
  IN /\ home_power' = (9 * (IF invert_home THEN -home_new ELSE home_new) + home_power) \div 10
     /\ needed_power' = needed
     /\ requested_power' = [i \in Inverters |-> IF i \in Fill THEN -power_max[i] ELSE asked[i]]
     /\ UNCHANGED <<config, readings, invert_home>>

(* update_home_power: what the inverters give and the meter imports.       *)
Control == UpdatePower(power_info + MapThenSumSet(LAMBDA i : read_power[i].inverter, Inverters))

(* New readings arrive, with the maximum of an inverter that answers first. *)
Measure ==
  /\ power_info' \in Powers
  /\ read_power' \in [Inverters -> [inverter : Powers, pv : {0, MaxPower}, bat_soc : Socs]]
  /\ power_max' = [i \in Inverters |-> MaxPower]
  /\ UNCHANGED <<config, invert_home, home_power, needed_power, requested_power>>

(* The button of the page of the energy management.                        *)
InvertMeter == /\ invert_home' = ~invert_home
               /\ UNCHANGED <<config, readings, home_power, needed_power, requested_power>>

Next == Control \/ Measure \/ InvertMeter

Spec == Init /\ [][Next]_vars

-----------------------------------------------------------------------------
(* "trying to distribute the needed power to all inverters according to    *)
(* the bat priorities" (emm.cpp 45): while nothing is needed, no inverter  *)
(* whose battery is not full is asked for power.                           *)
NothingNeededNothingAsked ==
  [][Control => \A i \in Fillable :
       needed_power' <= 0 => requested_power'[i] <= 0]_vars
=============================================================================
