-------------------------------- MODULE Rtc --------------------------------
(***************************************************************************)
(* The real-time clock rtl/ptp/rtc.v: a delta-sigma stage that keeps the   *)
(* fraction of the period, a pair of pre-adders that look one clock ahead  *)
(* (pre_pos, and pre_neg with one second taken off), and the accumulator.  *)
(* One step is one rising edge of clk; the strobes are pins that hold      *)
(* their value from one edge to the next.                                  *)
(*                                                                         *)
(* Times are counted in units of 1/256 ns and periods in 1/F of a unit.    *)
(* The firmware never raises RTC_SET_ADJ, so that adj_cnt stays at         *)
(* 0xffffffff and time_adj follows period_fix.                             *)
(***************************************************************************)
EXTENDS Integers

CONSTANTS
  Second,   \* units in a second (time_acc_modulo: 256 * 10^9)
  Word,     \* values of a pre-adder (2^38)
  F,        \* parts of a unit the delta-sigma stage keeps (2^24)
  Periods,  \* what period_in brings, in parts
  Offsets,  \* what offset_nsec brings: signed, taken modulo Word
  Loads,    \* what time_reg_sec_in and time_reg_ns_in bring
  MaxInc,   \* largest increment of one clock, in units
  MaxSec    \* bound: the second the model stops in

Stamp == [sec : Nat, ns : 0 .. Second - 1]

ASSUME WidthAssumption ==
  /\ Second \in Nat \ {0} /\ MaxInc \in Nat \ {0} /\ F \in Nat \ {0}
  /\ Word \in Nat
  /\ Second + 2 * MaxInc <= Word /\ Word <= 2 * Second
ASSUME InputAssumption ==
  /\ Periods \subseteq 0 .. MaxInc * F - 1
  /\ Offsets \subseteq Int
  /\ Loads \subseteq Stamp
  /\ MaxSec \in Nat

VARIABLES
  period_fix, time_adj,  \* the period and its copy one clock later
  adj,                   \* time_adj_08n_32f: whole units and parts
  delta,                 \* time_adj_16b_00n_24f: the parts fed back
  pre_pos, pre_neg,      \* the pre-adders
  acc, sec,              \* the time shown: units and seconds
  pins,                  \* the strobes and their data
  safe                   \* history: every load and offset so far was safe

clockVars == <<period_fix, time_adj, adj, delta, pre_pos, pre_neg, acc, sec>>
rtcVars   == <<clockVars, pins, safe>>
-----------------------------------------------------------------------------
None == [sec |-> 0, ns |-> -1]

(* time is None, offset 0 and period -1 while their strobes are low.       *)
Pins == [time : Loads \cup {None}, offset : Offsets \cup {0}, period : Periods \cup {-1}]
Idle == [time |-> None, offset |-> 0, period |-> -1]

Whole == adj \div F
Parts == adj % F

RtcInit ==
  /\ period_fix = 0 /\ time_adj = 0 /\ adj = 0 /\ delta = 0
  /\ pre_pos = 0 /\ pre_neg = 0 /\ acc = 0 /\ sec = 0
  /\ pins = Idle
  /\ safe = TRUE

(* The pre-adder is about to pass the second.                              *)
Carry == pre_pos >= Second

(* The time the accumulator will show after the next edge.                 *)
NextTime == IF Carry THEN (sec + 1) * Second + pre_neg ELSE sec * Second + pre_pos

(* Mutant: the fraction is not fed back.                                   *)
PeriodTruncated ==
  /\ period_fix' = IF pins.period = -1 THEN period_fix ELSE pins.period
  /\ time_adj' = period_fix
  /\ adj' = time_adj
  /\ delta' = Parts

(* The period register and the delta-sigma stage.                          *)
Period ==
  /\ period_fix' = IF pins.period = -1 THEN period_fix ELSE pins.period
  /\ time_adj' = period_fix
  /\ adj' = time_adj + delta
  /\ delta' = Parts

(* Mutant: on a carry the negative pre-adder goes on from the positive one.*)
PreAddersStale ==
  IF pins.time # None
  THEN /\ pre_pos' = pins.time.ns + Whole
       /\ pre_neg' = pins.time.ns + Whole
  ELSE LET next == IF Carry THEN pre_neg + Whole ELSE pre_pos + Whole + pins.offset
       IN  /\ pre_pos' = next % Word
           /\ pre_neg' = (pre_pos + Whole - Second) % Word

(* A load writes the same sum to both pre-adders; on a carry the negative  *)
(* pre-adder takes over, and an offset strobed on that edge has no effect. *)
PreAdders ==
  IF pins.time # None
  THEN /\ pre_pos' = pins.time.ns + Whole
       /\ pre_neg' = pins.time.ns + Whole
  ELSE LET next == IF Carry THEN pre_neg + Whole ELSE pre_pos + Whole + pins.offset
       IN  /\ pre_pos' = next % Word
           /\ pre_neg' = (next - Second) % Word

(* Mutant: the carry does not reach the seconds on the edge it appears.    *)
AccumulatorLateCarry ==
  IF pins.time # None
  THEN acc' = pins.time.ns /\ sec' = pins.time.sec
  ELSE /\ acc' = IF pre_pos > Second THEN pre_neg ELSE pre_pos
       /\ sec' = IF pre_pos > Second THEN sec + 1 ELSE sec

Accumulator ==
  IF pins.time # None
  THEN acc' = pins.time.ns /\ sec' = pins.time.sec
  ELSE /\ acc' = IF Carry THEN pre_neg ELSE pre_pos
       /\ sec' = IF Carry THEN sec + 1 ELSE sec

(* What a load or an offset must respect for the time to come out right:   *)
(* a load not in the last period of a second, and no offset at the         *)
(* roll-over, below zero or beyond the width of the pre-adder.             *)
Safe ==
  /\ pins.time # None => pins.time.ns + Whole < Second
  /\ pins.time = None /\ pins.offset # 0 =>
       ~Carry /\ pre_pos + Whole + pins.offset \in 0 .. Word - 1

Edge ==
  /\ sec < MaxSec
  /\ Period /\ PreAdders /\ Accumulator
  /\ safe' = (safe /\ Safe)

RtcNext == Edge /\ pins' \in Pins

RtcSpec == RtcInit /\ [][RtcNext]_rtcVars
-----------------------------------------------------------------------------
RtcTypeOK ==
  /\ period_fix \in 0 .. MaxInc * F - 1 /\ time_adj \in 0 .. MaxInc * F - 1
  /\ delta \in 0 .. F - 1 /\ adj \in 0 .. (MaxInc + 1) * F - 1
  /\ pre_pos \in 0 .. Word - 1 /\ pre_neg \in 0 .. Word - 1
  /\ acc \in 0 .. Word - 1 /\ sec \in Nat
  /\ pins \in Pins
  /\ safe \in BOOLEAN

(* The clock shows exactly what the pre-adders announced one edge before,  *)
(* and each edge adds exactly the increment and the offset: across the     *)
(* roll-over of the second nothing is lost or counted twice, and a load    *)
(* replaces the time (rtc.v:106-164).                                      *)
ExactStep ==
  [][LET base == IF pins.time # None
                 THEN pins.time.sec * Second + pins.time.ns ELSE NextTime
     IN  /\ sec' * Second + acc' = base
         /\ Safe => NextTime' = base + Whole
                      + IF pins.time = None THEN pins.offset ELSE 0]_rtcVars

(* No drift: the parts of the period cut off on one edge come back on a    *)
(* later one; counted in parts, time_adj is all that enters and the whole  *)
(* increments are all that leaves (rtc.v:90-104).                          *)
NoDrift ==
  [][adj' + delta' = adj + delta + time_adj - F * Whole]_rtcVars

(* As long as loads and offsets respect the limits, the nanoseconds shown  *)
(* are less than a second and both pre-adders agree.                       *)
TimeValid ==
  safe => /\ acc < Second
          /\ Carry => pre_neg = pre_pos - Second
=============================================================================
