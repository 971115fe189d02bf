----------------------------- MODULE RtcProofs -------------------------------
(***************************************************************************)
(* The clock, for every modulo, word width, fraction width and period, and *)
(* the clock behind the registers the firmware writes.                     *)
(***************************************************************************)
EXTENDS RtcRegs, TLAPS

(***************************************************************************)
(* Rtc: the clock keeps time exactly as long as the widths leave room for  *)
(* two increments above a second (WidthAssumption).                        *)
(***************************************************************************)

(* The types of the clock, whatever times, offsets and periods are brought *)
(* to it: the pins may be driven by the registers (RtcRegs) or freely.     *)
WirePins == [time : Stamp \cup {None}, offset : Int, period : (0 .. MaxInc * F - 1) \cup {-1}]

ClockTypes ==
  /\ period_fix \in 0 .. MaxInc * F - 1 /\ time_adj \in 0 .. MaxInc * F - 1
  /\ delta \in 0 .. F - 1 /\ adj \in 0 .. (MaxInc + 1) * F - 1
  /\ pre_pos \in 0 .. Word - 1 /\ pre_neg \in 0 .. Word - 1
  /\ acc \in 0 .. Word - 1 /\ sec \in Nat
  /\ pins \in WirePins
  /\ safe \in BOOLEAN

(* Division as the delta-sigma stage uses it: the whole units leave, the   *)
(* parts stay.                                                             *)
LEMMA Division ==
  ASSUME NEW x \in Nat, NEW k \in Nat, x < (k + 1) * F
  PROVE  /\ x \div F \in 0 .. k
         /\ x % F \in 0 .. F - 1
         /\ x = F * (x \div F) + (x % F)
  <1> USE WidthAssumption
  <1>1. x \div F \in Nat /\ x % F \in 0 .. F - 1
    OBVIOUS
  <1>2. x \div F <= k
    OBVIOUS
  <1>3. x = F * (x \div F) + (x % F)
    OBVIOUS
  <1>4. QED
    BY <1>1, <1>2, <1>3

(* A sum reduced to the width of the pre-adder.                            *)
LEMMA Reduced ==
  ASSUME NEW x \in Int
  PROVE  /\ x % Word \in 0 .. Word - 1
         /\ x \in 0 .. Word - 1 => x % Word = x
         /\ x < 0 /\ x + Word >= 0 => x % Word = x + Word
  <1>1. Word \in Nat \ {0}
    BY WidthAssumption
  <1>2. QED
    BY <1>1

(* Taking off a second before or after the reduction is the same.          *)
LEMMA ReducedCarry ==
  ASSUME NEW x \in Int, x % Word >= Second
  PROVE  (x - Second) % Word = (x % Word) - Second
  <1> DEFINE r == x % Word
             q == x \div Word
  <1>1. Word \in Nat \ {0} /\ Second \in Nat /\ q \in Int /\ r \in 0 .. Word - 1
    BY WidthAssumption
  <1>2. x = Word * q + r
    BY <1>1
  <1>3. x - Second = Word * q + (r - Second) /\ r - Second \in 0 .. Word - 1
    BY <1>1, <1>2
  <1>4. ASSUME NEW W \in Nat \ {0}, NEW a \in Int, NEW m \in 0 .. W - 1
        PROVE  (W * a + m) % W = m
    OBVIOUS
  <1>5. QED
    BY <1>1, <1>3, <1>4

(* The increment of a clock is at most MaxInc.                             *)
LEMMA WholeBound == ClockTypes => Whole \in 0 .. MaxInc /\ Parts \in 0 .. F - 1
  <1> SUFFICES ASSUME ClockTypes PROVE Whole \in 0 .. MaxInc /\ Parts \in 0 .. F - 1
    OBVIOUS
  <1>1. adj \in Nat /\ adj < (MaxInc + 1) * F
    BY WidthAssumption DEF ClockTypes
  <1>2. QED
    BY <1>1, Division, WidthAssumption DEF Whole, Parts

(* What the pins can carry.                                                *)
LEMMA PinsType ==
  ASSUME NEW p \in WirePins
  PROVE  /\ p.time # None => p.time \in Stamp
         /\ p.offset \in Int
         /\ p.period # -1 => p.period \in 0 .. MaxInc * F - 1
  BY DEF WirePins

LEMMA PinsAreWirePins == Pins \subseteq WirePins
  <1>1. SUFFICES ASSUME NEW p \in Pins PROVE p \in WirePins
    OBVIOUS
  <1>2. /\ p = [time |-> p.time, offset |-> p.offset, period |-> p.period]
        /\ p.offset \in Offsets \cup {0} /\ p.time \in Loads \cup {None}
        /\ p.period \in Periods \cup {-1}
    BY DEF Pins
  <1>3. p.time \in Stamp \cup {None}
    BY <1>2, InputAssumption
  <1>4. p.offset \in Int
    BY <1>2, InputAssumption
  <1>5. p.period \in (0 .. MaxInc * F - 1) \cup {-1}
    BY <1>2, InputAssumption
  <1>6. QED
    BY <1>2, <1>3, <1>4, <1>5 DEF WirePins
-----------------------------------------------------------------------------
(* At reset the registers and the pins are 0.                              *)
LEMMA InitTypes == RtcInit => RtcTypeOK /\ ClockTypes
  <1> SUFFICES ASSUME RtcInit PROVE RtcTypeOK /\ ClockTypes
    OBVIOUS
  <1>1. 0 \in 0 .. MaxInc * F - 1 /\ 0 \in 0 .. (MaxInc + 1) * F - 1
    BY WidthAssumption
  <1>2. Idle \in Pins /\ Idle \in WirePins
    BY DEF Idle, Pins, WirePins
  <1>3. QED
    BY <1>1, <1>2, WidthAssumption DEF RtcInit, RtcTypeOK, ClockTypes

(* An edge keeps every register within its width.                          *)
LEMMA EdgeKeepsTypes ==
  ASSUME ClockTypes, Edge, pins' \in WirePins
  PROVE  ClockTypes'
  <1> USE WidthAssumption
  <1>1. Whole \in 0 .. MaxInc /\ Parts \in 0 .. F - 1
    BY WholeBound
  <1>2. /\ period_fix' \in 0 .. MaxInc * F - 1 /\ time_adj' \in 0 .. MaxInc * F - 1
        /\ delta' \in 0 .. F - 1
    BY <1>1 DEF Edge, Period, WirePins, ClockTypes
  <1>3. adj' \in 0 .. (MaxInc + 1) * F - 1
    BY DEF Edge, Period, ClockTypes
  <1>4. CASE pins.time # None
    <2>1. pins.time \in Stamp
      BY <1>4, PinsType DEF ClockTypes
    <2>2. pre_pos' \in 0 .. Word - 1 /\ pre_neg' \in 0 .. Word - 1
      BY <1>1, <1>4, <2>1 DEF Edge, PreAdders, Stamp
    <2>3. acc' \in 0 .. Word - 1 /\ sec' \in Nat
      BY <1>4, <2>1 DEF Edge, Accumulator, Stamp
    <2>4. QED
      BY <1>2, <1>3, <2>2, <2>3 DEF ClockTypes, Edge
  <1>5. CASE pins.time = None
    <2>1. pins.offset \in Int
      BY PinsType DEF ClockTypes
    <2> DEFINE next == IF Carry THEN pre_neg + Whole ELSE pre_pos + Whole + pins.offset
    <2>2. next \in Int /\ next - Second \in Int
      BY <1>1, <2>1 DEF ClockTypes
    <2>3. pre_pos' = next % Word /\ pre_neg' = (next - Second) % Word
      BY <1>5 DEF Edge, PreAdders
    <2> HIDE DEF next
    <2>4. pre_pos' \in 0 .. Word - 1 /\ pre_neg' \in 0 .. Word - 1
      BY <2>2, <2>3, Reduced
    <2>5. acc' \in 0 .. Word - 1 /\ sec' \in Nat
      BY <1>5 DEF Edge, Accumulator, ClockTypes
    <2>6. QED
      BY <1>2, <1>3, <2>4, <2>5 DEF ClockTypes, Edge
  <1>6. QED
    BY <1>4, <1>5

(* The negative pre-adder takes over with less than a second and one       *)
(* increment, even right after a load that was not safe.                   *)
Takeover == Carry => pre_neg < Second + MaxInc

LEMMA EdgeKeepsTakeover ==
  ASSUME ClockTypes, Edge
  PROVE  Takeover'
  <1> USE WidthAssumption
  <1>1. CASE pins.time # None
    <2>1. pins.time \in Stamp /\ Whole \in 0 .. MaxInc
      BY <1>1, WholeBound, PinsType DEF ClockTypes
    <2>2. QED
      BY <1>1, <2>1 DEF Edge, PreAdders, Takeover, Carry, Stamp
  <1>2. CASE pins.time = None
    <2>1. Whole \in 0 .. MaxInc /\ pins.offset \in Int
      BY WholeBound, PinsType DEF ClockTypes
    <2> DEFINE next == IF Carry THEN pre_neg + Whole ELSE pre_pos + Whole + pins.offset
    <2>2. next \in Int
      BY <2>1 DEF ClockTypes
    <2>3. pre_pos' = next % Word /\ pre_neg' = (next - Second) % Word
      BY <1>2 DEF Edge, PreAdders
    <2>4. next % Word >= Second => pre_neg' = (next % Word) - Second
      BY <2>2, <2>3, ReducedCarry
    <2>5. next % Word \in 0 .. Word - 1
      BY <2>2, Reduced
    <2> HIDE DEF next
    <2>6. QED
      BY <2>3, <2>4, <2>5 DEF Takeover, Carry
  <1>3. QED
    BY <1>1, <1>2

(* Types and takeover are inductive together, whoever drives the pins.     *)
ClockInv == ClockTypes /\ Takeover

LEMMA InitClock == RtcInit => ClockInv
  BY InitTypes, WidthAssumption DEF RtcInit, ClockInv, Takeover, Carry

LEMMA ClockKeeps ==
  ASSUME ClockInv, [Edge /\ pins' \in WirePins]_rtcVars
  PROVE  ClockInv'
  <1>1. CASE UNCHANGED rtcVars
    BY <1>1 DEF rtcVars, clockVars, ClockInv, ClockTypes, Takeover, Carry
  <1>2. CASE Edge /\ pins' \in WirePins
    BY <1>2, EdgeKeepsTypes, EdgeKeepsTakeover DEF ClockInv
  <1>3. QED
    BY <1>1, <1>2

LEMMA RtcStep == [RtcNext]_rtcVars => [Edge /\ pins' \in WirePins]_rtcVars
  BY PinsAreWirePins DEF RtcNext

(* The clock with any pins; RtcSpec and, behind the registers, the clock   *)
(* the registers drive are instances of it.                                *)
ClockSpec == RtcInit /\ [][Edge /\ pins' \in WirePins]_rtcVars

LEMMA RtcIsClock == RtcSpec => ClockSpec
  BY RtcStep, PTL DEF RtcSpec, ClockSpec

LEMMA ClockHolds == ClockSpec => []ClockInv
  BY InitClock, ClockKeeps, PTL DEF ClockSpec

(* Nothing overflows: the registers keep within their widths.              *)
THEOREM RtcTypeCorrect == RtcSpec => []RtcTypeOK
  <1> DEFINE Free == pins \in Pins
  <1>1. ClockInv /\ Free => RtcTypeOK
    BY DEF ClockInv, ClockTypes, RtcTypeOK
  <1>2. RtcInit => Free
    BY InitTypes DEF RtcTypeOK
  <1>3. Free /\ [RtcNext]_rtcVars => Free'
    BY DEF RtcNext, rtcVars
  <1> HIDE DEF Free
  <1>4. QED
    BY <1>1, <1>2, <1>3, ClockHolds, RtcIsClock, PTL DEF RtcSpec
-----------------------------------------------------------------------------
(* No drift: the parts of a period that do not make a unit are never lost. *)
LEMMA NoPartLost ==
  ASSUME ClockTypes, Edge
  PROVE  adj' + delta' = adj + delta + time_adj - F * Whole
  <1>1. adj \in Nat /\ adj < (MaxInc + 1) * F /\ delta \in Nat /\ time_adj \in Nat
    BY WidthAssumption DEF ClockTypes
  <1>2. adj = F * Whole + Parts /\ Whole \in Nat /\ Parts \in Nat
    BY <1>1, Division, WidthAssumption DEF Whole, Parts
  <1>3. adj' + delta' = time_adj + delta + Parts
    BY <1>1, <1>2 DEF Edge, Period
  <1>4. F * Whole \in Nat
    BY <1>2, WidthAssumption
  <1>5. QED
    BY <1>1, <1>2, <1>3, <1>4

LEMMA ClockDriftFree == ClockSpec => NoDrift
  <1>1. ClockInv /\ [Edge /\ pins' \in WirePins]_rtcVars
        => [adj' + delta' = adj + delta + time_adj - F * Whole]_rtcVars
    BY NoPartLost DEF ClockInv
  <1>2. QED
    BY <1>1, ClockHolds, PTL DEF ClockSpec, NoDrift

THEOREM DriftFree == RtcSpec => NoDrift
  BY ClockDriftFree, RtcIsClock, PTL

(* Every edge adds exactly the whole increment and the offset to the time, *)
(* across every roll-over of the second, and shows what was announced.     *)
LEMMA EdgeIsExact ==
  ASSUME ClockInv, Edge
  PROVE  LET base == IF pins.time # None
                     THEN pins.time.sec * Second + pins.time.ns ELSE NextTime
         IN  /\ sec' * Second + acc' = base
             /\ Safe => NextTime' = base + Whole
                          + IF pins.time = None THEN pins.offset ELSE 0
  <1> DEFINE base == IF pins.time # None
                     THEN pins.time.sec * Second + pins.time.ns ELSE NextTime
             add == IF pins.time = None THEN pins.offset ELSE 0
  <1>0. ClockTypes /\ Takeover
    BY DEF ClockInv
  <1> USE WidthAssumption
  <1>1. Whole \in 0 .. MaxInc /\ pins.offset \in Int
        /\ (pins.time # None => pins.time \in Stamp)
    BY <1>0, WholeBound, PinsType DEF ClockTypes
  <1>2. /\ pre_pos \in 0 .. Word - 1 /\ pre_neg \in 0 .. Word - 1 /\ sec \in Nat
    BY <1>0 DEF ClockTypes
  <1>3. sec' * Second + acc' = base
    BY <1>1, <1>2 DEF Edge, Accumulator, NextTime, Stamp
  <1>4. ASSUME Safe, pins.time # None PROVE NextTime' = base + Whole + add
    <2>1. pre_pos' = pins.time.ns + Whole /\ sec' = pins.time.sec /\ ~Carry'
      BY <1>1, <1>4 DEF Edge, PreAdders, Accumulator, Safe, Carry, Stamp
    <2>2. QED
      BY <1>1, <1>4, <2>1 DEF NextTime, Stamp
  <1>5. ASSUME Safe, pins.time = None PROVE NextTime' = base + Whole + add
    <2> DEFINE next == IF Carry THEN pre_neg + Whole ELSE pre_pos + Whole + pins.offset
    <2>1. Carry => pins.offset = 0
      BY <1>5 DEF Safe
    <2>2. next \in 0 .. Word - 1
      <3>1. CASE Carry
        BY <1>0, <1>1, <1>2, <3>1 DEF Takeover
      <3>2. CASE ~Carry /\ pins.offset = 0
        BY <1>1, <1>2, <3>2 DEF Carry
      <3>3. CASE ~Carry /\ pins.offset # 0
        BY <1>5, <3>3 DEF Safe
      <3>4. QED
        BY <3>1, <3>2, <3>3
    <2>3. pre_pos' = next
      <3>1. pre_pos' = next % Word
        BY <1>5 DEF Edge, PreAdders
      <3> HIDE DEF next
      <3>2. QED
        BY <2>2, <3>1, Reduced
    <2>4. Carry' => pre_neg' = next - Second
      <3>1. pre_neg' = (next - Second) % Word
        BY <1>5 DEF Edge, PreAdders
      <3>2. next >= Second => next - Second \in 0 .. Word - 1
        BY <2>2
      <3>3. next - Second \in Int
        BY <2>2
      <3> HIDE DEF next
      <3>4. next >= Second => (next - Second) % Word = next - Second
        BY <3>2, <3>3, Reduced
      <3>5. QED
        BY <2>3, <3>1, <3>4 DEF Carry
    <2>5. NextTime' = sec' * Second + next
      <3>1. sec' \in Nat
        BY <1>2, <1>5 DEF Edge, Accumulator
      <3>2. (sec' + 1) * Second = sec' * Second + Second /\ sec' * Second \in Nat
        <4>1. \A a \in Nat : (a + 1) * Second = a * Second + Second /\ a * Second \in Nat
          OBVIOUS
        <4>2. QED
          BY <3>1, <4>1
      <3> HIDE DEF next
      <3>3. QED
        BY <2>2, <2>3, <2>4, <3>2 DEF NextTime
    <2>6. CASE Carry
      <3>1. sec' = sec + 1 /\ next = pre_neg + Whole
        BY <1>5, <2>6 DEF Edge, Accumulator
      <3>2. base = (sec + 1) * Second + pre_neg /\ (sec + 1) * Second \in Nat
        BY <1>2, <1>5, <2>6 DEF NextTime
      <3>3. QED
        BY <1>1, <1>2, <1>5, <2>1, <2>5, <2>6, <3>1, <3>2
    <2>7. CASE ~Carry
      <3>1. sec' = sec /\ next = pre_pos + Whole + pins.offset
        BY <1>5, <2>7 DEF Edge, Accumulator
      <3>2. base = sec * Second + pre_pos /\ sec * Second \in Nat
        BY <1>2, <1>5, <2>7 DEF NextTime
      <3>3. QED
        BY <1>1, <1>2, <1>5, <2>5, <3>1, <3>2
    <2>8. QED
      BY <2>6, <2>7
  <1>6. QED
    BY <1>3, <1>4, <1>5

LEMMA ClockKeepsTime == ClockSpec => ExactStep
  <1>1. ClockInv /\ [Edge /\ pins' \in WirePins]_rtcVars
        => [LET base == IF pins.time # None
                        THEN pins.time.sec * Second + pins.time.ns ELSE NextTime
            IN  /\ sec' * Second + acc' = base
                /\ Safe => NextTime' = base + Whole
                             + IF pins.time = None THEN pins.offset ELSE 0]_rtcVars
    BY EdgeIsExact
  <1>2. QED
    BY <1>1, ClockHolds, PTL DEF ClockSpec, ExactStep

THEOREM KeepsTime == RtcSpec => ExactStep
  BY ClockKeepsTime, RtcIsClock, PTL

(* As long as every load and offset respects the limits, the nanoseconds   *)
(* shown are less than a second.                                           *)
LEMMA EdgeKeepsValid ==
  ASSUME ClockTypes, TimeValid, Edge
  PROVE  TimeValid'
  <1> SUFFICES ASSUME safe' PROVE TimeValid'
    BY DEF TimeValid
  <1> USE WidthAssumption
  <1>1. /\ Whole \in 0 .. MaxInc /\ pins.offset \in Int
        /\ (pins.time # None => pins.time \in Stamp)
        /\ pre_pos \in 0 .. Word - 1 /\ pre_neg \in 0 .. Word - 1
    BY WholeBound, PinsType DEF ClockTypes
  <1>2. Safe /\ acc < Second /\ (Carry => pre_neg = pre_pos - Second)
    BY DEF Edge, TimeValid
  <1>3. CASE pins.time # None
    BY <1>1, <1>2, <1>3 DEF Edge, PreAdders, Accumulator, Safe, TimeValid, Carry, Stamp
  <1>4. CASE pins.time = None
    <2> DEFINE next == IF Carry THEN pre_neg + Whole ELSE pre_pos + Whole + pins.offset
    <2>1. acc' < Second
      BY <1>1, <1>2, <1>4 DEF Edge, Accumulator, Carry
    <2>2. next \in Int
      BY <1>1
    <2>3. pre_pos' = next % Word /\ pre_neg' = (next - Second) % Word
      BY <1>4 DEF Edge, PreAdders
    <2> HIDE DEF next
    <2>4. pre_pos' >= Second => pre_neg' = pre_pos' - Second
      BY <2>2, <2>3, ReducedCarry
    <2>5. QED
      BY <2>1, <2>4 DEF TimeValid, Carry
  <1>5. QED
    BY <1>3, <1>4

LEMMA ClockValid == ClockSpec => []TimeValid
  <1>1. RtcInit => TimeValid
    BY WidthAssumption DEF RtcInit, TimeValid, Carry
  <1>2. ClockInv /\ TimeValid /\ [Edge /\ pins' \in WirePins]_rtcVars => TimeValid'
    BY EdgeKeepsValid DEF ClockInv, rtcVars, clockVars, TimeValid, Carry
  <1>3. QED
    BY <1>1, <1>2, ClockHolds, PTL DEF ClockSpec

THEOREM AlwaysValid == RtcSpec => []TimeValid
  BY ClockValid, RtcIsClock, PTL

-----------------------------------------------------------------------------
(***************************************************************************)
(* RtcRegs: the firmware polls no ready bit, so whether a time or a period *)
(* is loaded once, with the value of the call, rests on the distance of    *)
(* two bus accesses.  Four edges are enough, for every call, value and     *)
(* delay.                                                                  *)
(***************************************************************************)

(* What the strobe bits are in the stages of the synchroniser, gap edges   *)
(* after the last access.                                                  *)
Pipe ==
  /\ gap = 1 => s1 = s3 /\ s2 = s3
  /\ gap = 2 => s1 = ctrl /\ s2 = s3
  /\ gap = 3 => s1 = ctrl /\ s2 = ctrl
  /\ gap >= 4 => s1 = ctrl /\ s2 = ctrl /\ s3 = ctrl

Quiet == ctrl = "0" /\ s1 = "0" /\ s2 = "0" /\ s3 = "0"

(* The strobe that was written last is still on its way, or has passed.    *)
Passing == IF gap < 4 THEN s3 = "0" /\ strobes = 0 ELSE strobes = 1

NoneStage == op = "none" => todo = << >> /\ ctrl = "0"

GetStage ==
  op = "getLocalTime" =>
    /\ ctrl \in {"0", "GET"}
    /\ todo \in {<<"GET", "read_sec", "read_ns", "0">>, <<"read_sec", "read_ns", "0">>,
                 <<"read_ns", "0">>, <<"0">>}

ApplyStage ==
  op = "applyOffset" =>
    /\ ctrl \in {"0", "OFFSET"}
    /\ todo \in {<<"offset", "OFFSET", "0">>, <<"OFFSET", "0">>, <<"0">>}

SetStage ==
  op = "setLocalTime" =>
    /\ arg \in Stamp
    /\ \/ todo = <<"sec", "ns", "TIME", "GET", "0">> /\ Quiet /\ strobes = 0
       \/ todo = <<"ns", "TIME", "GET", "0">> /\ Quiet /\ strobes = 0 /\ regTime.sec = arg.sec
       \/ todo = <<"TIME", "GET", "0">> /\ Quiet /\ strobes = 0 /\ regTime = arg
       \/ todo = <<"GET", "0">> /\ ctrl = "TIME" /\ regTime = arg /\ Passing
       \/ /\ todo = <<"0">> /\ ctrl = "GET" /\ (gap < 4 => s3 = "TIME")
          /\ regTime = arg /\ strobes = 1

InitStage ==
  op = "ptpInit" =>
    /\ arg.ns \in Nat
    /\ \/ todo = <<"period", "0", "PERIOD", "0">> /\ Quiet /\ strobes = 0
       \/ todo = <<"0", "PERIOD", "0">> /\ Quiet /\ strobes = 0 /\ regPeriod = arg.ns
       \/ todo = <<"PERIOD", "0">> /\ Quiet /\ strobes = 0 /\ regPeriod = arg.ns
       \/ todo = <<"0">> /\ ctrl = "PERIOD" /\ regPeriod = arg.ns /\ Passing

DriverInv ==
  /\ gap \in 1 .. MinGap /\ Pipe /\ pins = Wires
  /\ op \in {"none", "getLocalTime", "applyOffset", "setLocalTime", "ptpInit"}
  /\ regTime \in [sec : Nat, ns : Nat]
  /\ NoneStage /\ GetStage /\ ApplyStage /\ SetStage /\ InitStage

(* A strobe comes on the third edge after the access that wrote it.        *)
LEMMA StrobeAtThree ==
  ASSUME DriverInv, NEW v, Strobe(v)
  PROVE  gap = 3 /\ ctrl = v /\ s3 # v
  <1>1. MinGap \in Nat /\ gap \in Nat
    BY RegsAssumption DEF DriverInv
  <1>2. gap = 1 \/ gap = 2 \/ gap = 3 \/ gap >= 4
    BY <1>1 DEF DriverInv
  <1>3. QED
    BY <1>2 DEF DriverInv, Pipe, Strobe

(* The pins are idle but for a strobe on the third edge and for an offset. *)
LEMMA PinsIdle ==
  ASSUME DriverInv, s2 # "OFFSET", gap # 3 \/ ctrl \notin {"TIME", "PERIOD"} \/ s3 = ctrl
  PROVE  pins = Idle
  <1>1. ~Strobe("TIME") /\ ~Strobe("PERIOD")
    BY StrobeAtThree
  <1>2. QED
    BY <1>1 DEF DriverInv, Wires, Idle

LEMMA InitDriver == ASSUME MinGap >= 4, RegsInit PROVE DriverInv
  <1>1. gap \in 1 .. MinGap /\ gap >= 4
    BY RegsAssumption DEF RegsInit
  <1>2. pins = Wires
    BY DEF RegsInit, RtcInit, Wires, Idle, Strobe
  <1>3. regTime \in [sec : Nat, ns : Nat]
    BY DEF RegsInit
  <1>4. QED
    BY <1>1, <1>2, <1>3 DEF RegsInit, DriverInv, Pipe, NoneStage, GetStage, ApplyStage,
       SetStage, InitStage

(* An edge without an access: the strobe moves on.                         *)
LEMMA WaitKeeps ==
  ASSUME MinGap >= 4, DriverInv, Registers, NoAccess, pins' = Wires'
  PROVE  DriverInv'
  <1>1. /\ MinGap \in Nat /\ gap \in 1 .. MinGap /\ gap' \in 1 .. MinGap
        /\ gap' = IF gap < MinGap THEN gap + 1 ELSE gap
    BY RegsAssumption DEF DriverInv, NoAccess, Rest
  <1>2. /\ UNCHANGED <<op, todo, arg, ctrl, regTime, regPeriod>>
        /\ s1' = ctrl /\ s2' = s1 /\ s3' = s2
        /\ strobes' = IF pins = Idle \/ strobes = 2 THEN strobes ELSE strobes + 1
    BY DEF NoAccess, Rest, Registers, Count
  <1>3. Pipe'
    BY <1>1, <1>2 DEF DriverInv, Pipe
  <1>4. gap = 3 => s1 = ctrl /\ s2 = ctrl
    BY DEF DriverInv, Pipe
  <1>5. NoneStage' /\ GetStage' /\ ApplyStage'
    BY <1>2 DEF DriverInv, NoneStage, GetStage, ApplyStage
  <1>6. Quiet => Quiet' /\ strobes' = strobes
    <2>1. Quiet => pins = Idle
      BY PinsIdle DEF Quiet
    <2>2. QED
      BY <1>2, <2>1 DEF Quiet
  <1>7. ASSUME Passing, ctrl = "TIME" \/ (ctrl = "PERIOD" /\ regPeriod \in Nat)
        PROVE  Passing'
    <2>1. gap < 3 => s2 = s3 /\ s3 = "0"
      BY <1>1, <1>7 DEF DriverInv, Pipe, Passing
    <2>2. gap # 3 => pins = Idle
      <3>1. CASE gap < 3
        BY <2>1, <3>1, PinsIdle
      <3>2. CASE gap >= 4
        BY <1>7, <3>2, PinsIdle DEF DriverInv, Pipe
      <3>3. QED
        BY <1>1, <3>1, <3>2
    <2>3. gap = 3 => pins # Idle /\ strobes = 0
      <3>1. SUFFICES ASSUME gap = 3 PROVE pins # Idle /\ strobes = 0
        OBVIOUS
      <3>2. strobes = 0 /\ s3 = "0" /\ s2 = ctrl
        BY <1>7, <3>1 DEF Passing, DriverInv, Pipe
      <3>3. CASE ctrl = "TIME"
        <4>1. pins.time = regTime /\ regTime.ns \in Nat
          BY <3>2, <3>3 DEF DriverInv, Wires, Strobe
        <4>2. QED
          BY <3>2, <4>1 DEF Idle, None
      <3>4. CASE ctrl = "PERIOD"
        <4>1. pins.period = regPeriod /\ regPeriod \in Nat
          BY <1>7, <3>2, <3>4 DEF DriverInv, Wires, Strobe
        <4>2. QED
          BY <3>2, <4>1 DEF Idle
      <3>5. QED
        BY <1>7, <3>3, <3>4
    <2>4. QED
      BY <1>1, <1>2, <1>7, <2>1, <2>2, <2>3 DEF Passing
  <1>8. ASSUME op = "setLocalTime", todo = <<"0">>, ctrl = "GET", gap < 4 => s3 = "TIME"
        PROVE  (gap' < 4 => s3' = "TIME") /\ strobes' = strobes
    <2>1. s2 # "OFFSET"
      BY <1>1, <1>8 DEF DriverInv, Pipe
    <2>2. pins = Idle
      BY <1>8, <2>1, PinsIdle
    <2>3. gap < 3 => s2 = "TIME"
      BY <1>1, <1>8 DEF DriverInv, Pipe
    <2>4. QED
      BY <1>1, <1>2, <2>2, <2>3
  <1>9. SetStage'
    <2>1. SUFFICES ASSUME op = "setLocalTime" PROVE SetStage'
      BY <1>2 DEF SetStage
    <2>2. arg \in Stamp /\ arg' \in Stamp
      BY <1>2, <2>1 DEF DriverInv, SetStage
    <2>3. CASE todo = <<"sec", "ns", "TIME", "GET", "0">> /\ Quiet /\ strobes = 0
      BY <1>2, <1>6, <2>2, <2>3 DEF SetStage
    <2>4. CASE todo = <<"ns", "TIME", "GET", "0">> /\ Quiet /\ strobes = 0
               /\ regTime.sec = arg.sec
      BY <1>2, <1>6, <2>2, <2>4 DEF SetStage
    <2>5. CASE todo = <<"TIME", "GET", "0">> /\ Quiet /\ strobes = 0 /\ regTime = arg
      BY <1>2, <1>6, <2>2, <2>5 DEF SetStage
    <2>6. CASE todo = <<"GET", "0">> /\ ctrl = "TIME" /\ regTime = arg /\ Passing
      BY <1>2, <1>7, <2>2, <2>6 DEF SetStage
    <2>7. CASE /\ todo = <<"0">> /\ ctrl = "GET" /\ (gap < 4 => s3 = "TIME")
               /\ regTime = arg /\ strobes = 1
      BY <1>2, <1>8, <2>1, <2>2, <2>7 DEF SetStage
    <2>8. QED
      BY <2>1, <2>3, <2>4, <2>5, <2>6, <2>7 DEF DriverInv, SetStage
  <1>10. InitStage'
    <2>1. SUFFICES ASSUME op = "ptpInit" PROVE InitStage'
      BY <1>2 DEF InitStage
    <2>2. arg.ns \in Nat /\ arg'.ns \in Nat
      BY <1>2, <2>1 DEF DriverInv, InitStage
    <2>3. CASE todo = <<"period", "0", "PERIOD", "0">> /\ Quiet /\ strobes = 0
      BY <1>2, <1>6, <2>2, <2>3 DEF InitStage
    <2>4. CASE todo = <<"0", "PERIOD", "0">> /\ Quiet /\ strobes = 0 /\ regPeriod = arg.ns
      BY <1>2, <1>6, <2>2, <2>4 DEF InitStage
    <2>5. CASE todo = <<"PERIOD", "0">> /\ Quiet /\ strobes = 0 /\ regPeriod = arg.ns
      BY <1>2, <1>6, <2>2, <2>5 DEF InitStage
    <2>6. CASE todo = <<"0">> /\ ctrl = "PERIOD" /\ regPeriod = arg.ns /\ Passing
      BY <1>2, <1>7, <2>2, <2>6 DEF InitStage
    <2>7. QED
      BY <2>1, <2>3, <2>4, <2>5, <2>6 DEF DriverInv, InitStage
  <1>11. QED
    BY <1>1, <1>2, <1>3, <1>5, <1>9, <1>10 DEF DriverInv

(* A call begins when the last access has passed the synchroniser.         *)
LEMMA CallKeeps ==
  ASSUME MinGap >= 4, DriverInv, Registers, pins' = Wires',
         getLocalTime \/ setLocalTime \/ applyOffset \/ ptpInit
  PROVE  DriverInv'
  <1>1. /\ gap >= MinGap /\ gap' = gap /\ op = "none" /\ strobes' = 0
        /\ UNCHANGED <<ctrl, regTime, regPeriod>>
        /\ s1' = ctrl /\ s2' = s1 /\ s3' = s2
    BY DEF getLocalTime, setLocalTime, applyOffset, ptpInit, Call, Registers
  <1>2. gap >= 4 /\ gap \in Nat /\ MinGap \in Nat
    BY <1>1, RegsAssumption DEF DriverInv
  <1>3. Quiet
    BY <1>1, <1>2 DEF DriverInv, Pipe, NoneStage, Quiet
  <1>4. Quiet' /\ Pipe'
    BY <1>1, <1>2, <1>3 DEF Quiet, Pipe
  <1>5. CASE getLocalTime
    <2>1. op' = "getLocalTime" /\ todo' = <<"GET", "read_sec", "read_ns", "0">>
      BY <1>5 DEF getLocalTime, Call, Program
    <2>2. QED
      BY <1>1, <1>2, <1>4, <2>1
      DEF DriverInv, NoneStage, GetStage, ApplyStage, SetStage, InitStage, Quiet
  <1>6. CASE applyOffset
    <2>1. op' = "applyOffset" /\ todo' = <<"offset", "OFFSET", "0">>
      BY <1>6 DEF applyOffset, Call, Program
    <2>2. QED
      BY <1>1, <1>2, <1>4, <2>1
      DEF DriverInv, NoneStage, GetStage, ApplyStage, SetStage, InitStage, Quiet
  <1>7. CASE setLocalTime
    <2>1. /\ op' = "setLocalTime" /\ todo' = <<"sec", "ns", "TIME", "GET", "0">>
          /\ arg' \in Loads
      BY <1>7 DEF setLocalTime, Call, Program
    <2>2. arg' \in Stamp
      BY <2>1, InputAssumption
    <2>3. QED
      BY <1>1, <1>2, <1>4, <2>1, <2>2
      DEF DriverInv, NoneStage, GetStage, ApplyStage, SetStage, InitStage
  <1>8. CASE ptpInit
    <2>1. /\ op' = "ptpInit" /\ todo' = <<"period", "0", "PERIOD", "0">>
          /\ arg'.ns \in Periods
      BY <1>8 DEF ptpInit, Call, Program
    <2>2. arg'.ns \in Nat
      <3>1. MaxInc * F - 1 \in Int
        BY WidthAssumption
      <3>2. arg'.ns \in 0 .. MaxInc * F - 1
        BY <2>1, InputAssumption
      <3>3. QED
        BY <3>1, <3>2
    <2>3. QED
      BY <1>1, <1>2, <1>4, <2>1, <2>2
      DEF DriverInv, NoneStage, GetStage, ApplyStage, SetStage, InitStage
  <1>9. QED
    BY <1>5, <1>6, <1>7, <1>8

(* An access comes when the one before has passed the synchroniser, so     *)
(* that all stages hold what it wrote.                                     *)
LEMMA AccessKeeps ==
  ASSUME MinGap >= 4, DriverInv, Registers, Access, pins' = Wires'
  PROVE  DriverInv'
  <1>1. /\ gap >= 4 /\ gap' = 1 /\ gap' \in 1 .. MinGap
        /\ s1 = ctrl /\ s2 = ctrl /\ s3 = ctrl
        /\ s1' = ctrl /\ s2' = ctrl /\ s3' = ctrl
    BY RegsAssumption DEF DriverInv, Pipe, Access, Registers
  <1>2. Pipe'
    BY <1>1 DEF Pipe
  <1>3. ctrl # "OFFSET" => strobes' = strobes
    <2>1. ctrl # "OFFSET" => pins = Idle
      BY <1>1, PinsIdle
    <2>2. QED
      BY <2>1 DEF Access, Count
  <1>4. /\ todo # << >> /\ Perform(Head(todo)) /\ todo' = Tail(todo) /\ arg' = arg
        /\ op' = IF Len(todo) = 1 THEN "none" ELSE op
    BY DEF Access
  <1>5. CASE op = "none"
    BY <1>4, <1>5 DEF DriverInv, NoneStage
  <1>6. CASE op = "getLocalTime"
    <2>1. /\ ctrl' \in {"0", "GET"} /\ regTime' = regTime
          /\ \/ /\ op' = "getLocalTime"
                /\ todo' \in {<<"read_sec", "read_ns", "0">>, <<"read_ns", "0">>, <<"0">>}
             \/ op' = "none" /\ todo' = << >> /\ ctrl' = "0"
      <3>1. ctrl \in {"0", "GET"}
        BY <1>6 DEF DriverInv, GetStage
      <3>2. CASE todo = <<"GET", "read_sec", "read_ns", "0">>
        <4>1. todo' = <<"read_sec", "read_ns", "0">> /\ op' = op
          BY <1>4, <3>2
        <4>2. ctrl' \in {"0", "GET"} /\ regTime' = regTime
          BY <1>4, <3>1, <3>2 DEF Perform
        <4>3. QED
          BY <1>6, <4>1, <4>2
      <3>3. CASE todo = <<"read_sec", "read_ns", "0">>
        <4>1. todo' = <<"read_ns", "0">> /\ op' = op
          BY <1>4, <3>3
        <4>2. ctrl' \in {"0", "GET"} /\ regTime' = regTime
          BY <1>4, <3>1, <3>3 DEF Perform
        <4>3. QED
          BY <1>6, <4>1, <4>2
      <3>4. CASE todo = <<"read_ns", "0">>
        <4>1. todo' = <<"0">> /\ op' = op
          BY <1>4, <3>4
        <4>2. ctrl' \in {"0", "GET"} /\ regTime' = regTime
          BY <1>4, <3>1, <3>4 DEF Perform
        <4>3. QED
          BY <1>6, <4>1, <4>2
      <3>5. CASE todo = <<"0">>
        BY <1>4, <1>6, <3>1, <3>5 DEF Perform
      <3>6. QED
        BY <1>6, <3>2, <3>3, <3>4, <3>5 DEF DriverInv, GetStage
    <2>2. QED
      BY <1>1, <1>2, <2>1
      DEF DriverInv, NoneStage, GetStage, ApplyStage, SetStage, InitStage
  <1>7. CASE op = "applyOffset"
    <2>1. /\ ctrl' \in {"0", "OFFSET"} /\ regTime' = regTime
          /\ \/ op' = "applyOffset" /\ todo' \in {<<"OFFSET", "0">>, <<"0">>}
             \/ op' = "none" /\ todo' = << >> /\ ctrl' = "0"
      <3>1. ctrl \in {"0", "OFFSET"}
        BY <1>7 DEF DriverInv, ApplyStage
      <3>2. CASE todo = <<"offset", "OFFSET", "0">>
        BY <1>4, <1>7, <3>1, <3>2 DEF Perform
      <3>3. CASE todo = <<"OFFSET", "0">>
        BY <1>4, <1>7, <3>1, <3>3 DEF Perform
      <3>4. CASE todo = <<"0">>
        BY <1>4, <1>7, <3>1, <3>4 DEF Perform
      <3>5. QED
        BY <1>7, <3>2, <3>3, <3>4 DEF DriverInv, ApplyStage
    <2>2. QED
      BY <1>1, <1>2, <2>1
      DEF DriverInv, NoneStage, GetStage, ApplyStage, SetStage, InitStage
  <1>8. CASE op = "setLocalTime"
    <2>1. arg \in Stamp /\ regTime \in [sec : Nat, ns : Nat]
      BY <1>8 DEF DriverInv, SetStage
    <2>2. CASE todo = <<"sec", "ns", "TIME", "GET", "0">> /\ Quiet /\ strobes = 0
      <3>1. /\ op' = op /\ todo' = <<"ns", "TIME", "GET", "0">> /\ ctrl' = ctrl
            /\ regTime' = [regTime EXCEPT !.sec = arg.sec]
        BY <1>4, <2>2 DEF Perform
      <3>2. regTime' \in [sec : Nat, ns : Nat] /\ regTime'.sec = arg.sec
        BY <2>1, <3>1 DEF Stamp
      <3>3. Quiet' /\ strobes' = 0
        BY <1>1, <1>3, <2>2, <3>1 DEF Quiet
      <3>4. QED
        BY <1>1, <1>2, <1>4, <1>8, <2>1, <3>1, <3>2, <3>3
        DEF DriverInv, NoneStage, GetStage, ApplyStage, SetStage, InitStage
    <2>3. CASE todo = <<"ns", "TIME", "GET", "0">> /\ Quiet /\ strobes = 0
               /\ regTime.sec = arg.sec
      <3>1. /\ op' = op /\ todo' = <<"TIME", "GET", "0">> /\ ctrl' = ctrl
            /\ regTime' = [regTime EXCEPT !.ns = arg.ns]
        BY <1>4, <2>3 DEF Perform
      <3>2. regTime' \in [sec : Nat, ns : Nat] /\ regTime' = arg
        BY <2>1, <2>3, <3>1 DEF Stamp
      <3>3. Quiet' /\ strobes' = 0
        BY <1>1, <1>3, <2>3, <3>1 DEF Quiet
      <3>4. QED
        BY <1>1, <1>2, <1>4, <1>8, <2>1, <3>1, <3>2, <3>3
        DEF DriverInv, NoneStage, GetStage, ApplyStage, SetStage, InitStage
    <2>4. CASE todo = <<"TIME", "GET", "0">> /\ Quiet /\ strobes = 0 /\ regTime = arg
      <3>1. op' = op /\ todo' = <<"GET", "0">> /\ ctrl' = "TIME" /\ regTime' = regTime
        BY <1>4, <2>4 DEF Perform
      <3>2. Passing'
        BY <1>1, <1>3, <2>4 DEF Passing, Quiet
      <3>3. QED
        BY <1>1, <1>2, <1>4, <1>8, <2>1, <2>4, <3>1, <3>2
        DEF DriverInv, NoneStage, GetStage, ApplyStage, SetStage, InitStage
    <2>5. CASE todo = <<"GET", "0">> /\ ctrl = "TIME" /\ regTime = arg /\ Passing
      <3>1. op' = op /\ todo' = <<"0">> /\ ctrl' = "GET" /\ regTime' = regTime
        BY <1>4, <2>5 DEF Perform
      <3>2. strobes = 1 /\ strobes' = 1
        BY <1>1, <1>3, <2>5 DEF Passing, DriverInv
      <3>3. QED
        BY <1>1, <1>2, <1>4, <1>8, <2>1, <2>5, <3>1, <3>2
        DEF DriverInv, NoneStage, GetStage, ApplyStage, SetStage, InitStage
    <2>6. CASE todo = <<"0">>
      <3>1. op' = "none" /\ todo' = << >> /\ ctrl' = "0" /\ regTime' = regTime
        BY <1>4, <2>6 DEF Perform
      <3>2. QED
        BY <1>1, <1>2, <2>1, <3>1
        DEF DriverInv, NoneStage, GetStage, ApplyStage, SetStage, InitStage
    <2>7. QED
      BY <1>8, <2>2, <2>3, <2>4, <2>5, <2>6 DEF DriverInv, SetStage
  <1>9. CASE op = "ptpInit"
    <2>1. arg.ns \in Nat
      BY <1>9 DEF DriverInv, InitStage
    <2>2. CASE todo = <<"period", "0", "PERIOD", "0">> /\ Quiet /\ strobes = 0
      <3>1. /\ op' = op /\ todo' = <<"0", "PERIOD", "0">> /\ ctrl' = ctrl
            /\ regTime' = regTime /\ regPeriod' = arg.ns
        BY <1>4, <2>2 DEF Perform
      <3>2. Quiet' /\ strobes' = 0
        BY <1>1, <1>3, <2>2, <3>1 DEF Quiet
      <3>3. QED
        BY <1>1, <1>2, <1>4, <1>9, <2>1, <3>1, <3>2
        DEF DriverInv, NoneStage, GetStage, ApplyStage, SetStage, InitStage
    <2>3. CASE todo = <<"0", "PERIOD", "0">> /\ Quiet /\ strobes = 0 /\ regPeriod = arg.ns
      <3>1. /\ op' = op /\ todo' = <<"PERIOD", "0">> /\ ctrl' = "0"
            /\ regTime' = regTime /\ regPeriod' = regPeriod
        BY <1>4, <2>3 DEF Perform
      <3>2. Quiet' /\ strobes' = 0
        BY <1>1, <1>3, <2>3, <3>1 DEF Quiet
      <3>3. QED
        BY <1>1, <1>2, <1>4, <1>9, <2>1, <2>3, <3>1, <3>2
        DEF DriverInv, NoneStage, GetStage, ApplyStage, SetStage, InitStage
    <2>4. CASE todo = <<"PERIOD", "0">> /\ Quiet /\ strobes = 0 /\ regPeriod = arg.ns
      <3>1. /\ op' = op /\ todo' = <<"0">> /\ ctrl' = "PERIOD"
            /\ regTime' = regTime /\ regPeriod' = regPeriod
        BY <1>4, <2>4 DEF Perform
      <3>2. Passing'
        BY <1>1, <1>3, <2>4 DEF Passing, Quiet
      <3>3. QED
        BY <1>1, <1>2, <1>4, <1>9, <2>1, <2>4, <3>1, <3>2
        DEF DriverInv, NoneStage, GetStage, ApplyStage, SetStage, InitStage
    <2>5. CASE todo = <<"0">>
      <3>1. op' = "none" /\ todo' = << >> /\ ctrl' = "0" /\ regTime' = regTime
        BY <1>4, <2>5 DEF Perform
      <3>2. QED
        BY <1>1, <1>2, <3>1
        DEF DriverInv, NoneStage, GetStage, ApplyStage, SetStage, InitStage
    <2>6. QED
      BY <1>9, <2>2, <2>3, <2>4, <2>5 DEF DriverInv, InitStage
  <1>10. QED
    BY <1>5, <1>6, <1>7, <1>8, <1>9 DEF DriverInv

(* The accesses of every call keep their order and their distance to the   *)
(* strobes (ptp_drv.c:6-55, regs.v:333-392), if an access takes at least   *)
(* four edges, as IDLE, WBSTART, acknowledge and WBEND do (soc.v:252-302). *)
THEOREM DriverOrder == ASSUME MinGap >= 4 PROVE RegsSpec => []DriverInv
  <1>1. RegsInit => DriverInv
    BY InitDriver
  <1>2. DriverInv /\ [RegsNext]_regsVars => DriverInv'
    <2>1. SUFFICES ASSUME DriverInv, [RegsNext]_regsVars PROVE DriverInv'
      OBVIOUS
    <2>2. CASE UNCHANGED regsVars
      <3>1. /\ UNCHANGED <<gap, ctrl, s1, s2, s3, strobes, op, todo, arg>>
            /\ UNCHANGED <<regTime, regOffset, regPeriod, pins>>
        BY <2>2 DEF regsVars, rtcVars, regVars, cpuVars
      <3>2. Wires' = Wires /\ Pipe' = Pipe /\ Quiet' = Quiet /\ Passing' = Passing
        BY <3>1 DEF Wires, Strobe, Pipe, Quiet, Passing
      <3>3. NoneStage' /\ GetStage' /\ ApplyStage'
        BY <2>1, <3>1 DEF DriverInv, NoneStage, GetStage, ApplyStage
      <3>4. SetStage'
        BY <2>1, <3>1, <3>2 DEF DriverInv, SetStage
      <3>5. InitStage'
        BY <2>1, <3>1, <3>2 DEF DriverInv, InitStage
      <3>6. QED
        BY <2>1, <3>1, <3>2, <3>3, <3>4, <3>5 DEF DriverInv
    <2>3. CASE RegsNext
      <3>1. Registers /\ pins' = Wires'
        BY <2>3 DEF RegsNext
      <3>2. CASE NoAccess
        BY <2>1, <3>1, <3>2, WaitKeeps
      <3>3. CASE Access
        BY <2>1, <3>1, <3>3, AccessKeeps
      <3>4. CASE getLocalTime \/ setLocalTime \/ applyOffset \/ ptpInit
        BY <2>1, <3>1, <3>4, CallKeeps
      <3>5. QED
        BY <2>3, <3>2, <3>3, <3>4 DEF RegsNext
    <2>4. QED
      BY <2>1, <2>2, <2>3
  <1>3. QED
    BY <1>1, <1>2, PTL DEF RegsSpec

(* A time or a period is loaded on exactly one edge, with the value of the *)
(* call, for every value and every delay between two accesses of four      *)
(* edges and more (ptp_drv.c:6-12,49-55, regs.v:333-347).                  *)
THEOREM LoadsOnce == ASSUME MinGap >= 4 PROVE RegsSpec => []LoadedOnce
  <1>1. DriverInv => LoadedOnce
    <2>1. SUFFICES ASSUME DriverInv PROVE LoadedOnce
      OBVIOUS
    <2>2. ASSUME pins.time # None PROVE pins.time = arg
      <3>1. Strobe("TIME") /\ pins.time = regTime
        BY <2>1, <2>2 DEF DriverInv, Wires
      <3>2. ctrl = "TIME"
        BY <2>1, <3>1, StrobeAtThree
      <3>3. op = "setLocalTime" /\ regTime = arg
        BY <2>1, <3>2
        DEF DriverInv, NoneStage, GetStage, ApplyStage, SetStage, InitStage, Quiet
      <3>4. QED
        BY <3>1, <3>3
    <2>3. ASSUME op \in {"setLocalTime", "ptpInit"}, todo = <<"0">>, gap = MinGap
          PROVE  strobes = 1
      BY <2>1, <2>3 DEF DriverInv, SetStage, InitStage, Passing
    <2>4. QED
      BY <2>2, <2>3 DEF LoadedOnce
  <1>2. QED
    BY <1>1, DriverOrder, PTL
-----------------------------------------------------------------------------
(* What the calls bring to the offset and the period register.             *)
DriverValues ==
  /\ regOffset \in Int
  /\ op = "applyOffset" => arg.ns \in Int
  /\ op = "setLocalTime" => arg \in Loads
  /\ op = "ptpInit" => arg.ns \in Periods

LEMMA ValuesKeep ==
  ASSUME DriverInv, DriverValues, [RegsNext]_regsVars
  PROVE  DriverValues'
  <1>1. CASE UNCHANGED regsVars
    BY <1>1 DEF regsVars, regVars, cpuVars, DriverValues
  <1>2. CASE NoAccess
    BY <1>2 DEF NoAccess, Rest, DriverValues
  <1>3. CASE Access
    <2>1. /\ todo # << >> /\ Perform(Head(todo)) /\ arg' = arg
          /\ op' \in {"none", op}
      BY <1>3 DEF Access
    <2>2. regOffset' = IF Head(todo) = "offset" THEN regOffset - arg.ns ELSE regOffset
      BY <2>1 DEF Perform
    <2>3. Head(todo) = "offset" => op = "applyOffset"
      BY <2>1 DEF DriverInv, NoneStage, GetStage, SetStage, InitStage
    <2>4. regOffset' \in Int
      BY <2>2, <2>3 DEF DriverValues
    <2>5. QED
      BY <2>1, <2>4 DEF DriverValues
  <1>4. CASE getLocalTime
    BY <1>4 DEF getLocalTime, Call, DriverValues
  <1>5. CASE setLocalTime
    <2>1. PICK t \in Loads : Call("setLocalTime", t)
      BY <1>5 DEF setLocalTime
    <2>2. QED
      BY <2>1 DEF Call, DriverValues
  <1>6. CASE applyOffset
    <2>1. PICK n \in Offsets : Call("applyOffset", [sec |-> 0, ns |-> n])
      BY <1>6 DEF applyOffset
    <2>2. n \in Int
      BY InputAssumption
    <2>3. QED
      BY <2>1, <2>2 DEF Call, DriverValues
  <1>7. CASE ptpInit
    <2>1. PICK p \in Periods : Call("ptpInit", [sec |-> 0, ns |-> p])
      BY <1>7 DEF ptpInit
    <2>2. QED
      BY <2>1 DEF Call, DriverValues
  <1>8. QED
    BY <1>1, <1>2, <1>3, <1>4, <1>5, <1>6, <1>7 DEF RegsNext

(* What one driver call at a time puts on the pins: the time of a call of  *)
(* setLocalTime, or the accumulated offset, or the period of a ptpInit,    *)
(* and never two of them on one edge.                                      *)
CallPins ==
  {p \in [time : Loads \cup {None}, offset : Int, period : Periods \cup {-1}] :
     /\ p.time # None => p.offset = 0 /\ p.period = -1
     /\ p.period # -1 => p.offset = 0}

DrivenSpec == RtcInit /\ [][Edge /\ pins' \in CallPins]_rtcVars

(* The values of the calls are values the clock can take.                  *)
LEMMA CallPinsAreWirePins == CallPins \subseteq WirePins
  <1>1. SUFFICES ASSUME NEW p \in CallPins PROVE p \in WirePins
    OBVIOUS
  <1>2. p \in [time : Loads \cup {None}, offset : Int, period : Periods \cup {-1}]
    BY DEF CallPins
  <1>3. Loads \subseteq Stamp /\ Periods \subseteq 0 .. MaxInc * F - 1
    BY InputAssumption
  <1>4. QED
    BY <1>2, <1>3 DEF WirePins

(* The strobes bring the value of the call that wrote them, and one stage  *)
(* of the synchroniser holds one strobe.                                   *)
LEMMA WiresOfOneCall ==
  ASSUME DriverInv, DriverValues
  PROVE  Wires \in CallPins
  <1>1. Strobe("TIME") => regTime \in Loads /\ s2 = "TIME"
    <2>1. Strobe("TIME") => op = "setLocalTime" /\ regTime = arg
      BY StrobeAtThree
      DEF DriverInv, NoneStage, GetStage, ApplyStage, SetStage, InitStage, Quiet
    <2>2. QED
      BY <2>1 DEF DriverValues, Strobe
  <1>2. Strobe("PERIOD") => regPeriod \in Periods /\ s2 = "PERIOD"
    <2>1. Strobe("PERIOD") => op = "ptpInit" /\ regPeriod = arg.ns
      BY StrobeAtThree
      DEF DriverInv, NoneStage, GetStage, ApplyStage, SetStage, InitStage, Quiet
    <2>2. QED
      BY <2>1 DEF DriverValues, Strobe
  <1>3. Wires.time \in Loads \cup {None} /\ (Wires.time # None => s2 = "TIME")
    BY <1>1 DEF Wires
  <1>4. Wires.period \in Periods \cup {-1} /\ (Wires.period # -1 => s2 = "PERIOD")
    BY <1>2 DEF Wires
  <1>5. Wires.offset \in Int /\ (s2 # "OFFSET" => Wires.offset = 0)
    BY DEF DriverValues, Wires
  <1>6. Wires = [time |-> Wires.time, offset |-> Wires.offset, period |-> Wires.period]
    BY DEF Wires
  <1>7. QED
    BY <1>3, <1>4, <1>5, <1>6 DEF CallPins

LEMMA ValuesHold == ASSUME MinGap >= 4 PROVE RegsSpec => []DriverValues
  <1>1. RegsInit => DriverValues
    BY DEF RegsInit, DriverValues
  <1>2. DriverInv /\ DriverValues /\ [RegsNext]_regsVars => DriverValues'
    BY ValuesKeep
  <1>3. QED
    BY <1>1, <1>2, DriverOrder, PTL DEF RegsSpec

(* The registers implement the driver the clock is proved for: whatever    *)
(* calls the firmware makes, an edge brings the clock the time of one      *)
(* setLocalTime, the offset register or the period of one ptpInit, and no  *)
(* two of them together (regs.v:333-363, ptp_drv.c:6-55).                  *)
THEOREM DrivesTheClock == ASSUME MinGap >= 4 PROVE RegsSpec => DrivenSpec
  <1> DEFINE Wired == pins \in CallPins
  <1>1. RegsInit => RtcInit
    BY DEF RegsInit
  <1>2. DriverInv /\ DriverValues => Wired
    BY WiresOfOneCall DEF DriverInv
  <1>3. Wired' /\ [RegsNext]_regsVars => [Edge /\ pins' \in CallPins]_rtcVars
    BY DEF RegsNext, regsVars
  <1> HIDE DEF Wired
  <1>4. QED
    BY <1>1, <1>2, <1>3, DriverOrder, ValuesHold, PTL DEF RegsSpec, DrivenSpec

LEMMA DrivenIsClock == DrivenSpec => ClockSpec
  <1>1. [Edge /\ pins' \in CallPins]_rtcVars => [Edge /\ pins' \in WirePins]_rtcVars
    BY CallPinsAreWirePins
  <1>2. QED
    BY <1>1, PTL DEF DrivenSpec, ClockSpec

(* So the properties of the clock hold behind the registers too.           *)
THEOREM KeepsTimeBehindRegisters == ASSUME MinGap >= 4 PROVE RegsSpec => ExactStep
  BY DrivesTheClock, DrivenIsClock, ClockKeepsTime, PTL

THEOREM ValidBehindRegisters == ASSUME MinGap >= 4 PROVE RegsSpec => []TimeValid
  BY DrivesTheClock, DrivenIsClock, ClockValid, PTL
-----------------------------------------------------------------------------
(* One edge after an edge without a strobe the pre-adders announce a time  *)
(* at most one increment after the time shown.                             *)
Settled ==
  /\ pre_pos \in acc .. acc + MaxInc
  /\ Carry => pre_neg = pre_pos - Second

(* The time the registers took on the GET strobe.                          *)
Taken == time_int.sec * Second + time_int.ns

FreshTypes ==
  /\ time_int \in [sec : Int, ns : Int] /\ localTime \in [sec : Int, ns : Int]
  /\ asked \in Int

(* The GET strobe has not been written yet.                                *)
GetToCome == op = "getLocalTime" /\ todo = <<"GET", "read_sec", "read_ns", "0">>

(* The GET strobe is on its way to the time registers, or has passed.      *)
GetPassing ==
  op = "getLocalTime" /\ todo = <<"read_sec", "read_ns", "0">> =>
    /\ ctrl = "GET"
    /\ asked <= Shown
    /\ IF gap < 4 THEN s3 = "0" ELSE Taken \in asked .. Shown

(* The two halves are being read.                                          *)
GetRead ==
  op = "getLocalTime" /\ todo \in {<<"read_ns", "0">>, <<"0">>} =>
    /\ ctrl = "GET" /\ s1 = "GET" /\ s2 = "GET" /\ s3 = "GET"
    /\ Taken \in asked .. Shown
    /\ localTime.sec = time_int.sec
    /\ todo = <<"0">> => localTime.ns = time_int.ns

FreshInv ==
  /\ FreshTypes
  /\ op = "getLocalTime" => Settled /\ {s1, s2, s3} \subseteq {"0", "GET"}
  /\ GetToCome => Quiet
  /\ GetPassing /\ GetRead

LEMMA IdleSettles ==
  ASSUME ClockInv, Edge, pins = Idle
  PROVE  Settled'
  <1> USE WidthAssumption
  <1> DEFINE next == (IF Carry THEN pre_neg ELSE pre_pos) + Whole
  <1>1. /\ Whole \in 0 .. MaxInc /\ pre_pos \in 0 .. Word - 1 /\ pre_neg \in 0 .. Word - 1
        /\ Takeover
    BY WholeBound DEF ClockInv, ClockTypes
  <1>2. pre_pos' = next % Word /\ pre_neg' = (next - Second) % Word /\ acc' + Whole = next
    BY <1>1 DEF Edge, PreAdders, Accumulator, Idle, None
  <1>3. next \in 0 .. Word - 1 /\ next - Second \in Int /\ acc' = next - Whole
    BY <1>1, <1>2 DEF Takeover, Carry, Edge, Accumulator, Idle
  <1> HIDE DEF next
  <1>4. pre_pos' = next
    BY <1>2, <1>3, Reduced
  <1>5. next >= Second => pre_neg' = next - Second
    BY <1>2, <1>3, Reduced
  <1>6. pre_pos' \in acc' .. acc' + MaxInc
    BY <1>1, <1>3, <1>4
  <1>7. QED
    BY <1>4, <1>5, <1>6 DEF Settled, Carry

(* From then on the time shown does not go back until the next strobe.     *)
LEMMA ShownAdvances ==
  ASSUME ClockInv, Settled, Edge, pins = Idle
  PROVE  Shown \in Int /\ Shown' \in Int /\ Shown <= Shown'
  <1> USE WidthAssumption
  <1>1. /\ acc \in Nat /\ sec \in Nat /\ pre_pos \in Nat /\ pre_neg \in Nat
        /\ pre_pos >= acc
    BY DEF ClockInv, ClockTypes, Settled
  <1>2. sec * Second \in Nat /\ (sec + 1) * Second = sec * Second + Second
    BY <1>1
  <1>3. Shown' = NextTime
    BY EdgeIsExact DEF Shown, Idle
  <1>4. NextTime = sec * Second + pre_pos
    BY <1>1, <1>2 DEF NextTime, Settled
  <1>5. QED
    BY <1>1, <1>2, <1>3, <1>4 DEF Shown

LEMMA ShownType == ClockInv => Shown \in Int
  <1> SUFFICES ASSUME ClockInv PROVE Shown \in Int
    OBVIOUS
  <1>1. acc \in Nat /\ sec \in Nat
    BY WidthAssumption DEF ClockInv, ClockTypes
  <1>2. QED
    BY <1>1, WidthAssumption DEF Shown

(* No strobe of the clock falls into the call.                             *)
LEMMA GetIsIdle ==
  ASSUME DriverInv, FreshInv, op = "getLocalTime"
  PROVE  pins = Idle
  <1>1. s2 # "OFFSET" /\ ctrl \notin {"TIME", "PERIOD"}
    BY DEF FreshInv, DriverInv, GetStage
  <1>2. QED
    BY <1>1, PinsIdle

LEMMA InitFresh == RegsInit => FreshInv
  BY DEF RegsInit, FreshInv, FreshTypes, GetToCome, GetPassing, GetRead

(* The registers take the time shown, and nothing else, on the GET strobe. *)
LEMMA TimeTaken ==
  ASSUME ClockInv, FreshTypes, Registers
  PROVE  /\ time_int' \in [sec : Int, ns : Int]
         /\ Strobe("GET") => Taken' = Shown
         /\ ~Strobe("GET") => time_int' = time_int /\ Taken' = Taken
  <1>1. acc \in Int /\ sec \in Int
    BY WidthAssumption DEF ClockInv, ClockTypes
  <1>2. time_int' = IF Strobe("GET") THEN [sec |-> sec, ns |-> acc] ELSE time_int
    BY DEF Registers
  <1>3. QED
    BY <1>1, <1>2 DEF FreshTypes, Taken, Shown

LEMMA WaitFresh ==
  ASSUME MinGap >= 4, DriverInv, FreshInv, ClockInv, Edge, Registers, NoAccess
  PROVE  FreshInv'
  <1>1. /\ UNCHANGED <<op, todo, ctrl, localTime, asked>>
        /\ s1' = ctrl /\ s2' = s1 /\ s3' = s2
        /\ gap' = IF gap < MinGap THEN gap + 1 ELSE gap
    BY DEF NoAccess, Rest, Registers
  <1>2. /\ time_int' \in [sec : Int, ns : Int]
        /\ Strobe("GET") => Taken' = Shown
        /\ ~Strobe("GET") => time_int' = time_int /\ Taken' = Taken
    BY TimeTaken DEF FreshInv
  <1>3. FreshTypes'
    BY <1>1, <1>2 DEF FreshInv, FreshTypes
  <1>4. gap \in Nat /\ MinGap \in Nat /\ gap >= 1 /\ gap <= MinGap
    BY RegsAssumption DEF DriverInv
  <1>5. CASE op # "getLocalTime"
    BY <1>1, <1>3, <1>5 DEF FreshInv, GetToCome, GetPassing, GetRead
  <1>6. CASE op = "getLocalTime"
    <2>1. pins = Idle
      BY <1>6, GetIsIdle
    <2>2. Settled' /\ Shown \in Int /\ Shown' \in Int /\ Shown <= Shown'
      BY <1>6, <2>1, IdleSettles, ShownAdvances DEF FreshInv
    <2>3. {s1', s2', s3'} \subseteq {"0", "GET"}
      BY <1>1, <1>6 DEF FreshInv, DriverInv, GetStage
    <2>4. GetToCome' => Quiet'
      BY <1>1 DEF FreshInv, GetToCome, Quiet
    <2>5. asked \in Int /\ Taken \in Int
      BY WidthAssumption DEF FreshInv, FreshTypes, Taken
    <2>6. GetPassing'
      <3>1. SUFFICES ASSUME todo = <<"read_sec", "read_ns", "0">> PROVE GetPassing'
        BY <1>1 DEF GetPassing
      <3>2. /\ ctrl = "GET" /\ asked <= Shown
            /\ IF gap < 4 THEN s3 = "0" ELSE Taken \in asked .. Shown
        BY <1>6, <3>1 DEF FreshInv, GetPassing
      <3>3. asked <= Shown'
        BY <2>2, <2>5, <3>2
      <3>4. CASE gap < 3
        <4>1. gap' < 4 /\ s2 = "0"
          BY <1>1, <1>4, <3>2, <3>4 DEF DriverInv, Pipe
        <4>2. QED
          BY <1>1, <3>2, <3>3, <4>1 DEF GetPassing
      <3>5. CASE gap = 3
        <4>1. gap' = 4 /\ Strobe("GET")
          BY <1>1, <1>4, <3>2, <3>5 DEF DriverInv, Pipe, Strobe
        <4>2. Taken' \in asked .. Shown'
          BY <1>2, <2>2, <2>5, <3>2, <4>1
        <4>3. QED
          BY <1>1, <3>2, <3>3, <4>1, <4>2 DEF GetPassing
      <3>6. CASE gap >= 4
        <4>1. gap' >= 4 /\ ~Strobe("GET") /\ Taken \in asked .. Shown
          BY <1>1, <1>4, <3>2, <3>6 DEF DriverInv, Pipe, Strobe
        <4>2. Taken' \in asked .. Shown'
          BY <1>2, <2>2, <2>5, <4>1
        <4>3. QED
          BY <1>1, <1>4, <3>2, <3>3, <4>1, <4>2 DEF GetPassing
      <3>7. QED
        BY <1>4, <3>4, <3>5, <3>6
    <2>7. GetRead'
      <3>1. SUFFICES ASSUME todo \in {<<"read_ns", "0">>, <<"0">>} PROVE GetRead'
        BY <1>1 DEF GetRead
      <3>2. /\ ctrl = "GET" /\ s1 = "GET" /\ s2 = "GET" /\ s3 = "GET"
            /\ Taken \in asked .. Shown
            /\ localTime.sec = time_int.sec
            /\ todo = <<"0">> => localTime.ns = time_int.ns
        BY <1>6, <3>1 DEF FreshInv, GetRead
      <3>3. time_int' = time_int /\ Taken' = Taken
        BY <1>2, <3>2 DEF Strobe
      <3>4. Taken' \in asked .. Shown'
        BY <2>2, <2>5, <3>2, <3>3
      <3>5. QED
        BY <1>1, <3>2, <3>3, <3>4 DEF GetRead
    <2>8. QED
      BY <1>3, <2>2, <2>3, <2>4, <2>6, <2>7 DEF FreshInv
  <1>7. QED
    BY <1>5, <1>6

LEMMA CallFresh ==
  ASSUME MinGap >= 4, DriverInv, FreshInv, ClockInv, Edge, Registers,
         getLocalTime \/ setLocalTime \/ applyOffset \/ ptpInit
  PROVE  FreshInv'
  <1>1. /\ UNCHANGED <<ctrl, localTime, asked>> /\ op = "none" /\ gap >= MinGap
        /\ s1' = ctrl /\ s2' = s1 /\ s3' = s2
    BY DEF getLocalTime, setLocalTime, applyOffset, ptpInit, Call, Registers
  <1>2. time_int' \in [sec : Int, ns : Int]
    BY TimeTaken DEF FreshInv
  <1>3. FreshTypes'
    BY <1>1, <1>2 DEF FreshInv, FreshTypes
  <1>4. Quiet
    <2>1. gap >= 4
      BY <1>1, RegsAssumption DEF DriverInv
    <2>2. QED
      BY <1>1, <2>1 DEF DriverInv, Pipe, NoneStage, Quiet
  <1>5. Quiet'
    BY <1>1, <1>4 DEF Quiet
  <1>6. Settled'
    <2>1. pins = Idle
      BY <1>4, PinsIdle DEF Quiet
    <2>2. QED
      BY <2>1, IdleSettles
  <1>7. op' = "getLocalTime" => todo' = <<"GET", "read_sec", "read_ns", "0">>
    BY DEF getLocalTime, setLocalTime, applyOffset, ptpInit, Call, Program
  <1>8. GetPassing' /\ GetRead'
    BY <1>7 DEF GetPassing, GetRead
  <1>9. QED
    BY <1>3, <1>5, <1>6, <1>8 DEF FreshInv, Quiet

LEMMA AccessFresh ==
  ASSUME MinGap >= 4, DriverInv, FreshInv, ClockInv, Edge, Registers, Access
  PROVE  FreshInv'
  <1>1. /\ gap >= 4 /\ gap' = 1
        /\ s1 = ctrl /\ s2 = ctrl /\ s3 = ctrl
        /\ s1' = ctrl /\ s2' = ctrl /\ s3' = ctrl
    BY RegsAssumption DEF DriverInv, Pipe, Access, Registers
  <1>2. /\ todo # << >> /\ Perform(Head(todo)) /\ todo' = Tail(todo)
        /\ op' = IF Len(todo) = 1 THEN "none" ELSE op
    BY DEF Access
  <1>3. time_int' = time_int /\ Taken' = Taken /\ time_int \in [sec : Int, ns : Int]
    <2>1. ~Strobe("GET")
      BY <1>1 DEF Strobe
    <2>2. QED
      BY <2>1, TimeTaken DEF FreshInv, FreshTypes
  <1>4. Shown \in Int /\ localTime \in [sec : Int, ns : Int] /\ asked \in Int
    BY ShownType DEF FreshInv, FreshTypes
  <1>5. FreshTypes'
    <2>1. localTime' \in [sec : Int, ns : Int]
      BY <1>2, <1>3, <1>4 DEF Perform
    <2>2. asked' \in Int
      BY <1>2, <1>4 DEF Perform
    <2>3. QED
      BY <1>3, <2>1, <2>2 DEF FreshTypes
  <1>6. CASE op # "getLocalTime"
    <2>1. op' # "getLocalTime"
      BY <1>2, <1>6
    <2>2. QED
      BY <1>5, <2>1 DEF FreshInv, GetToCome, GetPassing, GetRead
  <1>7. CASE op = "getLocalTime"
    <2>1. pins = Idle
      BY <1>7, GetIsIdle
    <2>2. Settled' /\ Shown' \in Int /\ Shown <= Shown'
      BY <1>7, <2>1, IdleSettles, ShownAdvances DEF FreshInv
    <2>3. {s1', s2', s3'} \subseteq {"0", "GET"}
      BY <1>1, <1>7 DEF DriverInv, GetStage
    <2>4. CASE todo = <<"GET", "read_sec", "read_ns", "0">>
      <3>1. todo' = <<"read_sec", "read_ns", "0">> /\ ctrl' = "GET" /\ asked' = Shown
        BY <1>2, <2>4 DEF Perform
      <3>2. ctrl = "0"
        BY <1>7, <2>4 DEF FreshInv, GetToCome, Quiet
      <3>3. GetPassing'
        BY <1>1, <1>4, <2>2, <3>1, <3>2 DEF GetPassing
      <3>4. ~GetToCome' /\ GetRead'
        BY <3>1 DEF GetToCome, GetRead
      <3>5. QED
        BY <1>5, <2>2, <2>3, <3>3, <3>4 DEF FreshInv
    <2>5. CASE todo = <<"read_sec", "read_ns", "0">>
      <3>1. /\ todo' = <<"read_ns", "0">> /\ ctrl' = ctrl /\ asked' = asked
            /\ localTime' = [localTime EXCEPT !.sec = time_int.sec]
        BY <1>2, <2>5 DEF Perform
      <3>2. ctrl = "GET" /\ Taken \in asked .. Shown
        BY <1>1, <1>7, <2>5 DEF FreshInv, GetPassing
      <3>3. Taken' \in asked' .. Shown'
        BY <1>3, <1>4, <2>2, <3>1, <3>2
      <3>4. localTime'.sec = time_int'.sec
        BY <1>3, <1>4, <3>1
      <3>5. GetRead'
        BY <1>1, <3>1, <3>2, <3>3, <3>4 DEF GetRead
      <3>6. ~GetToCome' /\ GetPassing'
        BY <3>1 DEF GetToCome, GetPassing
      <3>7. QED
        BY <1>5, <2>2, <2>3, <3>5, <3>6 DEF FreshInv
    <2>6. CASE todo = <<"read_ns", "0">>
      <3>1. /\ todo' = <<"0">> /\ ctrl' = ctrl /\ asked' = asked
            /\ localTime' = [localTime EXCEPT !.ns = time_int.ns]
        BY <1>2, <2>6 DEF Perform
      <3>2. /\ ctrl = "GET" /\ Taken \in asked .. Shown
            /\ localTime.sec = time_int.sec
        BY <1>7, <2>6 DEF FreshInv, GetRead
      <3>3. Taken' \in asked' .. Shown'
        BY <1>3, <1>4, <2>2, <3>1, <3>2
      <3>4. localTime'.sec = time_int'.sec /\ localTime'.ns = time_int'.ns
        BY <1>3, <1>4, <3>1, <3>2
      <3>5. GetRead'
        BY <1>1, <3>1, <3>2, <3>3, <3>4 DEF GetRead
      <3>6. ~GetToCome' /\ GetPassing'
        BY <3>1 DEF GetToCome, GetPassing
      <3>7. QED
        BY <1>5, <2>2, <2>3, <3>5, <3>6 DEF FreshInv
    <2>7. CASE todo = <<"0">>
      <3>1. op' # "getLocalTime"
        BY <1>2, <2>7
      <3>2. QED
        BY <1>5, <3>1 DEF FreshInv, GetToCome, GetPassing, GetRead
    <2>8. QED
      BY <1>7, <2>4, <2>5, <2>6, <2>7 DEF DriverInv, GetStage
  <1>8. QED
    BY <1>6, <1>7

(* getLocalTime returns a time the clock showed between the command and    *)
(* the return, whatever the delays between its accesses, though it polls   *)
(* no time_ok (ptp_drv.c:36-41, regs.v:365-392).                           *)
THEOREM ReadsFreshTime == ASSUME MinGap >= 4 PROVE RegsSpec => []FreshTime
  <1>1. DriverInv /\ ClockInv /\ FreshInv /\ [RegsNext]_regsVars => FreshInv'
    <2>1. SUFFICES ASSUME DriverInv, ClockInv, FreshInv, [RegsNext]_regsVars PROVE FreshInv'
      OBVIOUS
    <2>2. CASE UNCHANGED regsVars
      <3>1. /\ UNCHANGED <<op, todo, ctrl, s1, s2, s3, gap, time_int, localTime, asked>>
            /\ UNCHANGED <<pre_pos, pre_neg, acc, sec>>
        BY <2>2 DEF regsVars, rtcVars, clockVars, regVars, cpuVars
      <3>2. Shown' = Shown /\ Taken' = Taken /\ Settled' = Settled /\ Quiet' = Quiet
        BY <3>1 DEF Shown, Taken, Settled, Quiet, Carry
      <3>3. FreshTypes' /\ GetToCome' = GetToCome
        BY <2>1, <3>1 DEF FreshInv, FreshTypes, GetToCome
      <3>4. GetPassing' /\ GetRead'
        BY <2>1, <3>1, <3>2 DEF FreshInv, GetPassing, GetRead
      <3>5. QED
        BY <2>1, <3>1, <3>2, <3>3, <3>4 DEF FreshInv
    <2>3. CASE RegsNext
      BY <2>1, <2>3, WaitFresh, AccessFresh, CallFresh DEF RegsNext
    <2>4. QED
      BY <2>1, <2>2, <2>3
  <1>2. FreshInv => FreshTime
    BY DEF FreshInv, GetRead, FreshTime, Taken
  <1>3. QED
    BY <1>1, <1>2, InitFresh, DriverOrder, DrivesTheClock, DrivenIsClock, ClockHolds, PTL DEF RegsSpec
=============================================================================
