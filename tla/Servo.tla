------------------------------- MODULE Servo -------------------------------
(***************************************************************************)
(* The numbers of one exchange after the other: the four times as the      *)
(* handlers of fw/main.c and fw/ptp_drv.c combine them, and the correction *)
(* they apply to the local clock.  The exchanges are undisturbed (PtpSlave *)
(* says when they are); the path delay is the same in both directions and  *)
(* does not change.                                                        *)
(***************************************************************************)
EXTENDS TimeArith

CONSTANTS
  Paths,    \* path delays, in nanoseconds
  Starts,   \* errors of the local clock to start from
  Instants, \* master times at which something is sent, in nanoseconds
  Lag,      \* nanoseconds between the read and the write of setTime
  Hold,     \* clocks the offset strobe lasts (one is meant, regs.v:357-363)
  Errors,   \* bound: the errors that are followed
  MaxRounds \* bound: exchanges

ASSUME ServoAssumption ==
  /\ Paths \subseteq Nat /\ Lag \in Nat /\ Hold \in Nat \ {0}
  /\ Errors \subseteq Int /\ Starts \subseteq Errors /\ Instants \subseteq Nat
  /\ MaxRounds \in Nat

VARIABLES
  stage,          \* what the exchange has reached
  path,           \* the path delay
  err,            \* local time minus master time
  ts1, ts2, ts3, ts4, delay, offset, localTime,
  rtc_offset,     \* the register RTC_OFFSET
  round,
  measured        \* history: the error when ts2 was taken

vars == <<stage, path, err, ts1, ts2, ts3, ts4, delay, offset, localTime, rtc_offset,
          round, measured>>
-----------------------------------------------------------------------------
Zero == [sec_l |-> 0, nsec |-> 0]

(* A clock, the master's or the RTC, that shows t nanoseconds.             *)
Clock(t) == [sec_l |-> t \div NS, nsec |-> t % NS]

Init ==
  /\ stage = "idle"
  /\ path \in Paths /\ err \in Starts
  /\ ts1 = Zero /\ ts2 = Zero /\ ts3 = Zero /\ ts4 = Zero
  /\ delay = Zero /\ offset = Zero /\ localTime = Zero
  /\ rtc_offset = 0 /\ round = 0 /\ measured = 0

(* Sync leaves the master at t and is stamped a path delay later.          *)
handleSync(t) ==
  /\ stage = "idle" /\ round < MaxRounds
  /\ t + path + err >= 0
  /\ stage' = "synced" /\ round' = round + 1
  /\ ts1' = Clock(t) /\ ts2' = Clock(t + path + err)
  /\ measured' = err
  /\ UNCHANGED <<err, ts3, ts4, delay, offset, localTime, rtc_offset>>

(* Mutant: the delay is added.                                             *)
updateOffsetAdded(t1, t2, d) ==
  normalizeTime(addTime(normalizeTime(subTime(t2, t1)), d))

updateOffset(t1, t2, d) ==
  normalizeTime(subTime(normalizeTime(subTime(t2, t1)), d))

handleFollowUp ==
  /\ stage = "synced"
  /\ stage' = "followed"
  /\ offset' = updateOffset(ts1, ts2, delay)
  /\ UNCHANGED <<err, ts1, ts2, ts3, ts4, delay, localTime, rtc_offset, round,
                 measured>>

(* Delay_Req leaves at master time t; its Delay_Resp carries the arrival.  *)
DelayReq(t) ==
  /\ stage = "followed"
  /\ t + err >= Value(ts2)
  /\ stage' = "answered"
  /\ ts3' = Clock(t + err) /\ ts4' = Clock(t + path)
  /\ UNCHANGED <<err, ts1, ts2, delay, offset, localTime, rtc_offset, round,
                 measured>>

(* ts2 and ts4 are overwritten with the two durations.                     *)
handleDelayResp ==
  /\ stage = "answered"
  /\ stage' = "adjust"
  /\ ts2' = normalizeTime(subTime(ts2, ts1))
  /\ ts4' = normalizeTime(subTime(ts4, ts3))
  /\ delay' = div2Time(normalizeTime(addTime(ts2', ts4')))
  /\ UNCHANGED <<err, ts1, ts3, offset, localTime, rtc_offset, round, measured>>

(* Time does not run backwards, and the corrected time can be shown.       *)
SetAllowed(t) == t + err >= Value(ts3) /\ t + err - Value(offset) >= 0

(* offset.sec_l # 0: the clock, read at master time t, is set.             *)
setTime(t) ==
  /\ stage = "adjust" /\ offset.sec_l # 0
  /\ SetAllowed(t)
  /\ stage' = "idle"
  /\ localTime' = normalizeTime(subTime(Clock(t + err), offset))
  /\ \E lag \in 0 .. Lag : err' = Value(localTime') - t - lag
  /\ err' \in Errors
  /\ UNCHANGED <<ts1, ts2, ts3, ts4, delay, offset, rtc_offset, round, measured>>

(* offset.sec_l = 0: RTC_OFFSET -= offset.nsec reads the register back.    *)
applyOffset ==
  /\ stage = "adjust" /\ offset.sec_l = 0
  /\ stage' = "idle"
  /\ rtc_offset' = rtc_offset - offset.nsec
  /\ err' = err + Hold * rtc_offset'
  /\ err' \in Errors
  /\ UNCHANGED <<ts1, ts2, ts3, ts4, delay, offset, localTime, round, measured>>

Next ==
  /\ \/ \E t \in Instants : handleSync(t) \/ DelayReq(t) \/ setTime(t)
     \/ handleFollowUp \/ handleDelayResp \/ applyOffset
  /\ UNCHANGED path

Spec == Init /\ [][Next]_vars
-----------------------------------------------------------------------------
(* The path delay comes out exactly, whatever the clock error, and so does *)
(* the error once the delay is known: no sign, carry or halving of the     *)
(* second/nanosecond pairs loses anything (arith.c, ptp_drv.c:117-132).    *)
ExactMeasurement ==
  /\ stage = "adjust" => Value(delay) = path
  /\ stage = "adjust" => Value(offset) = measured + IF round = 1 THEN path ELSE 0

(* No part of a duration contradicts the sign of the other, so that        *)
(* offset.sec_l # 0 says that the error is a second or more (main.c:52).   *)
SignsAgree ==
  /\ Normal(offset) /\ Normal(delay) /\ Normal(localTime)
  /\ stage \in {"followed", "answered", "adjust"} =>
       (offset.sec_l # 0 <=> Value(offset) \notin (1 - NS) .. (NS - 1))

(* What setTime writes to the clock is a time a clock can show.            *)
ClockReadable == localTime.sec_l >= 0 /\ localTime.nsec \in 0 .. NS - 1

(* No sum or difference leaves the 32 bits it is computed in.              *)
NoOverflow ==
  /\ stage = "synced" =>
       /\ Fits(Diff(ts2, ts1))
       /\ Fits(Diff(normalizeTime(subTime(ts2, ts1)), delay))
  /\ stage = "answered" =>
       LET d2 == subTime(ts2, ts1)
           d4 == subTime(ts4, ts3)
           d  == addTime(d2, d4)
       IN  /\ Fits(Diff(ts2, ts1)) /\ Fits(Diff(ts4, ts3)) /\ Fits(Sum(d2, d4))
           /\ Carried(d) \in (-IntMax - 1) .. IntMax
  /\ stage = "adjust" /\ offset.sec_l # 0 =>
       \A t \in Instants : SetAllowed(t) => Fits(Diff(Clock(t + err), offset))

(* An error of a second or more is removed by one exchange once the delay  *)
(* is known, up to the time setTime takes.                                 *)
SetOnce ==
  [][stage = "adjust" /\ stage' = "idle" /\ offset.sec_l # 0 /\ round > 1
       => err' \in -Lag .. 0]_vars

(* A correction takes the measured error off the clock (readme.md:20:      *)
(* Direct time adjustment).                                                *)
DirectAdjustment ==
  [][stage = "adjust" /\ stage' = "idle" /\ offset.sec_l = 0
       => err' = err - offset.nsec]_vars
=============================================================================
