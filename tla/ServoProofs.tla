---------------------------- MODULE ServoProofs ------------------------------
(***************************************************************************)
(* The arithmetic of the driver, and one exchange of messages with it, for *)
(* every path delay, clock error, instant and number of nanoseconds in a   *)
(* second.                                                                 *)
(***************************************************************************)
EXTENDS Servo, TLAPS

(***************************************************************************)
(* TimeArith: the arithmetic of fw/arith.c is exact on every pair of       *)
(* integers.  (Overflow is what StaysInRange is about; here the integers   *)
(* are unbounded.)                                                         *)
(***************************************************************************)

(* Truncated division leaves a remainder of less than the divisor.         *)
LEMMA Truncation ==
  ASSUME NEW a \in Int, NEW b \in Nat \ {0}
  PROVE  /\ Quot(a, b) \in Int /\ Rem(a, b) \in Int
         /\ a = b * Quot(a, b) + Rem(a, b)
         /\ Rem(a, b) \in (1 - b) .. (b - 1)
  <1>1. ASSUME NEW c \in Nat
        PROVE  /\ c \div b \in Nat
               /\ c - b * (c \div b) \in 0 .. b - 1
    <2>1. c \div b \in Nat /\ c % b \in 0 .. b - 1
      OBVIOUS
    <2>2. c = b * (c \div b) + (c % b)
      OBVIOUS
    <2>3. b * (c \div b) \in Nat
      BY <2>1
    <2>4. QED
      BY <2>1, <2>2, <2>3
  <1>2. CASE a >= 0
    <2>1. a \in Nat /\ Quot(a, b) = a \div b
      BY <1>2 DEF Quot
    <2>2. Quot(a, b) \in Int /\ a - b * Quot(a, b) \in 0 .. b - 1
      BY <1>1, <2>1
    <2>3. b * Quot(a, b) \in Int
      BY <2>2
    <2>4. Rem(a, b) \in 0 .. b - 1 /\ a = b * Quot(a, b) + Rem(a, b)
      BY <2>2, <2>3 DEF Rem
    <2>5. QED
      BY <2>2, <2>4
  <1>3. CASE a < 0
    <2>1. -a \in Nat /\ Quot(a, b) = -((-a) \div b)
      BY <1>3 DEF Quot
    <2>2. (-a) \div b \in Nat /\ (-a) - b * ((-a) \div b) \in 0 .. b - 1
      BY <1>1, <2>1
    <2>3. Quot(a, b) \in Int /\ b * Quot(a, b) = -(b * ((-a) \div b)) /\ b * Quot(a, b) \in Int
      BY <2>1, <2>2
    <2>4. /\ b * ((-a) \div b) \in Nat
          /\ Rem(a, b) = a + b * ((-a) \div b)
      BY <2>1, <2>2, <2>3 DEF Rem
    <2>5. Rem(a, b) \in 1 - b .. 0
      BY <1>3, <2>2, <2>4
    <2>6. a = b * Quot(a, b) + Rem(a, b)
      BY <2>3, <2>4
    <2>7. QED
      BY <1>3, <2>3, <2>5, <2>6
  <1>4. QED
    BY <1>2, <1>3

(* normalizeTime changes the pair, not the duration, and leaves no part    *)
(* that contradicts the sign of the other.                                 *)
THEOREM NormalizeExact ==
  ASSUME NEW ts \in timestamp
  PROVE  /\ normalizeTime(ts) \in timestamp
         /\ Value(normalizeTime(ts)) = Value(ts)
         /\ Normal(normalizeTime(ts))
  <1> DEFINE s == ts.sec_l + Quot(ts.nsec, NS)
             n == Rem(ts.nsec, NS)
  <1>1. ts.sec_l \in Int /\ ts.nsec \in Int /\ NS \in Nat \ {0}
    BY ArithAssumption DEF timestamp
  <1>2. s \in Int /\ n \in (1 - NS) .. (NS - 1)
    <2>1. Quot(ts.nsec, NS) \in Int /\ n \in (1 - NS) .. (NS - 1)
      BY <1>1, Truncation
    <2>2. QED
      BY <1>1, <2>1
  <1>3. s * NS + n = Value(ts)
    <2>1. /\ Quot(ts.nsec, NS) \in Int /\ n \in Int
          /\ ts.nsec = NS * Quot(ts.nsec, NS) + n
      BY <1>1, Truncation
    <2>2. \A x, q, b \in Int : (x + q) * b = x * b + b * q
      OBVIOUS
    <2>3. s * NS = ts.sec_l * NS + NS * Quot(ts.nsec, NS)
      BY <1>1, <2>1, <2>2
    <2>4. ts.sec_l * NS \in Int /\ NS * Quot(ts.nsec, NS) \in Int
      BY <1>1, <2>1
    <2>5. QED
      BY <2>1, <2>3, <2>4 DEF Value
  <1>4. normalizeTime(ts) = IF s > 0 /\ n < 0 THEN [sec_l |-> s - 1, nsec |-> n + NS]
                            ELSE IF s < 0 /\ n > 0 THEN [sec_l |-> s + 1, nsec |-> n - NS]
                            ELSE [sec_l |-> s, nsec |-> n]
    BY DEF normalizeTime
  <1>5. /\ s * NS \in Int /\ (s - 1) * NS = s * NS - NS /\ (s + 1) * NS = s * NS + NS
    BY <1>1, <1>2
  <1> HIDE DEF s, n
  <1>6. normalizeTime(ts) \in timestamp
    BY <1>1, <1>2, <1>4 DEF timestamp
  <1>7. Value(normalizeTime(ts)) = s * NS + n
    BY <1>1, <1>2, <1>4, <1>5 DEF Value
  <1>8. Normal(normalizeTime(ts))
    BY <1>1, <1>2, <1>4 DEF Normal
  <1>9. QED
    BY <1>3, <1>6, <1>7, <1>8

(* Sums and differences are those of the durations.                        *)
THEOREM SumExact ==
  ASSUME NEW x \in timestamp, NEW y \in timestamp
  PROVE  /\ addTime(x, y) \in timestamp /\ Normal(addTime(x, y))
         /\ Value(addTime(x, y)) = Value(x) + Value(y)
         /\ subTime(x, y) \in timestamp /\ Normal(subTime(x, y))
         /\ Value(subTime(x, y)) = Value(x) - Value(y)
  <1>1. /\ x.sec_l \in Int /\ x.nsec \in Int /\ y.sec_l \in Int /\ y.nsec \in Int /\ NS \in Int
    BY ArithAssumption DEF timestamp
  <1>2. Sum(x, y) \in timestamp /\ Diff(x, y) \in timestamp
    BY <1>1 DEF Sum, Diff, timestamp
  <1>3. /\ (x.sec_l + y.sec_l) * NS = x.sec_l * NS + y.sec_l * NS
        /\ (x.sec_l - y.sec_l) * NS = x.sec_l * NS - y.sec_l * NS
        /\ x.sec_l * NS \in Int /\ y.sec_l * NS \in Int
    BY <1>1
  <1>4. Value(Sum(x, y)) = Value(x) + Value(y)
    BY <1>1, <1>3 DEF Value, Sum
  <1>5. Value(Diff(x, y)) = Value(x) - Value(y)
    BY <1>1, <1>3 DEF Value, Diff
  <1>6. QED
    BY <1>2, <1>4, <1>5, NormalizeExact DEF addTime, subTime

(* The remainder takes no sign the dividend has not.                       *)
LEMMA RemainderSign ==
  ASSUME NEW a \in Int, NEW b \in Nat \ {0}
  PROVE  (a >= 0 => Rem(a, b) >= 0) /\ (a <= 0 => Rem(a, b) <= 0)
  <1>1. ASSUME NEW c \in Nat
        PROVE  c - b * (c \div b) \in Nat
    <2>1. c = b * (c \div b) + (c % b) /\ c % b \in Nat
      OBVIOUS
    <2>2. c \div b \in Int /\ b * (c \div b) \in Int
      OBVIOUS
    <2>3. QED
      BY <2>1, <2>2
  <1>2. CASE a >= 0
    <2>1. a \in Nat /\ Rem(a, b) = a - b * (a \div b)
      BY <1>2 DEF Rem, Quot
    <2>2. Rem(a, b) >= 0
      BY <1>1, <2>1
    <2>3. a <= 0 => Rem(a, b) <= 0
      <3>1. a <= 0 => a = 0 /\ 0 \div b = 0 /\ b * 0 = 0
        BY <1>2
      <3>2. QED
        BY <2>1, <3>1
    <2>4. QED
      BY <2>2, <2>3
  <1>3. CASE a < 0
    <2>1. -a \in Nat /\ Quot(a, b) = -((-a) \div b) /\ (-a) \div b \in Int
      BY <1>3 DEF Quot
    <2>2. b * Quot(a, b) = -(b * ((-a) \div b)) /\ b * ((-a) \div b) \in Int
      BY <2>1
    <2>3. Rem(a, b) = a + b * ((-a) \div b)
      BY <2>2 DEF Rem
    <2>4. (-a) - b * ((-a) \div b) \in Nat
      BY <1>1, <2>1
    <2>5. QED
      BY <1>3, <2>2, <2>3, <2>4
  <1>4. QED
    BY <1>2, <1>3

(* What is halved, and what the halving of the nanoseconds leaves over.    *)
LEMMA HalfAndRest ==
  ASSUME NEW r \in timestamp
  PROVE  /\ Carried(r) \in Int /\ Rem(Carried(r), 2) \in -1 .. 1
         /\ div2Time(r) \in timestamp /\ Normal(div2Time(r))
         /\ Value(r) = 2 * Value(div2Time(r)) + Rem(Carried(r), 2)
  <1>1. r.sec_l \in Int /\ r.nsec \in Int /\ NS \in Nat \ {0}
    BY ArithAssumption DEF timestamp
  <1> DEFINE q == Quot(r.sec_l, 2)
             b == Rem(r.sec_l, 2)
             c == Carried(r)
  <1>2. q \in Int /\ b \in Int /\ r.sec_l = 2 * q + b
    BY <1>1, Truncation
  <1>3. c \in Int /\ b * NS \in Int /\ q * NS \in Int
    BY <1>1, <1>2 DEF Carried
  <1>4. Value(r) = 2 * (q * NS) + c
    <2>1. (2 * q + b) * NS = 2 * (q * NS) + b * NS
      BY <1>1, <1>2
    <2>2. QED
      BY <1>1, <1>2, <1>3, <2>1 DEF Value, Carried
  <1>5. /\ Quot(c, 2) \in Int /\ Rem(c, 2) \in -1 .. 1
        /\ c = 2 * Quot(c, 2) + Rem(c, 2)
    <2>1. 2 \in Nat \ {0}
      OBVIOUS
    <2>2. Rem(c, 2) \in (1 - 2) .. (2 - 1)
      BY <1>3, <2>1, Truncation
    <2>3. \A x : x \in (1 - 2) .. (2 - 1) => x \in -1 .. 1
      OBVIOUS
    <2> HIDE DEF c
    <2>4. Quot(c, 2) \in Int /\ c = 2 * Quot(c, 2) + Rem(c, 2)
      BY <1>3, <2>1, Truncation
    <2>5. QED
      BY <2>2, <2>3, <2>4
  <1> DEFINE p == [sec_l |-> q, nsec |-> Quot(c, 2)]
  <1>6. p \in timestamp /\ Value(p) = q * NS + Quot(c, 2)
    BY <1>2, <1>5 DEF timestamp, Value
  <1>7. div2Time(r) = normalizeTime(p)
    BY DEF div2Time
  <1>8. div2Time(r) \in timestamp /\ Normal(div2Time(r)) /\ Value(div2Time(r)) = Value(p)
    BY <1>6, <1>7, NormalizeExact
  <1>9. Value(r) = 2 * Value(div2Time(r)) + Rem(c, 2)
    <2> HIDE DEF c, q
    <2>1. QED
      BY <1>3, <1>4, <1>5, <1>6, <1>8
  <1>10. QED
    BY <1>3, <1>5, <1>8, <1>9

(* Half of a duration is off by half a nanosecond at most, and of a pair   *)
(* of one sign, as addTime returns it, never away from zero: the odd       *)
(* second is not lost (arith.c:36-54).                                     *)
THEOREM HalfExact ==
  ASSUME NEW r \in timestamp
  PROVE  LET rest == Value(r) - 2 * Value(div2Time(r))
         IN  /\ div2Time(r) \in timestamp /\ Normal(div2Time(r))
             /\ rest \in -1 .. 1
             /\ Normal(r) => /\ Value(r) >= 0 => rest >= 0
                             /\ Value(r) <= 0 => rest <= 0
  <1> DEFINE c == Carried(r)
             m == Rem(c, 2)
             b == Rem(r.sec_l, 2)
             rest == Value(r) - 2 * Value(div2Time(r))
  <1>1. r.sec_l \in Int /\ r.nsec \in Int /\ NS \in Nat \ {0} /\ 2 \in Nat \ {0}
    BY ArithAssumption DEF timestamp
  <1>2. /\ div2Time(r) \in timestamp /\ Normal(div2Time(r)) /\ c \in Int /\ m \in -1 .. 1
        /\ Value(r) = 2 * Value(div2Time(r)) + m
    BY HalfAndRest
  <1>3. rest = m
    <2>1. Value(div2Time(r)) \in Int
      BY <1>1, <1>2 DEF timestamp, Value
    <2> HIDE DEF m, c
    <2>2. QED
      BY <1>2, <2>1
  <1>4. b \in Int /\ (r.sec_l >= 0 => b >= 0) /\ (r.sec_l <= 0 => b <= 0)
    BY <1>1, Truncation, RemainderSign
  <1>5. (c >= 0 => m >= 0) /\ (c <= 0 => m <= 0)
    <2> HIDE DEF c
    <2>1. QED
      BY <1>1, <1>2, RemainderSign
  <1>6. c = r.nsec + b * NS
    BY DEF Carried
  <1>7. ASSUME Normal(r), Value(r) >= 0 PROVE m >= 0
    <2>1. r.sec_l >= 0
      <3>1. r.sec_l < 0 => r.sec_l * NS < 0
        BY <1>1
      <3>2. QED
        BY <1>1, <1>7, <3>1 DEF Normal, Value
    <2>2. r.nsec >= 0
      BY <1>1, <1>7, <2>1 DEF Normal, Value
    <2>3. b * NS >= 0 /\ b * NS \in Int
      BY <1>1, <1>4, <2>1
    <2>4. c >= 0
      BY <1>1, <1>6, <2>2, <2>3
    <2>5. QED
      BY <1>5, <2>4
  <1>8. ASSUME Normal(r), Value(r) <= 0 PROVE m <= 0
    <2>1. r.sec_l <= 0
      <3>1. r.sec_l > 0 => r.sec_l * NS > 0
        BY <1>1
      <3>2. QED
        BY <1>1, <1>8, <3>1 DEF Normal, Value
    <2>2. r.nsec <= 0
      BY <1>1, <1>8, <2>1 DEF Normal, Value
    <2>3. b * NS <= 0 /\ b * NS \in Int
      BY <1>1, <1>4, <2>1
    <2>4. c <= 0
      BY <1>1, <1>6, <2>2, <2>3
    <2>5. QED
      BY <1>5, <2>4
  <1>9. QED
    BY <1>2, <1>3, <1>7, <1>8

(* Half of an even duration is exact.                                      *)
LEMMA HalfOfEven ==
  ASSUME NEW r \in timestamp, NEW h \in Int, Value(r) = 2 * h
  PROVE  div2Time(r) \in timestamp /\ Normal(div2Time(r)) /\ Value(div2Time(r)) = h
  <1>1. div2Time(r) \in timestamp /\ Normal(div2Time(r))
    BY HalfAndRest
  <1>2. Value(div2Time(r)) \in Int
    BY <1>1, ArithAssumption DEF timestamp, Value
  <1>3. PICK m \in -1 .. 1 : 2 * h = 2 * Value(div2Time(r)) + m
    BY HalfAndRest
  <1>4. Value(div2Time(r)) = h
    BY <1>2, <1>3
  <1>5. QED
    BY <1>1, <1>4

-----------------------------------------------------------------------------
(***************************************************************************)
(* Servo: the handlers measure the delay and the error exactly, with one   *)
(* sign, and within 32 bits.                                               *)
(***************************************************************************)

(* The delay is known once an answer has been handled.                     *)
Known == IF round = 0 \/ (round = 1 /\ stage # "adjust" /\ stage # "idle") THEN 0 ELSE path

ServoTypeOK ==
  /\ stage \in {"idle", "synced", "followed", "answered", "adjust"}
  /\ path \in Nat /\ err \in Int /\ measured \in Int /\ rtc_offset \in Int
  /\ round \in Nat /\ (stage # "idle" => round > 0)
  /\ ts1 \in timestamp /\ ts2 \in timestamp /\ ts3 \in timestamp /\ ts4 \in timestamp
  /\ delay \in timestamp /\ offset \in timestamp /\ localTime \in timestamp

(* What the times of an exchange say of each other, stage by stage.        *)
Measured ==
  /\ Value(delay) = Known
  /\ stage # "idle" => err = measured
  /\ stage \in {"synced", "followed", "answered"} => Value(ts2) - Value(ts1) = path + err
  /\ stage \in {"followed", "answered"} => Value(offset) = path + err - Known
  /\ stage \in {"synced", "followed"} => Value(ts2) >= 0
  /\ stage \in {"answered", "adjust"} => Value(ts3) >= 0
  /\ stage = "answered" => Value(ts4) - Value(ts3) = path - err
  /\ stage = "adjust" => Value(offset) = measured + IF round = 1 THEN path ELSE 0

AllNormal == Normal(offset) /\ Normal(delay) /\ Normal(localTime)

ServoInv == ServoTypeOK /\ Measured /\ AllNormal /\ ClockReadable
-----------------------------------------------------------------------------
(* A clock shows the time it is asked for, as a normal pair.               *)
LEMMA ClockExact ==
  ASSUME NEW t \in Nat
  PROVE  /\ Clock(t) \in timestamp /\ Value(Clock(t)) = t /\ Normal(Clock(t))
         /\ Clock(t).sec_l \in Nat /\ Clock(t).nsec \in 0 .. NS - 1
  <1>1. NS \in Nat \ {0}
    BY ArithAssumption
  <1>2. t \div NS \in Nat /\ t % NS \in 0 .. NS - 1 /\ t = NS * (t \div NS) + (t % NS)
    BY <1>1
  <1>3. (t \div NS) * NS = NS * (t \div NS) /\ NS * (t \div NS) \in Int
    BY <1>1, <1>2
  <1>4. QED
    BY <1>1, <1>2, <1>3 DEF Clock, timestamp, Value, Normal

(* A normal pair of a second or more, and only that, has seconds; one that *)
(* is not negative has no negative part.                                   *)
LEMMA NormalPair ==
  ASSUME NEW ts \in timestamp, Normal(ts)
  PROVE  /\ ts.sec_l # 0 <=> Value(ts) \notin (1 - NS) .. (NS - 1)
         /\ Value(ts) >= 0 => ts.sec_l \in Nat /\ ts.nsec \in 0 .. NS - 1
         /\ Value(ts) \in Int
  <1>1. /\ NS \in Nat \ {0} /\ ts.sec_l \in Int /\ ts.nsec \in (1 - NS) .. (NS - 1)
        /\ ~(ts.sec_l > 0 /\ ts.nsec < 0) /\ ~(ts.sec_l < 0 /\ ts.nsec > 0)
    BY ArithAssumption DEF timestamp, Normal
  <1>2. ts.sec_l * NS \in Int
    BY <1>1
  <1>3. CASE ts.sec_l = 0
    BY <1>1, <1>2, <1>3 DEF Value
  <1>4. CASE ts.sec_l >= 1
    <2>1. ts.sec_l * NS >= NS
      BY <1>1, <1>4
    <2>2. QED
      BY <1>1, <1>2, <1>4, <2>1 DEF Value
  <1>5. CASE ts.sec_l <= -1
    <2>1. ts.sec_l * NS <= -NS
      BY <1>1, <1>5
    <2>2. QED
      BY <1>1, <1>2, <1>5, <2>1 DEF Value
  <1>6. QED
    BY <1>1, <1>3, <1>4, <1>5

LEMMA ValueIsInt == ASSUME NEW ts \in timestamp PROVE Value(ts) \in Int
  BY ArithAssumption DEF timestamp, Value

(* The correction handleFollowUp computes is the difference of the times   *)
(* less the delay.                                                         *)
LEMMA OffsetExact ==
  ASSUME NEW x \in timestamp, NEW y \in timestamp, NEW d \in timestamp
  PROVE  /\ updateOffset(x, y, d) \in timestamp /\ Normal(updateOffset(x, y, d))
         /\ Value(updateOffset(x, y, d)) = Value(y) - Value(x) - Value(d)
  <1>1. /\ subTime(y, x) \in timestamp /\ Value(subTime(y, x)) = Value(y) - Value(x)
    BY SumExact
  <1>2. /\ normalizeTime(subTime(y, x)) \in timestamp
        /\ Value(normalizeTime(subTime(y, x))) = Value(y) - Value(x)
    BY <1>1, NormalizeExact
  <1> DEFINE e == normalizeTime(subTime(y, x))
  <1>3. /\ subTime(e, d) \in timestamp /\ Value(subTime(e, d)) = Value(e) - Value(d)
    BY <1>2, SumExact
  <1>4. /\ normalizeTime(subTime(e, d)) \in timestamp /\ Normal(normalizeTime(subTime(e, d)))
        /\ Value(normalizeTime(subTime(e, d))) = Value(e) - Value(d)
    BY <1>3, NormalizeExact
  <1>5. QED
    BY <1>2, <1>4 DEF updateOffset
-----------------------------------------------------------------------------
LEMMA InitServo == Init => ServoInv
  <1>1. SUFFICES ASSUME Init PROVE ServoInv
    OBVIOUS
  <1>2. Zero \in timestamp /\ Value(Zero) = 0 /\ Normal(Zero)
    BY ArithAssumption DEF Zero, timestamp, Value, Normal
  <1>3. path \in Nat /\ err \in Int
    BY <1>1, ServoAssumption DEF Init
  <1>4. ClockReadable
    BY <1>1, ArithAssumption DEF Init, ClockReadable, Zero
  <1>5. QED
    BY <1>1, <1>2, <1>3, <1>4 DEF Init, ServoInv, ServoTypeOK, Measured, AllNormal, Known

LEMMA SyncKeeps ==
  ASSUME ServoInv, NEW t \in Instants, handleSync(t), path' = path
  PROVE  ServoInv'
  <1>1. t \in Nat /\ t + path + err \in Nat
    BY ServoAssumption DEF ServoInv, ServoTypeOK, handleSync
  <1>2. /\ ts1' \in timestamp /\ Value(ts1') = t
        /\ ts2' \in timestamp /\ Value(ts2') = t + path + err
    BY <1>1, ClockExact DEF handleSync
  <1>3. ServoTypeOK'
    BY <1>2 DEF ServoInv, ServoTypeOK, handleSync
  <1>4. Known' = Known
    BY DEF ServoInv, ServoTypeOK, handleSync, Known
  <1>5. Measured'
    BY <1>1, <1>2, <1>4 DEF ServoInv, ServoTypeOK, Measured, handleSync
  <1>6. QED
    BY <1>3, <1>5 DEF ServoInv, AllNormal, ClockReadable, handleSync

LEMMA FollowUpKeeps ==
  ASSUME ServoInv, handleFollowUp, path' = path
  PROVE  ServoInv'
  <1>1. ts1 \in timestamp /\ ts2 \in timestamp /\ delay \in timestamp
    BY DEF ServoInv, ServoTypeOK
  <1>2. /\ offset' \in timestamp /\ Normal(offset')
        /\ Value(offset') = Value(ts2) - Value(ts1) - Value(delay)
    BY <1>1, OffsetExact DEF handleFollowUp
  <1>3. ServoTypeOK'
    BY <1>2 DEF ServoInv, ServoTypeOK, handleFollowUp
  <1>4. Known' = Known
    BY DEF ServoInv, ServoTypeOK, handleFollowUp, Known
  <1>5. /\ Value(offset') = path + err - Known /\ Value(ts2') - Value(ts1') = path + err
        /\ Value(ts2') >= 0 /\ Value(delay') = Known /\ err' = measured'
    BY <1>1, <1>2, ValueIsInt DEF ServoInv, ServoTypeOK, Measured, handleFollowUp
  <1>6. Measured'
    BY <1>4, <1>5 DEF Measured, handleFollowUp
  <1>7. QED
    BY <1>2, <1>3, <1>6 DEF ServoInv, AllNormal, ClockReadable, handleFollowUp

LEMMA DelayReqKeeps ==
  ASSUME ServoInv, NEW t \in Instants, DelayReq(t), path' = path
  PROVE  ServoInv'
  <1>1. /\ t \in Nat /\ path \in Nat /\ err \in Int
        /\ Value(ts2) \in Int /\ Value(ts2) >= 0 /\ t + err >= Value(ts2)
    BY ServoAssumption, ValueIsInt DEF ServoInv, ServoTypeOK, Measured, DelayReq
  <1>2. t + err \in Nat /\ t + path \in Nat
    BY <1>1
  <1>3. /\ ts3' \in timestamp /\ Value(ts3') = t + err
        /\ ts4' \in timestamp /\ Value(ts4') = t + path
    BY <1>2, ClockExact DEF DelayReq
  <1>4. ServoTypeOK'
    BY <1>3 DEF ServoInv, ServoTypeOK, DelayReq
  <1>5. Known' = Known
    BY DEF ServoInv, ServoTypeOK, DelayReq, Known
  <1>6. Measured'
    BY <1>1, <1>2, <1>3, <1>5 DEF ServoInv, ServoTypeOK, Measured, DelayReq
  <1>7. QED
    BY <1>4, <1>6 DEF ServoInv, AllNormal, ClockReadable, DelayReq

LEMMA DelayRespKeeps ==
  ASSUME ServoInv, handleDelayResp, path' = path
  PROVE  ServoInv'
  <1>1. /\ ts1 \in timestamp /\ ts2 \in timestamp /\ ts3 \in timestamp /\ ts4 \in timestamp
        /\ path \in Int /\ err \in Int
        /\ Value(ts2) - Value(ts1) = path + err /\ Value(ts4) - Value(ts3) = path - err
    BY DEF ServoInv, ServoTypeOK, Measured, handleDelayResp
  <1>2. /\ subTime(ts2, ts1) \in timestamp /\ Value(subTime(ts2, ts1)) = path + err
        /\ subTime(ts4, ts3) \in timestamp /\ Value(subTime(ts4, ts3)) = path - err
    BY <1>1, SumExact
  <1>3. /\ ts2' \in timestamp /\ Value(ts2') = path + err
        /\ ts4' \in timestamp /\ Value(ts4') = path - err
    BY <1>2, NormalizeExact DEF handleDelayResp
  <1>4. /\ addTime(ts2', ts4') \in timestamp
        /\ Value(addTime(ts2', ts4')) = (path + err) + (path - err)
    BY <1>3, SumExact
  <1>5. /\ normalizeTime(addTime(ts2', ts4')) \in timestamp
        /\ Value(normalizeTime(addTime(ts2', ts4'))) = 2 * path
    BY <1>1, <1>4, NormalizeExact
  <1>6. delay' \in timestamp /\ Normal(delay') /\ Value(delay') = path
    BY <1>1, <1>5, HalfOfEven DEF handleDelayResp
  <1>7. ServoTypeOK'
    BY <1>3, <1>6 DEF ServoInv, ServoTypeOK, handleDelayResp
  <1>8. Known' = path /\ Known = IF round = 1 THEN 0 ELSE path
    BY DEF ServoInv, ServoTypeOK, handleDelayResp, Known
  <1>9. Value(offset) = measured + IF round = 1 THEN path ELSE 0
    BY <1>1, <1>8 DEF ServoInv, ServoTypeOK, Measured, handleDelayResp
  <1>10. Measured'
    BY <1>6, <1>8, <1>9 DEF ServoInv, ServoTypeOK, Measured, handleDelayResp
  <1>11. QED
    BY <1>6, <1>7, <1>10 DEF ServoInv, AllNormal, ClockReadable, handleDelayResp

(* The time setTime writes, from the time it reads and the correction.     *)
LEMMA TimeWritten ==
  ASSUME ServoInv, NEW t \in Instants, setTime(t)
  PROVE  /\ localTime' \in timestamp /\ Normal(localTime')
         /\ Value(localTime') = t + err - Value(offset) /\ Value(localTime') >= 0
         /\ \E lag \in 0 .. Lag : err' = Value(localTime') - t - lag
  <1>1. /\ t \in Nat /\ err \in Int /\ offset \in timestamp
        /\ Value(ts3) \in Int /\ Value(ts3) >= 0 /\ t + err >= Value(ts3)
        /\ Value(offset) \in Int /\ t + err - Value(offset) >= 0
    BY ServoAssumption, ValueIsInt DEF ServoInv, ServoTypeOK, Measured, setTime, SetAllowed
  <1>2. t + err \in Nat
    BY <1>1
  <1>3. Clock(t + err) \in timestamp /\ Value(Clock(t + err)) = t + err
    BY <1>2, ClockExact
  <1> DEFINE d == subTime(Clock(t + err), offset)
  <1>4. d \in timestamp /\ Value(d) = t + err - Value(offset)
    BY <1>1, <1>2, <1>3, SumExact
  <1>5. localTime' = normalizeTime(d)
    BY DEF setTime
  <1> HIDE DEF d
  <1>6. QED
    BY <1>1, <1>4, <1>5, NormalizeExact DEF setTime

LEMMA SetTimeKeeps ==
  ASSUME ServoInv, NEW t \in Instants, setTime(t), path' = path
  PROVE  ServoInv'
  <1>1. /\ localTime' \in timestamp /\ Normal(localTime') /\ Value(localTime') >= 0
        /\ \E lag \in 0 .. Lag : err' = Value(localTime') - t - lag
    BY TimeWritten
  <1>2. err' \in Int
    BY <1>1, ServoAssumption, ValueIsInt
  <1>3. ServoTypeOK'
    BY <1>1, <1>2 DEF ServoInv, ServoTypeOK, setTime
  <1>4. Known' = Known
    BY DEF ServoInv, ServoTypeOK, setTime, Known
  <1>5. Measured'
    BY <1>4 DEF ServoInv, Measured, setTime
  <1>6. ClockReadable'
    BY <1>1, NormalPair DEF ClockReadable
  <1>7. QED
    BY <1>1, <1>3, <1>5, <1>6 DEF ServoInv, AllNormal, setTime

LEMMA ApplyKeeps ==
  ASSUME ServoInv, applyOffset, path' = path
  PROVE  ServoInv'
  <1>1. rtc_offset' \in Int
    BY DEF ServoInv, ServoTypeOK, applyOffset, timestamp
  <1>2. err' \in Int
    BY <1>1, ServoAssumption DEF ServoInv, ServoTypeOK, applyOffset
  <1>3. ServoTypeOK'
    BY <1>1, <1>2 DEF ServoInv, ServoTypeOK, applyOffset
  <1>4. Known' = Known
    BY DEF ServoInv, ServoTypeOK, applyOffset, Known
  <1>5. QED
    BY <1>3, <1>4 DEF ServoInv, AllNormal, Measured, ClockReadable, applyOffset

LEMMA ServoInductive == ServoInv /\ [Next]_vars => ServoInv'
  <1>1. SUFFICES ASSUME ServoInv, [Next]_vars PROVE ServoInv'
    OBVIOUS
  <1>2. CASE UNCHANGED vars
    BY <1>1, <1>2
    DEF vars, ServoInv, ServoTypeOK, Measured, Known, AllNormal, ClockReadable
  <1>3. ASSUME NEW t \in Instants, handleSync(t), path' = path PROVE ServoInv'
    BY <1>1, <1>3, SyncKeeps
  <1>4. ASSUME NEW t \in Instants, DelayReq(t), path' = path PROVE ServoInv'
    BY <1>1, <1>4, DelayReqKeeps
  <1>5. ASSUME NEW t \in Instants, setTime(t), path' = path PROVE ServoInv'
    BY <1>1, <1>5, SetTimeKeeps
  <1>6. ASSUME handleFollowUp, path' = path PROVE ServoInv'
    BY <1>1, <1>6, FollowUpKeeps
  <1>7. ASSUME handleDelayResp, path' = path PROVE ServoInv'
    BY <1>1, <1>7, DelayRespKeeps
  <1>8. ASSUME applyOffset, path' = path PROVE ServoInv'
    BY <1>1, <1>8, ApplyKeeps
  <1>9. QED
    BY <1>1, <1>2, <1>3, <1>4, <1>5, <1>6, <1>7, <1>8 DEF Next

THEOREM ServoInvariant == Spec => []ServoInv
  BY InitServo, ServoInductive, PTL DEF Spec
-----------------------------------------------------------------------------
(* The delay and the error come out exactly, and no part of a duration has *)
(* the other sign, for every path delay and error, on both sides of every  *)
(* second (arith.c, ptp_drv.c:117-132, main.c:44-63).                      *)
THEOREM MeasuresExactly == Spec => []ExactMeasurement
  <1>1. ServoInv => ExactMeasurement
    BY DEF ServoInv, ServoTypeOK, Measured, Known, ExactMeasurement
  <1>2. QED
    BY <1>1, ServoInvariant, PTL

THEOREM OneSign == Spec => []SignsAgree
  <1>1. ServoInv => SignsAgree
    BY NormalPair DEF ServoInv, ServoTypeOK, AllNormal, SignsAgree
  <1>2. QED
    BY <1>1, ServoInvariant, PTL

(* What setTime writes to the clock is a time it can show.                 *)
THEOREM WritesATime == Spec => []ClockReadable
  <1>1. ServoInv => ClockReadable
    BY DEF ServoInv
  <1>2. QED
    BY <1>1, ServoInvariant, PTL

(* An error of a second or more is gone after one exchange with a known    *)
(* delay, up to the time setTime takes (main.c:52-59).                     *)
THEOREM SetsAtOnce == Spec => SetOnce
  <1>1. ServoInv /\ [Next]_vars =>
          [stage = "adjust" /\ stage' = "idle" /\ offset.sec_l # 0 /\ round > 1
             => err' \in -Lag .. 0]_vars
    <2>1. SUFFICES ASSUME ServoInv, Next, stage = "adjust", stage' = "idle",
                          offset.sec_l # 0, round > 1
                   PROVE  err' \in -Lag .. 0
      BY DEF vars
    <2>2. PICK t \in Instants : setTime(t)
      BY <2>1 DEF Next, handleSync, DelayReq, handleFollowUp, handleDelayResp, applyOffset
    <2>3. t \in Nat /\ err \in Int /\ Lag \in Nat /\ Value(offset) = err
      BY <2>1, ServoAssumption DEF ServoInv, ServoTypeOK, Measured
    <2>4. Value(localTime') = t
      BY <2>1, <2>2, <2>3, TimeWritten
    <2>5. PICK lag \in 0 .. Lag : err' = Value(localTime') - t - lag
      BY <2>1, <2>2, TimeWritten
    <2>6. QED
      BY <2>3, <2>4, <2>5
  <1>2. QED
    BY <1>1, ServoInvariant, PTL DEF Spec, SetOnce
-----------------------------------------------------------------------------
(* Both clocks show times of at most IntMax seconds, as 32-bit seconds do  *)
(* until 2038, and a round trip is two seconds shorter than that at least. *)
Representable ==
  \A p \in Paths :
    /\ 2 * p + 2 * NS <= IntMax * NS
    /\ \A t \in Instants : /\ t + p <= IntMax * NS
                          /\ \A e \in Errors : t + p + e <= IntMax * NS

Reading == [sec_l : 0 .. IntMax, nsec : 0 .. NS - 1]

(* What a clock can show in 32 bits, stage by stage.                       *)
InRange ==
  /\ path \in Paths /\ err \in Errors
  /\ stage \in {"synced", "followed", "answered"} => ts1 \in Reading /\ ts2 \in Reading
  /\ stage = "synced" => /\ Value(ts1) >= 0 /\ Value(ts1) + path <= IntMax * NS
                         /\ Value(ts2) <= IntMax * NS
  /\ stage = "answered" => ts3 \in Reading /\ ts4 \in Reading

LEMMA ClockInRange ==
  ASSUME NEW t \in Nat, t <= IntMax * NS
  PROVE  Clock(t) \in Reading
  <1>1. NS \in Nat \ {0} /\ IntMax \in Nat
    BY ArithAssumption
  <1> DEFINE k == t \div NS
  <1>2. k \in Nat /\ t % NS \in 0 .. NS - 1 /\ t = NS * k + (t % NS)
    BY <1>1
  <1>3. Clock(t) = [sec_l |-> k, nsec |-> t % NS]
    BY DEF Clock
  <1> HIDE DEF k
  <1>4. k <= IntMax
    <2>1. SUFFICES ASSUME k >= IntMax + 1 PROVE FALSE
      BY <1>1, <1>2
    <2>2. NS * k >= NS * (IntMax + 1)
      BY <1>1, <1>2, <2>1
    <2>3. NS * (IntMax + 1) = IntMax * NS + NS /\ IntMax * NS \in Int /\ NS * k \in Int
      BY <1>1, <1>2
    <2>4. QED
      BY <1>1, <1>2, <2>2, <2>3
  <1>5. QED
    BY <1>1, <1>2, <1>3, <1>4 DEF Reading

LEMMA InRangeInductive ==
  ASSUME Representable
  PROVE  /\ Init => InRange
         /\ ServoInv /\ InRange /\ [Next]_vars => InRange'
  <1>1. Init => InRange
    BY ServoAssumption DEF Init, InRange
  <1>2. ASSUME ServoInv, InRange, [Next]_vars PROVE InRange'
    <2>1. CASE UNCHANGED vars
      BY <1>2, <2>1 DEF vars, InRange
    <2>2. path \in Paths /\ path \in Nat /\ err \in Errors /\ err \in Int /\ IntMax * NS \in Nat
      BY <1>2, ServoAssumption, ArithAssumption DEF InRange
    <2>3. ASSUME NEW t \in Instants, handleSync(t), path' = path PROVE InRange'
      <3>1. /\ t \in Nat /\ t + path + err \in Nat
            /\ t + path <= IntMax * NS /\ t + path + err <= IntMax * NS
        BY <2>2, <2>3, ServoAssumption DEF Representable, handleSync
      <3>2. t <= IntMax * NS
        BY <2>2, <3>1
      <3>3. /\ Value(ts1') = t /\ ts1' \in Reading
            /\ Value(ts2') = t + path + err /\ ts2' \in Reading
        BY <2>3, <3>1, <3>2, ClockExact, ClockInRange DEF handleSync
      <3>4. QED
        BY <2>2, <2>3, <3>1, <3>2, <3>3 DEF InRange, handleSync
    <2>4. ASSUME NEW t \in Instants, DelayReq(t), path' = path PROVE InRange'
      <3>1. /\ Value(ts2) >= 0 /\ Value(ts2) \in Int /\ t + err >= Value(ts2)
        BY <1>2, <2>4, ValueIsInt DEF ServoInv, ServoTypeOK, Measured, DelayReq
      <3>2. t \in Nat /\ t + path <= IntMax * NS /\ t + path + err <= IntMax * NS
        BY <2>2, ServoAssumption DEF Representable
      <3>3. /\ t + err \in Nat /\ t + err <= IntMax * NS
            /\ t + path \in Nat /\ t + path <= IntMax * NS
        BY <2>2, <3>1, <3>2
      <3>4. ts3' \in Reading /\ ts4' \in Reading
        BY <2>4, <3>3, ClockInRange DEF DelayReq
      <3>5. QED
        BY <1>2, <2>4, <3>4 DEF InRange, DelayReq
    <2>5. ASSUME NEW t \in Instants, setTime(t), path' = path PROVE InRange'
      BY <1>2, <2>5 DEF InRange, setTime
    <2>6. ASSUME handleFollowUp, path' = path PROVE InRange'
      BY <1>2, <2>6 DEF InRange, handleFollowUp
    <2>7. ASSUME handleDelayResp, path' = path PROVE InRange'
      BY <1>2, <2>7 DEF InRange, handleDelayResp
    <2>8. ASSUME applyOffset, path' = path PROVE InRange'
      BY <1>2, <2>8 DEF InRange, applyOffset
    <2>9. QED
      BY <1>2, <2>1, <2>3, <2>4, <2>5, <2>6, <2>7, <2>8 DEF Next
  <1>3. QED
    BY <1>1, <1>2

(* The seconds of a normal pair are bounded by its value.                  *)
LEMMA SecondsBound ==
  ASSUME NEW ts \in timestamp, Normal(ts)
  PROVE  /\ ts.sec_l > 0 => ts.sec_l * NS <= Value(ts)
         /\ ts.sec_l < 0 => ts.sec_l * NS >= Value(ts)
         /\ ts.sec_l * NS \in Int
  BY ArithAssumption DEF timestamp, Normal, Value

(* Multiples of a second compare as their numbers do.                      *)
LEMMA Multiple ==
  ASSUME NEW a \in Int, NEW b \in Int, a * NS <= b * NS
  PROVE  a <= b
  <1>1. NS \in Nat \ {0}
    BY ArithAssumption
  <1>2. SUFFICES ASSUME a >= b + 1 PROVE FALSE
    OBVIOUS
  <1>3. a * NS >= (b + 1) * NS
    BY <1>1, <1>2
  <1>4. (b + 1) * NS = b * NS + NS /\ b * NS \in Int /\ a * NS \in Int
    BY <1>1
  <1>5. QED
    BY <1>1, <1>3, <1>4

(* The difference of two readings fits.                                    *)
LEMMA ReadingsFit ==
  ASSUME NEW x \in Reading, NEW y \in Reading
  PROVE  Fits(Diff(x, y))
  BY ArithAssumption DEF Reading, Fits, Diff

(* So does what is left of it when the delay is taken off.                 *)
LEMMA OffsetFits ==
  ASSUME NEW x \in Reading, NEW y \in Reading, NEW d \in timestamp, Normal(d),
         Value(d) \in Nat, Value(x) + Value(d) <= IntMax * NS, Value(y) <= IntMax * NS
  PROVE  Fits(Diff(normalizeTime(subTime(y, x)), d))
  <1> DEFINE e == normalizeTime(subTime(y, x))
  <1>1. /\ x \in timestamp /\ y \in timestamp
        /\ Value(x) \in Nat /\ Value(y) \in Nat /\ NS \in Nat \ {0} /\ IntMax \in Nat
        /\ IntMax * NS \in Nat /\ 2 * NS <= IntMax
    BY ArithAssumption DEF Reading, timestamp, Value
  <1>2. e \in timestamp /\ Normal(e) /\ Value(e) = Value(y) - Value(x)
    BY <1>1, SumExact, NormalizeExact
  <1> HIDE DEF e
  <1>3. /\ e.sec_l \in Int /\ e.nsec \in (1 - NS) .. (NS - 1)
        /\ d.sec_l \in Nat /\ d.nsec \in 0 .. NS - 1
    BY <1>2, NormalPair DEF timestamp, Normal
  <1>4. /\ e.sec_l * NS \in Int /\ d.sec_l * NS \in Int /\ d.sec_l * NS <= Value(d)
        /\ e.sec_l > 0 => e.sec_l * NS <= Value(e)
        /\ e.sec_l < 0 => e.sec_l * NS >= Value(e)
    BY <1>1, <1>2, <1>3, SecondsBound DEF Value
  <1>5. e.sec_l <= IntMax
    <2>1. CASE e.sec_l > 0
      <3>1. e.sec_l * NS <= IntMax * NS
        BY <1>1, <1>2, <1>4, <2>1
      <3>2. QED
        BY <1>1, <1>3, <3>1, Multiple
    <2>2. QED
      BY <1>1, <1>3, <2>1
  <1>6. d.sec_l - e.sec_l <= IntMax
    <2>1. (d.sec_l - e.sec_l) * NS = d.sec_l * NS - e.sec_l * NS
      BY <1>1, <1>3
    <2>2. CASE e.sec_l < 0
      <3>1. (d.sec_l - e.sec_l) * NS <= IntMax * NS
        BY <1>1, <1>2, <1>4, <2>1, <2>2
      <3>2. QED
        BY <1>1, <1>3, <3>1, Multiple
    <2>3. CASE e.sec_l >= 0
      <3>1. d.sec_l * NS <= IntMax * NS
        BY <1>1, <1>4
      <3>2. d.sec_l <= IntMax
        BY <1>1, <1>3, <3>1, Multiple
      <3>3. QED
        BY <1>1, <1>3, <2>3, <3>2
    <2>4. QED
      BY <1>3, <2>2, <2>3
  <1>7. Fits(Diff(e, d))
    BY <1>1, <1>3, <1>5, <1>6 DEF Fits, Diff
  <1>8. QED
    BY <1>7 DEF e

(* The two durations add up within 32 bits, and their sum can be halved.   *)
LEMMA HalvesFit ==
  ASSUME NEW x \in timestamp, NEW y \in timestamp, Normal(x), Normal(y), NEW p \in Nat,
         Value(x) + Value(y) = 2 * p, 2 * p + 2 * NS <= IntMax * NS
  PROVE  Fits(Sum(x, y)) /\ Carried(addTime(x, y)) \in (-IntMax - 1) .. IntMax
  <1>1. /\ x.sec_l \in Int /\ x.nsec \in (1 - NS) .. (NS - 1)
        /\ y.sec_l \in Int /\ y.nsec \in (1 - NS) .. (NS - 1)
        /\ NS \in Nat \ {0} /\ IntMax \in Nat /\ 2 * NS <= IntMax
    BY ArithAssumption DEF timestamp, Normal
  <1> DEFINE s == x.sec_l + y.sec_l
  <1>2. /\ s \in Int /\ IntMax * NS \in Int /\ s * NS \in Int
        /\ s * NS = 2 * p - x.nsec - y.nsec
    <2>1. s * NS = x.sec_l * NS + y.sec_l * NS
      BY <1>1
    <2>2. x.sec_l * NS \in Int /\ y.sec_l * NS \in Int
      BY <1>1
    <2>3. QED
      BY <1>1, <2>1, <2>2 DEF Value
  <1> HIDE DEF s
  <1>3. s <= IntMax
    <2>1. s * NS <= IntMax * NS
      BY <1>1, <1>2
    <2>2. QED
      BY <1>1, <1>2, <2>1, Multiple
  <1>4. -2 <= s
    <2>1. (-2) * NS = -(2 * NS) /\ (-2) * NS <= s * NS
      BY <1>1, <1>2
    <2>2. QED
      BY <1>2, <2>1, Multiple
  <1>5. Fits(Sum(x, y))
    BY <1>1, <1>2, <1>3, <1>4 DEF s, Fits, Sum
  <1> DEFINE d == addTime(x, y)
  <1>6. d \in timestamp /\ Normal(d)
    BY SumExact
  <1> HIDE DEF d
  <1>7. d.sec_l \in Int /\ d.nsec \in (1 - NS) .. (NS - 1)
    BY <1>6 DEF timestamp, Normal
  <1>8. Rem(d.sec_l, 2) \in {-1, 0, 1}
    <2>1. 2 \in Nat \ {0}
      OBVIOUS
    <2>2. Rem(d.sec_l, 2) \in (1 - 2) .. (2 - 1)
      BY <1>7, <2>1, Truncation
    <2>3. QED
      BY <2>2
  <1>9. Carried(d) \in (-IntMax - 1) .. IntMax
    <2>1. Rem(d.sec_l, 2) * NS \in {-NS, 0, NS}
      BY <1>1, <1>8
    <2>2. QED
      BY <1>1, <1>7, <2>1 DEF Carried
  <1>10. QED
    BY <1>5, <1>9 DEF d

(* What is taken off the clock leaves a time in range again.               *)
LEMMA SettingFits ==
  ASSUME NEW c \in timestamp, c.nsec \in 0 .. NS - 1, NEW o \in timestamp, Normal(o),
         Value(c) - Value(o) \in Nat, Value(c) - Value(o) <= IntMax * NS
  PROVE  Fits(Diff(c, o))
  <1>1. /\ c.sec_l \in Int /\ o.sec_l \in Int /\ o.nsec \in (1 - NS) .. (NS - 1)
        /\ NS \in Nat \ {0} /\ IntMax \in Nat /\ 2 * NS <= IntMax
    BY ArithAssumption DEF timestamp, Normal
  <1> DEFINE s == c.sec_l - o.sec_l
             n == c.nsec - o.nsec
  <1>2. s \in Int /\ n \in Int /\ n \in (-IntMax - 1) .. IntMax
        /\ -NS < n /\ n < 2 * NS
    BY <1>1
  <1>3. /\ s * NS \in Int /\ IntMax * NS \in Int
        /\ s * NS + n \in Nat /\ s * NS + n <= IntMax * NS
    <2>1. s * NS = c.sec_l * NS - o.sec_l * NS
      BY <1>1
    <2>2. c.sec_l * NS \in Int /\ o.sec_l * NS \in Int /\ IntMax * NS \in Int
      BY <1>1
    <2>3. s * NS + n = Value(c) - Value(o)
      BY <1>1, <2>1, <2>2 DEF Value
    <2>4. QED
      BY <1>1, <2>1, <2>2, <2>3
  <1> HIDE DEF s, n
  <1>4. s <= IntMax
    <2>1. SUFFICES ASSUME s >= IntMax + 1 PROVE FALSE
      BY <1>1, <1>2
    <2>2. (IntMax + 1) * NS <= s * NS /\ (IntMax + 1) * NS = IntMax * NS + NS
      BY <1>1, <1>2, <2>1
    <2>3. QED
      BY <1>1, <1>2, <1>3, <2>2
  <1>5. -1 <= s
    <2>1. SUFFICES ASSUME s <= -2 PROVE FALSE
      BY <1>2
    <2>2. s * NS <= (-2) * NS /\ (-2) * NS = -(2 * NS)
      BY <1>1, <1>2, <2>1
    <2>3. QED
      BY <1>1, <1>2, <1>3, <2>2
  <1>6. QED
    BY <1>1, <1>2, <1>4, <1>5 DEF s, n, Fits, Diff

(* No sum or difference leaves the 32 bits it is computed in, as long as   *)
(* the clocks are in range (arith.c, ptp_drv.c:117-132).                   *)
THEOREM StaysInRange == ASSUME Representable PROVE Spec => []NoOverflow
  <1>1. ServoInv /\ InRange => NoOverflow
    <2>1. SUFFICES ASSUME ServoInv, InRange PROVE NoOverflow
      OBVIOUS
    <2>2. path \in Paths /\ path \in Nat /\ delay \in timestamp /\ Normal(delay)
      BY <2>1 DEF ServoInv, ServoTypeOK, AllNormal, InRange
    <2>3. ASSUME stage = "synced"
          PROVE  /\ Fits(Diff(ts2, ts1))
                 /\ Fits(Diff(normalizeTime(subTime(ts2, ts1)), delay))
      <3>1. /\ ts1 \in Reading /\ ts2 \in Reading /\ Value(ts1) >= 0
            /\ Value(ts1) + path <= IntMax * NS /\ Value(ts2) <= IntMax * NS
            /\ Value(delay) \in {0, path}
        BY <2>1, <2>3 DEF InRange, ServoInv, Measured, Known
      <3>2. IntMax * NS \in Int /\ Value(ts1) \in Int
        BY <2>1, ArithAssumption, ValueIsInt DEF ServoInv, ServoTypeOK
      <3>3. Value(delay) \in Nat /\ Value(ts1) + Value(delay) <= IntMax * NS
        BY <2>2, <3>1, <3>2
      <3>4. QED
        BY <2>2, <3>1, <3>3, ReadingsFit, OffsetFits
    <2>4. ASSUME stage = "answered"
          PROVE  /\ Fits(Diff(ts2, ts1)) /\ Fits(Diff(ts4, ts3))
                 /\ Fits(Sum(subTime(ts2, ts1), subTime(ts4, ts3)))
                 /\ Carried(addTime(subTime(ts2, ts1), subTime(ts4, ts3)))
                       \in (-IntMax - 1) .. IntMax
      <3>1. /\ ts1 \in timestamp /\ ts2 \in timestamp /\ ts3 \in timestamp /\ ts4 \in timestamp
            /\ err \in Int /\ Value(ts2) - Value(ts1) = path + err
            /\ Value(ts4) - Value(ts3) = path - err
        BY <2>1, <2>4 DEF ServoInv, ServoTypeOK, Measured
      <3> DEFINE d2 == subTime(ts2, ts1)
                 d4 == subTime(ts4, ts3)
      <3>2. /\ d2 \in timestamp /\ Normal(d2) /\ Value(d2) = path + err
            /\ d4 \in timestamp /\ Normal(d4) /\ Value(d4) = path - err
        BY <3>1, SumExact
      <3> HIDE DEF d2, d4
      <3>3. Value(d2) + Value(d4) = 2 * path /\ 2 * path + 2 * NS <= IntMax * NS
        BY <2>2, <3>1, <3>2 DEF Representable
      <3>4. Fits(Sum(d2, d4)) /\ Carried(addTime(d2, d4)) \in (-IntMax - 1) .. IntMax
        BY <2>2, <3>2, <3>3, HalvesFit
      <3>5. Fits(Diff(ts2, ts1)) /\ Fits(Diff(ts4, ts3))
        BY <2>1, <2>4, ReadingsFit DEF InRange
      <3>6. QED
        BY <3>4, <3>5 DEF d2, d4
    <2>5. ASSUME stage = "adjust", NEW t \in Instants, SetAllowed(t)
          PROVE  Fits(Diff(Clock(t + err), offset))
      <3>1. /\ t \in Nat /\ err \in Int /\ offset \in timestamp /\ Normal(offset)
            /\ Value(ts3) >= 0 /\ Value(ts3) \in Int
            /\ Value(offset) \in {err, err + path}
        BY <2>1, <2>5, ServoAssumption, ValueIsInt
        DEF ServoInv, ServoTypeOK, Measured, AllNormal
      <3>2. t + err \in Nat /\ t + err - Value(offset) \in Nat
        BY <2>2, <2>5, <3>1 DEF SetAllowed
      <3>3. t + path <= IntMax * NS /\ IntMax * NS \in Int
        BY <2>2, ArithAssumption DEF Representable
      <3>4. t + err - Value(offset) <= IntMax * NS
        BY <2>2, <3>1, <3>3
      <3>5. PICK c : /\ c = Clock(t + err)
                     /\ c \in timestamp /\ Value(c) = t + err /\ c.nsec \in 0 .. NS - 1
        BY <3>2, ClockExact
      <3>6. Value(c) - Value(offset) \in Nat /\ Value(c) - Value(offset) <= IntMax * NS
        <4>1. (t + err) - Value(offset) \in Nat /\ (t + err) - Value(offset) <= IntMax * NS
          BY <2>2, <3>1, <3>2, <3>3, <3>4
        <4>2. QED
          BY <3>5, <4>1, Zenon
      <3>7. Fits(Diff(c, offset))
        BY <3>1, <3>5, <3>6, SettingFits
      <3>8. QED
        BY <3>5, <3>7
    <2>6. QED
      BY <2>3, <2>4, <2>5 DEF NoOverflow
  <1>2. QED
    BY <1>1, ServoInvariant, InitServo, InRangeInductive, PTL DEF Spec
=============================================================================
