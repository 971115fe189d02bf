----------------------------- MODULE TimeArith -----------------------------
(***************************************************************************)
(* The time arithmetic of the firmware (fw/arith.c): times and durations   *)
(* are a pair of signed 32-bit integers, seconds and nanoseconds, that may *)
(* both be negative.                                                       *)
(***************************************************************************)
EXTENDS Integers

CONSTANTS
  NS,      \* nanoseconds in a second (1000000000)
  IntMax   \* largest int32_t (2147483647, a little more than 2 * NS)

ASSUME ArithAssumption == NS \in Nat \ {0} /\ IntMax \in Nat /\ 2 * NS <= IntMax

timestamp == [sec_l : Int, nsec : Int]

(* The duration a pair stands for.                                         *)
Value(ts) == ts.sec_l * NS + ts.nsec

(* C division truncates towards zero; the remainder has the dividend's     *)
(* sign.                                                                   *)
Quot(a, b) == IF a >= 0 THEN a \div b ELSE -((-a) \div b)
Rem(a, b)  == a - b * Quot(a, b)

(* Mutant: only a negative pair of opposite signs is corrected.            *)
normalizeTimeOneSided(ts) ==
  LET s == ts.sec_l + Quot(ts.nsec, NS)
      n == Rem(ts.nsec, NS)
  IN  IF s < 0 /\ n > 0 THEN [sec_l |-> s + 1, nsec |-> n - NS]
                        ELSE [sec_l |-> s, nsec |-> n]

normalizeTime(ts) ==
  LET s == ts.sec_l + Quot(ts.nsec, NS)
      n == Rem(ts.nsec, NS)
  IN  IF s > 0 /\ n < 0 THEN [sec_l |-> s - 1, nsec |-> n + NS]
      ELSE IF s < 0 /\ n > 0 THEN [sec_l |-> s + 1, nsec |-> n - NS]
      ELSE [sec_l |-> s, nsec |-> n]

(* The sums the functions form before they normalise them.                 *)
Sum(x, y)  == [sec_l |-> x.sec_l + y.sec_l, nsec |-> x.nsec + y.nsec]
Diff(x, y) == [sec_l |-> x.sec_l - y.sec_l, nsec |-> x.nsec - y.nsec]

addTime(x, y) == normalizeTime(Sum(x, y))
subTime(x, y) == normalizeTime(Diff(x, y))

(* Mutant: the odd second is not carried into the nanoseconds.             *)
div2TimeNoCarry(r) ==
  normalizeTime([sec_l |-> Quot(r.sec_l, 2), nsec |-> Quot(r.nsec, 2)])

(* Mutant: every second, and not only an odd one, is carried.              *)
CarriedAll(r) == r.nsec + r.sec_l * NS

(* The odd second goes to the nanoseconds before both are halved.          *)
Carried(r)  == r.nsec + Rem(r.sec_l, 2) * NS
div2Time(r) == normalizeTime([sec_l |-> Quot(r.sec_l, 2), nsec |-> Quot(Carried(r), 2)])

(* Neither part may contradict the sign of the other.                      *)
Normal(ts) == /\ ts.nsec \in (1 - NS) .. (NS - 1)
              /\ ~(ts.sec_l > 0 /\ ts.nsec < 0) /\ ~(ts.sec_l < 0 /\ ts.nsec > 0)

Fits(ts) == {ts.sec_l, ts.nsec} \subseteq (-IntMax - 1) .. IntMax
=============================================================================
