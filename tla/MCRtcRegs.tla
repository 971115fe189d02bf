----------------------------- MODULE MCRtcRegs -----------------------------
(* The real-time clock, whose second has 10 units and whose period is not  *)
(* a whole number of them.  Either the registers drive its pins, with      *)
(* driver calls in every order and every delay between two accesses, or    *)
(* the pins bring every sequence of loads, offsets and periods; arg is     *)
(* then the value on the pins, and the registers stand still.              *)
EXTENDS RtcRegs

VARIABLE driven  \* whether the registers drive the pins

MCPeriods == {4, 5}
MCOffsets == {-3, 5}
MCLoads   == {[sec |-> 0, ns |-> 7], [sec |-> 1, ns |-> 9]}

vars == <<driven, regsVars>>

Init == RegsInit /\ driven \in BOOLEAN

Registered == driven /\ RegsNext

Free ==
  /\ ~driven /\ RtcNext /\ arg' = pins'.time
  /\ UNCHANGED <<regVars, op, todo, gap, localTime, ops, asked, strobes>>

Next == (Registered \/ Free) /\ UNCHANGED driven

Spec == Init /\ [][Next]_vars
=============================================================================
