------------------------------- MODULE RtcRegs -------------------------------
(***************************************************************************)
(* The real-time clock behind its registers (rtl/ptp/regs.v) as the        *)
(* firmware drives it (fw/ptp_drv.c).  CPU, registers and clock share one  *)
(* clock, gmii_tx_clk; one step is one edge of it.  On an edge the strobe  *)
(* bits of RTC_CTRL move one stage along their synchronisers, the clock    *)
(* takes the strobes the stages produce, and the CPU may complete one bus  *)
(* access, at least MinGap edges after the one before it: the firmware     *)
(* polls no ready bit and relies on the length of a bus access.            *)
(***************************************************************************)
EXTENDS Rtc, Sequences

CONSTANTS
  MinGap,   \* edges between two accesses: IDLE, strobe, acknowledge, WBEND
  MaxOps    \* bound: driver calls

ASSUME RegsAssumption == MinGap \in Nat \ {0} /\ MaxOps \in Nat

VARIABLES
  ctrl, s1, s2, s3,  \* RTC_CTRL (one strobe at a time) and its three stages
  regTime, regOffset, regPeriod,
  time_int,          \* time_reg_sec_int and time_reg_ns_int
  op, todo,          \* the driver call and the accesses it has left
  gap,               \* edges since the last access, up to MinGap
  arg,               \* the value the call writes
  localTime,         \* the global the reads go to
  ops,
  asked,             \* history: the time shown when RTC_GET_TIME was written
  strobes            \* history: edges with a strobe since the call began, up to 2

regVars == <<ctrl, s1, s2, s3, regTime, regOffset, regPeriod, time_int>>
cpuVars == <<op, todo, gap, arg, localTime, ops, asked>>
regsVars == <<rtcVars, regVars, cpuVars, strobes>>
-----------------------------------------------------------------------------
Shown == sec * Second + acc

(* Mutant: getLocalTime reads before it asks.                              *)
ProgramReadFirst ==
  [getLocalTime |-> <<"read_sec", "read_ns", "GET", "0">>,
   setLocalTime |-> <<"sec", "ns", "TIME", "GET", "0">>,
   applyOffset  |-> <<"offset", "OFFSET", "0">>,
   ptpInit      |-> <<"period", "0", "PERIOD", "0">>]

(* The bus accesses of the driver calls, in order.                         *)
Program ==
  [getLocalTime |-> <<"GET", "read_sec", "read_ns", "0">>,
   setLocalTime |-> <<"sec", "ns", "TIME", "GET", "0">>,
   applyOffset  |-> <<"offset", "OFFSET", "0">>,
   ptpInit      |-> <<"period", "0", "PERIOD", "0">>]

(* Mutant: the third stage is missing from the load strobe.                *)
StrobeLevel(v) == s2 = v

(* A strobe is the rise of the second stage over the third.                *)
Strobe(v) == s2 = v /\ s3 # v

(* offset_ld_s3 is assigned from itself: it stays at its power-up 0, and   *)
(* the offset strobe lasts as long as the bit is set.                      *)
Wires == [time   |-> IF Strobe("TIME") THEN regTime ELSE None,
          offset |-> IF s2 = "OFFSET" THEN regOffset ELSE 0,
          period |-> IF Strobe("PERIOD") THEN regPeriod ELSE -1]

Registers ==
  /\ s1' = ctrl /\ s2' = s1 /\ s3' = s2
  /\ time_int' = IF Strobe("GET") THEN [sec |-> sec, ns |-> acc] ELSE time_int

(* Access a of the program takes effect on this edge.                      *)
Perform(a) ==
  /\ ctrl'      = IF a \in {"0", "GET", "TIME", "OFFSET", "PERIOD"} THEN a ELSE ctrl
  /\ regTime'   = CASE a = "sec" -> [regTime EXCEPT !.sec = arg.sec]
                    [] a = "ns"  -> [regTime EXCEPT !.ns = arg.ns]
                    [] OTHER     -> regTime
  /\ regOffset' = IF a = "offset" THEN regOffset - arg.ns ELSE regOffset
  /\ regPeriod' = IF a = "period" THEN arg.ns ELSE regPeriod
  /\ localTime' = CASE a = "read_sec" -> [localTime EXCEPT !.sec = time_int.sec]
                    [] a = "read_ns"  -> [localTime EXCEPT !.ns = time_int.ns]
                    [] OTHER          -> localTime
  /\ asked'     = IF a = "GET" THEN Shown ELSE asked

(* One, two or more strobes.                                               *)
Count == strobes' = IF pins = Idle \/ strobes = 2 THEN strobes ELSE strobes + 1

Rest == /\ gap' = IF gap < MinGap THEN gap + 1 ELSE gap
        /\ UNCHANGED <<ctrl, regTime, regOffset, regPeriod, localTime, asked>>
        /\ Count

(* The CPU is busy elsewhere.                                              *)
NoAccess == Rest /\ UNCHANGED <<op, todo, arg, ops>>

Call(o, a) ==
  /\ op = "none" /\ ops < MaxOps /\ gap >= MinGap
  /\ op' = o /\ todo' = Program[o] /\ arg' = a /\ ops' = ops + 1
  /\ strobes' = 0
  /\ UNCHANGED <<gap, ctrl, regTime, regOffset, regPeriod, localTime, asked>>

getLocalTime == Call("getLocalTime", None)
setLocalTime == \E t \in Loads : Call("setLocalTime", t)
applyOffset  == \E n \in Offsets : Call("applyOffset", [sec |-> 0, ns |-> n])
ptpInit      == \E p \in Periods : Call("ptpInit", [sec |-> 0, ns |-> p])

Access ==
  /\ todo # << >> /\ gap >= MinGap
  /\ Perform(Head(todo))
  /\ todo' = Tail(todo)
  /\ op' = IF Len(todo) = 1 THEN "none" ELSE op
  /\ gap' = 1
  /\ Count
  /\ UNCHANGED <<arg, ops>>

RegsInit ==
  /\ RtcInit
  /\ ctrl = "0" /\ s1 = "0" /\ s2 = "0" /\ s3 = "0"
  /\ regTime = [sec |-> 0, ns |-> 0] /\ regOffset = 0 /\ regPeriod = 0
  /\ time_int = [sec |-> 0, ns |-> 0]
  /\ op = "none" /\ todo = << >> /\ gap = MinGap /\ arg = None
  /\ localTime = [sec |-> 0, ns |-> 0] /\ ops = 0
  /\ asked = 0 /\ strobes = 0

RegsNext ==
  /\ Edge /\ Registers
  /\ \/ NoAccess \/ Access
     \/ getLocalTime \/ setLocalTime \/ applyOffset \/ ptpInit
  /\ pins' = Wires'

RegsSpec == RegsInit /\ [][RegsNext]_regsVars
-----------------------------------------------------------------------------
(* getLocalTime returns one instant between its command and its return,    *)
(* though it polls no time_ok and reads the two halves one after the other *)
(* while the clock runs (ptp_drv.c:36-41, regs.v:365-392).                 *)
FreshTime ==
  op = "getLocalTime" /\ todo = <<"0">> =>
    localTime.sec * Second + localTime.ns \in asked .. Shown

(* Once the strobe of a call has run through the synchroniser, a time or a *)
(* period was loaded on exactly one edge, and it was the value the call    *)
(* wrote (ptp_drv.c:6-12,49-55, regs.v:333-347).                           *)
LoadedOnce ==
  /\ pins.time # None => pins.time = arg
  /\ op \in {"setLocalTime", "ptpInit"} /\ todo = <<"0">> /\ gap = MinGap => strobes = 1

(* An offset is added once for each time it is strobed                     *)
(* (sim/rtc_tb/rtc_tb.py:64).                                              *)
OffsetOnce == op \in {"applyOffset"} => strobes <= 1
=============================================================================
