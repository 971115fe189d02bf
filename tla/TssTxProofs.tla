---------------------------- MODULE TssTxProofs ----------------------------
(***************************************************************************)
(* A command typed on the console leaves whole and once, with its own      *)
(* parameters, for every length of the commands, every depth of the FIFOs  *)
(* and every sequence of calls.                                            *)
(***************************************************************************)
EXTENDS TssTx, SequenceTheorems, TLAPS

(* The serialiser is idle again before the next command can come: a START  *)
(* lasts at most as long as the typing and the writing of the next call.   *)
(* With 33 bytes eight clocks of typing are enough.                        *)
Unhurried == ComBytes <= Typing + 25
-----------------------------------------------------------------------------
(* The registers of a call in the order they are written, and how many     *)
(* accesses of the present call have begun.                                *)
Order     == <<"SLICE", "FRAME", "BATCH", "SEQ", "INTV", "LAST", "CTRL", "DELTA">>
Writes(d) == IF d = 0 THEN 7 ELSE 8
Started   == Writes(typed.delta) - Len(todo)

(* The command of the present call has not reached the serialiser, and the *)
(* commands typed that have.                                               *)
Coming  == typed.kind \in Kinds /\ (Started < 7 \/ (Started = 7 /\ busy > 0))
Pending == IF Coming THEN 1 ELSE 0
Shown   == Len(want) - Pending

(* The clock at which the serialiser can see the command of the call.      *)
AtSerializer == Started = 7 /\ busy = 1

(* Clocks until the next command is seen, at the least.                    *)
ToCome == IF Started < 7 THEN 5 * (6 - Started) + busy + 4
          ELSE IF Started = 7 /\ busy >= 2 THEN busy - 1
          ELSE Typing - since + 35

(* The command the registers hold when all of the call are written.        *)
Own == Command(typed.kind, [f \in Fields |-> calls], user_delta)

(* The accesses of a call come in their order, and the last ones take the  *)
(* first clocks of the pause before the next call.                         *)
CallInv ==
  /\ todo \in Seq(Fields \cup {"CTRL", "DELTA"})
  /\ \A i \in 1 .. Len(todo) : todo[i] = Order[Started + i]
  /\ Started >= 0 /\ busy \in 0 .. 4 /\ since \in 0 .. Typing /\ calls \in 0 .. MaxCalls
  /\ typed \in [kind : Kinds \cup {"none", "other"}, delta : 0 .. calls]
  /\ busy > 0 => Started >= 1 /\ access = Order[Started]
  /\ Started < 7 => since = 0
  /\ Started = 7 /\ busy > 0 => since <= 4 - busy

(* What is written of the call is in its register, and the command shows   *)
(* for one clock, after the third of the control register's access.        *)
RegInv ==
  /\ param \in [Fields -> 0 .. calls] /\ {user_delta, latest} \subseteq 0 .. calls
  /\ \A i \in 1 .. 6 : i < Started \/ (i = Started /\ busy <= 3) => param[Order[i]] = calls
  /\ typed.delta # 0 => latest = typed.delta
  /\ typed.delta = 0 \/ (Started = 8 /\ busy <= 3) => user_delta = latest
  /\ control = IF Started = 7 /\ busy \in {2, 3} THEN typed.kind ELSE "none"
  /\ command = IF AtSerializer THEN Own ELSE NoCommand
  /\ Coming => want # << >> /\ want[Len(want)] = Own

(* What holds of the serialiser and the FIFOs even when they are full.     *)
Commands == [kind : Kinds \cup {"none"}, param : [Fields -> 0 .. MaxCalls], delta : 0 .. MaxCalls]
Stages   == {"IDLE", "HEADER_CHECK", "START_OF_SEQ", "STOP_OF_SEQ", "LAST", "STOP"}
Sums     == {"IDLE", "SUM_HEADER_1", "SUM_HEADER_2", "SUM_HEADER_3", "SUM_PAYLOAD", "FINISH_SUM"}

Valid == IF tvalid THEN 1 ELSE 0

UnitInv ==
  /\ ser \in Stages /\ sum \in Sums /\ cnt \in 0 .. CntMod - 1
  /\ want \in Seq(Commands) /\ tmp \in Commands
  /\ seen \in [cmd : Commands, at : Nat, last : BOOLEAN]
  /\ fifo \in Seq(BOOLEAN) /\ Len(fifo) <= Depth /\ hdrs \in 0 .. HdrDepth
  /\ done \in Nat /\ done + Pending + Valid <= Len(want)

(* The phases of a command in the serialiser, as long as no FIFO was full, *)
(* each with the clocks it has left.                                       *)
Room(k) == k <= ToCome

Loaded == tmp.kind \in Kinds /\ Shown = done + 1 /\ tmp = want[done + 1]

Idle == /\ ser = "IDLE" /\ sum = "IDLE" /\ ~tvalid_int /\ cnt = 0 /\ seen.last
        /\ Shown = done

Announced ==
  /\ ser = "HEADER_CHECK" /\ cnt = 0 /\ seen.last /\ Loaded
  /\ \/ sum = "IDLE" /\ hdr_ready /\ ~tvalid_int /\ Room(ComBytes + 6)
     \/ sum = "SUM_HEADER_1" /\ Room(ComBytes + 5)
     \/ sum = "SUM_HEADER_2" /\ Room(ComBytes + 4)
     \/ sum = "SUM_HEADER_3" /\ Room(ComBytes + 3)
     \/ sum = "SUM_PAYLOAD"  /\ Room(ComBytes + 2)

Sending ==
  /\ sum = "SUM_PAYLOAD" /\ ~seen.last /\ cnt = seen.at + 1 /\ Loaded
  /\ \/ /\ ser = "START_OF_SEQ" /\ tmp.kind = "START"
        /\ cnt < ComBytes /\ Room(ComBytes + 2 - cnt)
     \/ /\ ser = "STOP_OF_SEQ" /\ tmp.kind \in {"STOP", "CONTINUE"}
        /\ cnt < TmBytes /\ Room(TmBytes + 2 - cnt)
     \/ ser = "LAST" /\ cnt = LastByte(tmp.kind) /\ Room(2)

Stopping == /\ ser = "STOP" /\ sum = "FINISH_SUM" /\ cnt = 0 /\ seen.last /\ Room(1)
            /\ Shown = done

FlowInv ==
  ~full => /\ Idle \/ Announced \/ Sending \/ Stopping
           /\ AtSerializer => ser = "IDLE"

TssInv == CallInv /\ RegInv /\ UnitInv /\ FlowInv
-----------------------------------------------------------------------------
(* The assumptions on the constants one by one, and the order of the       *)
(* accesses.                                                               *)
LEMMA Numbers ==
  /\ ComBytes \in Nat /\ TmBytes \in Nat /\ CntMod \in Nat /\ Depth \in Nat
  /\ HdrDepth \in Nat /\ Typing \in Nat /\ MaxCalls \in Nat
  /\ 1 < TmBytes /\ TmBytes < ComBytes /\ ComBytes < CntMod - 1
  /\ Depth > 0 /\ HdrDepth > 0 /\ Typing > 0 /\ MaxCalls > 0
BY TssAssumption

(* The eight registers, each at its own place of the order.                *)
LEMMA OrderIs ==
  /\ Order \in Seq(Fields \cup {"CTRL", "DELTA"}) /\ Len(Order) = 8
  /\ \A i \in 1 .. 8 : /\ Order[i] \in Fields <=> i <= 6
                       /\ Order[i] = "CTRL" <=> i = 7
                       /\ Order[i] = "DELTA" <=> i = 8
  /\ \A i, j \in 1 .. 8 : Order[i] = Order[j] => i = j
BY DEF Order, Fields

(* The registers sendCommand writes are the first seven or all eight.      *)
LEMMA ProgramIs ==
  ASSUME NEW d
  PROVE  /\ Program(d) \in Seq(Fields \cup {"CTRL", "DELTA"})
         /\ Len(Program(d)) = Writes(d)
         /\ \A i \in 1 .. Writes(d) : Program(d)[i] = Order[i]
<1> DEFINE T == Fields \cup {"CTRL", "DELTA"}
           a == <<"SLICE", "FRAME", "BATCH", "SEQ", "INTV", "LAST", "CTRL">>
           b == IF d # 0 THEN <<"DELTA">> ELSE << >>
<1>1. a \in Seq(T) /\ b \in Seq(T) /\ Len(a) = 7 /\ Len(b) = Writes(d) - 7
  <2>1. a \in Seq(T) /\ Len(a) = 7
    BY DEF Fields
  <2>2. << >> \in Seq(T) /\ Len(<< >>) = 0 /\ <<"DELTA">> \in Seq(T) /\ Len(<<"DELTA">>) = 1
    OBVIOUS
  <2>3. b = IF d = 0 THEN << >> ELSE <<"DELTA">>
    OBVIOUS
  <2> HIDE DEF a, b, T
  <2> QED  BY <2>1, <2>2, <2>3 DEF Writes
<1>2. \A i \in 1 .. 7 : a[i] = Order[i]
  BY DEF Order
<1>3. d # 0 => b[1] = Order[8]
  BY DEF Order
<1>4. Program(d) = a \o b
  BY DEF Program
<1> HIDE DEF T, a, b
<1>5. /\ a \o b \in Seq(T) /\ Len(a \o b) = Len(a) + Len(b)
      /\ \A i \in 1 .. Len(a) + Len(b) :
           (a \o b)[i] = IF i <= Len(a) THEN a[i] ELSE b[i - Len(a)]
  BY <1>1, ConcatProperties, Zenon
<1>6. ASSUME NEW i \in 1 .. Writes(d) PROVE (a \o b)[i] = Order[i]
  BY <1>1, <1>2, <1>3, <1>5 DEF Writes
<1> QED  BY <1>1, <1>4, <1>5, <1>6 DEF T, Writes
-----------------------------------------------------------------------------
(* The call and its accesses.                                              *)

(* The ranges of the numbers of a call, for the leaves that count.         *)
LEMMA CallNumbers ==
  ASSUME CallInv
  PROVE  /\ Writes(typed.delta) \in {7, 8} /\ Started \in 0 .. Writes(typed.delta)
         /\ Len(todo) \in Nat /\ Len(todo) = Writes(typed.delta) - Started
         /\ Started = Writes(typed.delta) <=> todo = << >>
         /\ busy \in 0 .. 4 /\ since \in 0 .. Typing /\ calls \in 0 .. MaxCalls
         /\ since \in Int /\ calls \in Int /\ busy \in Int
<1>1. Len(todo) \in Nat /\ (todo = << >> <=> Len(todo) = 0)
  BY EmptySeq DEF CallInv
<1>2. Writes(typed.delta) \in {7, 8}
  BY DEF Writes
<1> QED  BY <1>1, <1>2, Numbers DEF CallInv, Started

(* An edge begins a call, begins an access, or lets the clock run.         *)
NewCall == /\ Started = Writes(typed.delta) /\ busy = 0 /\ since = Typing
           /\ Started' = 0 /\ busy' = 0 /\ since' = 0 /\ calls' = calls + 1

NewAccess == /\ Started < Writes(typed.delta) /\ busy = 0
             /\ Started' = Started + 1 /\ busy' = 4 /\ access' = Order[Started']
             /\ UNCHANGED <<typed, since, calls, want, latest>>

Running == /\ busy > 0 \/ Started = Writes(typed.delta)
           /\ busy' = IF busy > 0 THEN busy - 1 ELSE 0
           /\ since' = IF since < Typing /\ Started = Writes(typed.delta)
                       THEN since + 1 ELSE since
           /\ Started' = Started /\ UNCHANGED <<todo, access, typed, calls, want, latest>>

(* Every step of the CPU is one of the three.                              *)
LEMMA CallSteps ==
  ASSUME CallInv, Cpu
  PROVE  \/ /\ NewCall
            /\ \E k \in Kinds \cup {"other"}, d \in {0, calls + 1} : sendCommand(k, d)
         \/ NewAccess /\ Access
         \/ Running
<1>1. ASSUME NEW k \in Kinds \cup {"other"}, NEW d \in {0, calls + 1}, sendCommand(k, d)
      PROVE  NewCall
  <2>1. Started' = Writes(d) - Len(Program(d))
    BY <1>1, Zenon DEF sendCommand, Started
  <2>2. Started' = 0
    BY <2>1, ProgramIs DEF Writes
  <2> QED  BY <1>1, <2>2, CallNumbers, Zenon DEF sendCommand, NewCall
<1>2. ASSUME Access
      PROVE  NewAccess
  <2>1. todo \in Seq(Fields \cup {"CTRL", "DELTA"}) /\ todo # << >>
    BY <1>2 DEF CallInv, Access
  <2>2. Len(Tail(todo)) = Len(todo) - 1 /\ Head(todo) = todo[1] /\ Len(todo) >= 1
    BY <2>1, EmptySeq
  <2>3. Head(todo) = Order[Started + 1]
    BY <2>2, CallNumbers DEF CallInv
  <2>4. Started' = Started + 1
    BY <1>2, <2>2, CallNumbers DEF Access, Started
  <2>5. /\ access' = Head(todo) /\ busy = 0 /\ busy' = 4
        /\ UNCHANGED <<typed, since, calls, want, latest>>
    BY <1>2 DEF Access
  <2> QED  BY <2>1, <2>3, <2>4, <2>5, CallNumbers DEF NewAccess
<1>3. ASSUME Wait
      PROVE  Running
  <2>1. Started' = Started
    BY <1>3 DEF Wait, Started
  <2> QED  BY <1>3, <2>1, CallNumbers DEF Wait, Running
<1> QED  BY <1>1, <1>2, <1>3, Zenon DEF Cpu

(* The accesses keep their order.                                          *)
LEMMA CallInvKept ==
  ASSUME CallInv, Cpu
  PROVE  CallInv'
<1>1. ASSUME NewCall, NEW k \in Kinds \cup {"other"}, NEW d \in {0, calls + 1},
             sendCommand(k, d)
      PROVE  CallInv'
  <2>1. /\ todo' \in Seq(Fields \cup {"CTRL", "DELTA"})
        /\ \A i \in 1 .. Len(todo') : todo'[i] = Order[i]
    BY <1>1, ProgramIs DEF sendCommand
  <2>2. /\ typed' \in [kind : Kinds \cup {"none", "other"}, delta : 0 .. calls']
        /\ calls' \in 0 .. MaxCalls
    BY <1>1, CallNumbers, Numbers DEF sendCommand
  <2>3. \A i \in 1 .. Len(todo') : todo'[i] = Order[Started' + i]
    BY <1>1, <2>1 DEF NewCall
  <2> QED  BY <1>1, <2>1, <2>2, <2>3, Numbers DEF CallInv, NewCall
<1>2. ASSUME NewAccess, Access
      PROVE  CallInv'
  <2>1. todo \in Seq(Fields \cup {"CTRL", "DELTA"}) /\ todo # << >>
    BY <1>2 DEF CallInv, Access
  <2>2. /\ todo' \in Seq(Fields \cup {"CTRL", "DELTA"}) /\ Len(todo') = Len(todo) - 1
        /\ \A i \in 1 .. Len(todo') : todo'[i] = todo[i + 1]
        /\ Len(todo) \in Nat /\ Len(todo') \in Nat
    BY <1>2, <2>1 DEF Access
  <2>3. \A i \in 1 .. Len(todo') : todo'[i] = Order[Started' + i]
    <3>1. ASSUME NEW i \in 1 .. Len(todo')
          PROVE  todo'[i] = Order[Started' + i]
      <4>1. i + 1 \in 1 .. Len(todo) /\ Started + (i + 1) = Started' + i
        BY <1>2, <2>2, CallNumbers DEF NewAccess
      <4> QED  BY <2>2, <4>1 DEF CallInv
    <3> QED  BY <3>1
  <2> QED  BY <1>2, <2>2, <2>3, CallNumbers DEF CallInv, NewAccess
<1>3. ASSUME Running
      PROVE  CallInv'
  <2>1. busy' \in 0 .. 4 /\ since' \in 0 .. Typing
    BY <1>3, CallNumbers, Numbers DEF Running
  <2>2. busy' > 0 => busy > 0
    BY <1>3, CallNumbers DEF Running
  <2>3. Started < 7 => since' = since
    BY <1>3, CallNumbers DEF Running
  <2>4. Started = 7 /\ busy' > 0 => since' <= 4 - busy'
    <3>1. since' <= since + 1
      BY <1>3, CallNumbers, Numbers DEF Running
    <3> QED  BY <1>3, <2>1, <2>2, <3>1, CallNumbers, Numbers DEF CallInv, Running
  <2> QED  BY <1>3, <2>1, <2>2, <2>3, <2>4 DEF CallInv, Running
<1> QED  BY <1>1, <1>2, <1>3, CallSteps
-----------------------------------------------------------------------------
(* The registers.                                                          *)

(* No command is a command of kind none.                                   *)
LEMMA NoCommandIs ==
  NoCommand \in Commands /\ NoCommand.kind = "none" /\ Steady \in [Fields -> 0 .. MaxCalls]
<1>1. Steady \in [Fields -> 0 .. MaxCalls] /\ 0 \in 0 .. MaxCalls
  BY Numbers DEF Steady
<1> HIDE DEF Steady
<1> QED  BY <1>1 DEF NoCommand, Commands

(* What command_o shows for each value of the control register.            *)
LEMMA CommandIs ==
  ASSUME NEW p \in [Fields -> 0 .. MaxCalls], NEW d \in 0 .. MaxCalls
  PROVE  /\ Command("none", p, d) = NoCommand /\ Command("other", p, d) = NoCommand
         /\ \A k \in Kinds : Command(k, p, d).kind = k
         /\ \A k \in Kinds \cup {"none", "other"} : Command(k, p, d) \in Commands
<1>1. Steady \in [Fields -> 0 .. MaxCalls] /\ 0 \in 0 .. MaxCalls
  BY NoCommandIs, Numbers
<1>2. /\ Command("none", p, d) = NoCommand /\ Command("other", p, d) = NoCommand
      /\ Command("START", p, d) = [kind |-> "START", param |-> p, delta |-> d]
      /\ Command("STOP", p, d) = [kind |-> "STOP", param |-> Steady, delta |-> d]
      /\ Command("CONTINUE", p, d) = [kind |-> "CONTINUE", param |-> Steady, delta |-> d]
      /\ Command("ABORT", p, d) = [kind |-> "ABORT", param |-> Steady, delta |-> 0]
  BY Zenon DEF Command
<1> HIDE DEF Steady
<1>3. \A k \in Kinds : Command(k, p, d).kind = k /\ Command(k, p, d) \in Commands
  BY <1>1, <1>2 DEF Commands, Kinds
<1> QED  BY <1>2, <1>3, NoCommandIs

(* Which register an access writes.                                        *)
LEMMA AccessIs ==
  ASSUME CallInv, busy > 0
  PROVE  /\ Started \in 1 .. 8
         /\ access \in Fields <=> Started <= 6
         /\ access = "CTRL" <=> Started = 7
         /\ access = "DELTA" <=> Started = 8
         /\ access = Order[Started]
<1>1. Started \in 1 .. 8 /\ access = Order[Started]
  BY CallNumbers DEF CallInv
<1> QED  BY <1>1, OrderIs

(* At the end of the six accesses every parameter is that of the call.     *)
LEMMA OwnParameters ==
  ASSUME CallInv, RegInv, Started = 7
  PROVE  param = [f \in Fields |-> calls]
<1>1. param[Order[1]] = calls /\ param[Order[2]] = calls /\ param[Order[3]] = calls
      /\ param[Order[4]] = calls /\ param[Order[5]] = calls /\ param[Order[6]] = calls
  BY DEF RegInv
<1>2. \A f \in Fields : param[f] = calls
  BY <1>1 DEF Fields, Order
<1> QED  BY <1>2 DEF RegInv

(* The registers keep what is written of the call.                         *)
LEMMA RegInvKept ==
  ASSUME CallInv, RegInv, want \in Seq(Commands), Cpu, Slave
  PROVE  RegInv'
<1> USE CallNumbers, Numbers
<1>0. /\ param \in [Fields -> 0 .. calls] /\ user_delta \in 0 .. calls /\ latest \in 0 .. calls
      /\ typed.kind \in Kinds \cup {"none", "other"} /\ typed.delta \in 0 .. calls
  BY DEF CallInv, RegInv
<1>00. \A i \in 1 .. 6 : i < Started \/ (i = Started /\ busy <= 3) => param[Order[i]] = calls
  BY DEF RegInv
<1>1. /\ param' = IF busy > 2 /\ access \in Fields
                  THEN [param EXCEPT ![access] = calls] ELSE param
      /\ user_delta' = IF busy > 2 /\ access = "DELTA" THEN typed.delta ELSE user_delta
      /\ command' = IF busy > 2 THEN command ELSE Command(control, param, user_delta)
      /\ control' = IF ~(busy > 2) THEN "none"
                    ELSE IF access = "CTRL" THEN typed.kind ELSE control
  BY Zenon DEF Slave, Control, wbs_stb
<1>2. calls' >= calls /\ calls' \in Int
  BY CallSteps DEF NewCall, NewAccess, Running
<1>3. param' \in [Fields -> 0 .. calls']
  BY <1>0, <1>1, <1>2
<1>4. user_delta' \in 0 .. calls' /\ latest' \in 0 .. calls'
  <2>1. latest' \in 0 .. calls'
    <3>1. ASSUME NEW k \in Kinds \cup {"other"}, NEW d \in {0, calls + 1},
                 sendCommand(k, d), NewCall
          PROVE  latest' \in 0 .. calls'
      BY <3>1, <1>0 DEF sendCommand, NewCall
    <3> QED  BY <1>0, <1>2, <3>1, CallSteps DEF NewAccess, Running
  <2> QED  BY <1>0, <1>1, <1>2, <2>1
<1>5. ASSUME NEW i \in 1 .. 6, i < Started' \/ (i = Started' /\ busy' <= 3)
      PROVE  param'[Order[i]] = calls'
  <2>1. ~NewCall
    BY <1>5 DEF NewCall
  <2>2. CASE NewAccess
    <3>1. (i < Started \/ i = Started) /\ busy = 0
      BY <1>5, <2>2 DEF NewAccess
    <3> QED  BY <1>00, <1>1, <2>2, <3>1 DEF NewAccess
  <2>3. CASE Running
    <3>1. calls' = calls /\ Started' = Started
      BY <2>3 DEF Running
    <3>2. CASE i = Started /\ busy > 2
      <4>1. access = Order[i] /\ access \in Fields
        BY <3>2, AccessIs
      <4> QED  BY <1>0, <1>1, <3>1, <3>2, <4>1
    <3>3. CASE ~(i = Started /\ busy > 2)
      <4>1. i < Started \/ (i = Started /\ busy <= 3)
        BY <1>5, <2>3, <3>1, <3>3 DEF Running
      <4>2. param[Order[i]] = calls
        BY <4>1, <1>00
      <4>3. Order[i] \in Fields /\ (busy > 2 => access = Order[Started])
        BY OrderIs, AccessIs
      <4>4. i # Started => Order[i] # Order[Started] \/ busy <= 2
        BY AccessIs, OrderIs
      <4> QED  BY <1>0, <1>1, <3>1, <3>3, <4>2, <4>3, <4>4
    <3> QED  BY <3>2, <3>3
  <2> QED  BY <2>1, <2>2, <2>3, CallSteps
<1>6. /\ typed'.delta # 0 => latest' = typed'.delta
      /\ typed'.delta = 0 \/ (Started' = 8 /\ busy' <= 3) => user_delta' = latest'
  <2>1. /\ typed.delta # 0 => latest = typed.delta
        /\ typed.delta = 0 \/ (Started = 8 /\ busy <= 3) => user_delta = latest
    BY DEF RegInv
  <2>2. ASSUME NEW k \in Kinds \cup {"other"}, NEW d \in {0, calls + 1},
               sendCommand(k, d), NewCall
        PROVE  /\ d # 0 => latest' = d
               /\ d = 0 => user_delta' = latest'
               /\ typed'.delta = d
    <3>1. user_delta = latest
      BY <2>1, <2>2 DEF NewCall, Writes
    <3> QED  BY <1>0, <1>1, <2>2, <3>1 DEF sendCommand, NewCall
  <2>3. CASE NewAccess
    <3>1. /\ typed' = typed /\ latest' = latest /\ user_delta' = user_delta /\ busy' = 4
      BY <1>1, <2>3 DEF NewAccess
    <3> QED  BY <2>1, <3>1
  <2>4. CASE Running
    <3>1. typed' = typed /\ latest' = latest /\ Started' = Started
      BY <2>4 DEF Running
    <3>2. busy > 0 => (access = "DELTA" <=> Started = 8)
      BY AccessIs
    <3>3. Started = 8 => typed.delta # 0
      BY DEF Writes
    <3>4. Started' = 8 /\ busy' <= 3 => (Started = 8 /\ (busy <= 3 \/ busy = 4))
      BY <2>4, <3>1 DEF Running
    <3> QED  BY <1>0, <1>1, <2>1, <3>1, <3>2, <3>3, <3>4
  <2>5. CASE NewCall /\ \E k \in Kinds \cup {"other"}, d \in {0, calls + 1} : sendCommand(k, d)
    <3>1. Started' = 0
      BY <2>5 DEF NewCall
    <3> QED  BY <2>2, <2>5, <3>1
  <2> QED  BY <2>3, <2>4, <2>5, CallSteps
<1>7. control' = IF Started' = 7 /\ busy' \in {2, 3} THEN typed.kind' ELSE "none"
  <2>1. control = IF Started = 7 /\ busy \in {2, 3} THEN typed.kind ELSE "none"
    BY DEF RegInv
  <2>2. CASE NewCall \/ NewAccess
    BY <1>1, <2>2 DEF NewCall, NewAccess
  <2>3. CASE Running
    <3>1. typed' = typed /\ Started' = Started
      BY <2>3 DEF Running
    <3>2. busy > 0 => (access = "CTRL" <=> Started = 7)
      BY AccessIs
    <3> QED  BY <1>1, <2>1, <2>3, <3>1, <3>2 DEF Running
  <2> QED  BY <2>2, <2>3, CallSteps
<1>8. command' = IF Started' = 7 /\ busy' = 1 THEN Own' ELSE NoCommand
  <2>1. /\ command = IF Started = 7 /\ busy = 1 THEN Own ELSE NoCommand
        /\ control = IF Started = 7 /\ busy \in {2, 3} THEN typed.kind ELSE "none"
    BY DEF RegInv, AtSerializer
  <2>2. param \in [Fields -> 0 .. MaxCalls] /\ user_delta \in 0 .. MaxCalls
    BY <1>0
  <2>3. Command("none", param, user_delta) = NoCommand
    BY <2>2, CommandIs
  <2>4. CASE Started' = 7 /\ busy' = 1
    <3>1. Running /\ Started = 7 /\ busy = 2
      BY <2>4, CallSteps DEF NewCall, NewAccess, Running
    <3>2. control = typed.kind /\ command' = Command(control, param, user_delta)
      BY <1>1, <2>1, <3>1
    <3>3. param = [f \in Fields |-> calls]
      BY <3>1, OwnParameters
    <3>4. typed' = typed /\ calls' = calls /\ user_delta' = user_delta
      BY <1>1, <3>1 DEF Running
    <3>5. Own' = Command(typed.kind, [f \in Fields |-> calls], user_delta)
      BY <3>4, Zenon DEF Own
    <3> QED  BY <2>4, <3>2, <3>3, <3>5
  <2>5. CASE ~(Started' = 7 /\ busy' = 1)
    <3>1. ~(Started = 7 /\ busy = 2)
      BY <2>5, CallSteps DEF NewCall, NewAccess, Running
    <3> QED  BY <1>1, <2>1, <2>3, <2>5, <3>1
  <2> QED  BY <2>4, <2>5
<1>9. ASSUME Coming'
      PROVE  want' # << >> /\ want'[Len(want')] = Own'
  <2>1. ASSUME NEW k \in Kinds \cup {"other"}, NEW d \in {0, calls + 1},
               sendCommand(k, d), NewCall
        PROVE  want' # << >> /\ want'[Len(want')] = Own'
    <3>1. k \in Kinds
      BY <1>9, <2>1 DEF sendCommand, Coming, Kinds
    <3>2. user_delta' = latest /\ calls' = calls + 1 /\ typed'.kind = k
      BY <1>0, <1>1, <2>1 DEF RegInv, NewCall, sendCommand, Writes
    <3> DEFINE new == Command(k, [f \in Fields |-> calls + 1], latest)
    <3>3. Own' = new
      BY <3>2, Zenon DEF Own
    <3>4. want' = Append(want, new)
      BY <2>1, <3>1, Zenon DEF sendCommand
    <3> HIDE DEF new
    <3> QED  BY <3>3, <3>4
  <2>2. CASE NewAccess \/ Running
    <3>1. typed' = typed /\ calls' = calls /\ want' = want /\ Coming
      BY <1>9, <2>2 DEF NewAccess, Running, Coming
    <3>2. user_delta' = user_delta
      <4>1. busy > 2 => Started # 8
        BY <1>9, <2>2 DEF NewAccess, Running, Coming
      <4> QED  BY <1>1, <4>1, AccessIs
    <3>3. Own' = Own
      BY <3>1, <3>2, Zenon DEF Own
    <3> QED  BY <3>1, <3>3 DEF RegInv
  <2> QED  BY <2>1, <2>2, CallSteps
<1> QED  BY <1>3, <1>4, <1>5, <1>6, <1>7, <1>8, <1>9, Zenon DEF RegInv, AtSerializer
-----------------------------------------------------------------------------
(* What the arms of the case distinctions say, one at a time.              *)
LEMMA StateArms ==
  ASSUME State
  PROVE  /\ ser = "IDLE" /\ command.kind # "none" => ser' = "HEADER_CHECK" /\ tmp' = command
         /\ ser = "IDLE" /\ command.kind = "none" => ser' = "IDLE" /\ tmp' = tmp
         /\ ser = "HEADER_CHECK" /\ tready =>
              /\ tmp' = tmp
              /\ tmp.kind = "START" => ser' = "START_OF_SEQ"
              /\ tmp.kind = "ABORT" => ser' = "LAST"
              /\ tmp.kind \notin {"START", "ABORT"} => ser' = "STOP_OF_SEQ"
         /\ ser \in {"START_OF_SEQ", "STOP_OF_SEQ"} /\ tready =>
              /\ tmp' = tmp
              /\ LastNext => ser' = "LAST"
              /\ ~LastNext => ser' = ser
         /\ ser = "LAST" /\ tready => ser' = "STOP" /\ tmp' = tmp
         /\ ser = "STOP" => ser' = "IDLE" /\ tmp' = NoCommand
         /\ tvalid /\ ~tready => ser' = ser /\ tmp' = tmp
<1>1. CASE ser = "IDLE"
  BY <1>1, Zenon DEF State, tvalid
<1>2. CASE ser = "HEADER_CHECK" /\ tready
  <2>1. tmp' = tmp
    BY <1>2, Zenon DEF State
  <2>2. tmp.kind = "START" => ser' = "START_OF_SEQ"
    BY <1>2, Zenon DEF State
  <2>3. tmp.kind = "ABORT" => ser' = "LAST"
    BY <1>2, Zenon DEF State
  <2>4. tmp.kind \notin {"START", "ABORT"} => ser' = "STOP_OF_SEQ"
    BY <1>2, Zenon DEF State
  <2> QED  BY <1>2, <2>1, <2>2, <2>3, <2>4
<1>3. CASE ser \in {"START_OF_SEQ", "STOP_OF_SEQ"} /\ tready
  <2>1. CASE ser = "START_OF_SEQ"
    BY <1>3, <2>1, Zenon DEF State
  <2>2. CASE ser = "STOP_OF_SEQ"
    BY <1>3, <2>2, Zenon DEF State
  <2> QED  BY <1>3, <2>1, <2>2
<1>4. CASE ser = "LAST" /\ tready
  BY <1>4, Zenon DEF State
<1>5. CASE ser = "STOP"
  BY <1>5, Zenon DEF State, tvalid
<1>6. CASE tvalid /\ ~tready
  BY <1>6, Zenon DEF State, tvalid
<1>7. CASE ~tvalid /\ ser # "IDLE" /\ ser # "STOP"
  BY <1>7, Zenon DEF tvalid
<1> QED  BY <1>1, <1>2, <1>3, <1>4, <1>5, <1>6, <1>7 DEF tvalid

(* The states of the checksum generator, one at a time.                    *)
LEMMA SumArms ==
  ASSUME Checksum
  PROVE  /\ sum = "IDLE" => sum' = IF hdr_ready /\ hdr_pulse THEN "SUM_HEADER_1" ELSE "IDLE"
         /\ sum = "SUM_HEADER_1" => sum' = "SUM_HEADER_2"
         /\ sum = "SUM_HEADER_2" => sum' = "SUM_HEADER_3"
         /\ sum = "SUM_HEADER_3" => sum' = "SUM_PAYLOAD"
         /\ sum = "SUM_PAYLOAD" => sum' = IF Taken /\ ser = "LAST" THEN "FINISH_SUM" ELSE sum
         /\ sum = "FINISH_SUM" => sum' = "IDLE"
<1>1. CASE sum = "IDLE"
  BY <1>1, Zenon DEF Checksum
<1>2. CASE sum = "SUM_HEADER_1"
  BY <1>2, Zenon DEF Checksum
<1>3. CASE sum = "SUM_HEADER_2"
  BY <1>3, Zenon DEF Checksum
<1>4. CASE sum = "SUM_HEADER_3"
  BY <1>4, Zenon DEF Checksum
<1>5. CASE sum = "SUM_PAYLOAD"
  BY <1>5, Zenon DEF Checksum
<1>6. CASE sum = "FINISH_SUM"
  BY <1>6, Zenon DEF Checksum
<1>7. CASE sum \notin Sums
  BY <1>7 DEF Sums
<1> QED  BY <1>1, <1>2, <1>3, <1>4, <1>5, <1>6, <1>7 DEF Sums

(* Where each kind of command ends.                                        *)
LEMMA LastByteIs ==
  /\ LastByte("START") = ComBytes /\ LastByte("ABORT") = 1
  /\ LastByte("STOP") = TmBytes /\ LastByte("CONTINUE") = TmBytes
BY Zenon DEF LastByte
-----------------------------------------------------------------------------
(* The command of a call is in want from the call on, and is no longer to  *)
(* come from the clock on at which the serialiser can see it.              *)
LEMMA WantKept ==
  ASSUME CallInv, RegInv, want \in Seq(Commands), Cpu
  PROVE  /\ want' \in Seq(Commands) /\ Len(want) \in Nat /\ Len(want') \in Nat
         /\ \A i \in 1 .. Len(want) : want'[i] = want[i]
         /\ Pending \in {0, 1} /\ Pending' \in {0, 1}
         /\ AtSerializer => Len(want') = Len(want) /\ Pending' = 0
         /\ ~AtSerializer => Len(want') - Pending' = Len(want) - Pending
<1> USE CallNumbers, Numbers
<1>1. Pending \in {0, 1} /\ Pending' \in {0, 1}
  BY DEF Pending
<1>2. ASSUME NewCall, NEW k \in Kinds \cup {"other"}, NEW d \in {0, calls + 1},
             sendCommand(k, d)
      PROVE  /\ want' \in Seq(Commands)
             /\ \A i \in 1 .. Len(want) : want'[i] = want[i]
             /\ ~AtSerializer /\ Len(want') - Pending' = Len(want) - Pending
  <2>1. ~AtSerializer /\ Pending = 0 /\ Pending' = IF k \in Kinds THEN 1 ELSE 0
    <3>1. ~Coming /\ ~AtSerializer
      BY <1>2 DEF NewCall, Writes, Coming, AtSerializer
    <3>2. Coming' <=> k \in Kinds
      BY <1>2 DEF NewCall, sendCommand, Coming
    <3> QED  BY <3>1, <3>2 DEF Pending
  <2> DEFINE new == Command(k, [f \in Fields |-> calls + 1], latest)
  <2>2. new \in Commands
    <3>1. calls + 1 \in 0 .. MaxCalls /\ latest \in 0 .. MaxCalls
      BY <1>2 DEF sendCommand, RegInv
    <3>2. [f \in Fields |-> calls + 1] \in [Fields -> 0 .. MaxCalls]
      BY <3>1
    <3> QED  BY <3>1, <3>2, CommandIs
  <2>3. want' = IF k \in Kinds THEN Append(want, new) ELSE want
    BY <1>2, Zenon DEF sendCommand
  <2> HIDE DEF new
  <2>4. want' \in Seq(Commands) /\ \A i \in 1 .. Len(want) : want'[i] = want[i]
    BY <2>2, <2>3
  <2>5. Len(want') = IF k \in Kinds THEN Len(want) + 1 ELSE Len(want)
    BY <2>2, <2>3
  <2> QED  BY <2>1, <2>4, <2>5
<1>3. CASE NewAccess \/ Running
  <2>1. want' = want /\ typed' = typed
    BY <1>3 DEF NewAccess, Running
  <2>2. AtSerializer => ~Coming'
    BY <1>3 DEF NewAccess, Running, Coming, AtSerializer
  <2>3. ~AtSerializer => (Coming' <=> Coming)
    BY <1>3 DEF NewAccess, Running, Coming, AtSerializer
  <2> QED  BY <1>1, <2>1, <2>2, <2>3 DEF Pending
<1> QED  BY <1>1, <1>2, <1>3, CallSteps

(* The arithmetic of the clocks to come.                                   *)
LEMMA ClocksLeft ==
  ASSUME NEW t \in Int, NEW a \in Int, NEW b \in Int, NEW s \in Int
  PROVE  /\ b <= a + 1 => t - b + 35 >= (t - a + 35) - 1
         /\ b <= 4 => t - b + 35 >= t + 31
         /\ b <= t => t - b + 35 >= 0
         /\ 5 * (6 - s) + (a - 1) + 4 >= (5 * (6 - s) + a + 4) - 1
OBVIOUS

(* A clock brings the next command no more than a clock nearer.            *)
LEMMA Nearer ==
  ASSUME CallInv, Cpu
  PROVE  /\ ToCome \in Int /\ ToCome' \in Int /\ ToCome' >= ToCome - 1
         /\ AtSerializer' => Started = 7 /\ busy = 2 /\ ToCome = 1
         /\ AtSerializer => ToCome' >= Typing + 31
<1>0. /\ Started \in Int /\ busy \in 0 .. 4 /\ since \in 0 .. Typing /\ Typing \in Nat
      /\ Writes(typed.delta) \in {7, 8} /\ Started <= Writes(typed.delta) /\ Started >= 0
  BY CallNumbers, Numbers
<1>1. CallInv'
  BY CallInvKept
<1>2. since' \in 0 .. Typing /\ busy' \in 0 .. 4 /\ Started' \in Int
  BY <1>0, <1>1, CallSteps DEF CallInv, NewCall, NewAccess, Running
<1>3. ToCome \in Int /\ ToCome' \in Int
  <2>1. /\ 5 * (6 - Started) + busy + 4 \in Int /\ busy - 1 \in Int
        /\ Typing - since + 35 \in Int
    BY <1>0
  <2>2. /\ 5 * (6 - Started') + busy' + 4 \in Int /\ busy' - 1 \in Int
        /\ Typing - since' + 35 \in Int
    BY <1>0, <1>2
  <2> QED  BY <2>1, <2>2, Zenon DEF ToCome
<1>4. CASE NewCall
  BY <1>0, <1>3, <1>4 DEF NewCall, ToCome, AtSerializer, Writes
<1>5. CASE NewAccess
  BY <1>0, <1>2, <1>3, <1>5 DEF NewAccess, ToCome, AtSerializer
<1>6. CASE Running
  <2>1. Started' = Started /\ since' <= since + 1 /\ (Started < 7 => since' = since)
    BY <1>0, <1>6 DEF Running
  <2>2. busy' = IF busy > 0 THEN busy - 1 ELSE 0
    BY <1>0, <1>6 DEF Running
  <2>3. Started < 7 => busy > 0
    BY <1>0, <1>6 DEF Running
  <2>4. Started = 7 /\ busy > 0 => since <= 4 - busy
    BY DEF CallInv
  <2>5. ToCome' >= ToCome - 1
    <3>1. CASE Started < 7
      <4>1. /\ ToCome = 5 * (6 - Started) + busy + 4
            /\ ToCome' = 5 * (6 - Started) + busy' + 4
        BY <3>1, <2>1 DEF ToCome
      <4>2. busy' = busy - 1
        BY <2>2, <2>3, <3>1
      <4>3. busy \in Int /\ Started \in Int
        BY <1>0
      <4>4. ToCome' = 5 * (6 - Started) + (busy - 1) + 4
        BY <4>1, <4>2, Zenon
      <4>5. 5 * (6 - Started) + (busy - 1) + 4 >= (5 * (6 - Started) + busy + 4) - 1
        BY <4>3, ClocksLeft, Numbers
      <4> QED  BY <4>1, <4>4, <4>5, Zenon
    <3>2. CASE Started = 7 /\ busy >= 2
      <4>1. ToCome = busy - 1 /\ busy' = busy - 1
        BY <1>0, <3>2, <2>2 DEF ToCome
      <4>2. ToCome' = IF busy >= 3 THEN busy - 2 ELSE Typing - since' + 35
        BY <1>0, <3>2, <2>1, <4>1 DEF ToCome
      <4>3. Typing - since' + 35 >= 0
        <5>1. since' \in Int /\ since' <= Typing /\ Typing \in Int
          BY <1>0, <1>2
        <5> QED  BY <5>1, ClocksLeft, Zenon
      <4>4. IF busy >= 3 THEN ToCome' = busy - 2 ELSE ToCome' >= 0 /\ busy = 2
        BY <1>0, <3>2, <4>2, <4>3
      <4> QED  BY <1>0, <1>3, <4>1, <4>4
    <3>3. CASE Started > 7 \/ (Started = 7 /\ busy < 2)
      <4>1. ToCome = Typing - since + 35
        BY <1>0, <3>3 DEF ToCome
      <4>2. busy < 2 => busy' < 2
        BY <1>0, <2>2
      <4>3. ToCome' = Typing - since' + 35
        BY <1>0, <1>2, <3>3, <2>1, <4>2 DEF ToCome
      <4>4. since' \in Int /\ since' <= since + 1
        BY <1>2, <1>0, <2>1
      <4>5. since \in Int /\ Typing \in Int
        BY <1>0
      <4> QED  BY <4>1, <4>3, <4>4, <4>5, ClocksLeft, Zenon
    <3> QED  BY <1>0, <3>1, <3>2, <3>3
  <2>6. AtSerializer' => Started = 7 /\ busy = 2 /\ ToCome = 1
    BY <1>0, <2>1, <2>2 DEF ToCome, AtSerializer
  <2>7. ASSUME AtSerializer
        PROVE  ToCome' >= Typing + 31
    <3>1. Started' = 7 /\ busy' = 0 /\ since <= 3
      BY <1>0, <2>1, <2>2, <2>4, <2>7 DEF AtSerializer
    <3>2. ToCome' = Typing - since' + 35
      BY <3>1 DEF ToCome
    <3>3. since' \in 0 .. Typing /\ since' <= 4 /\ Typing \in Nat
      BY <1>0, <1>2, <2>1, <3>1
    <3>4. since' \in Int /\ Typing \in Int
      BY <3>3
    <3> QED  BY <3>2, <3>3, <3>4, ClocksLeft, Zenon
  <2> QED  BY <1>3, <2>5, <2>6, <2>7
<1> QED  BY <1>4, <1>5, <1>6, CallSteps
-----------------------------------------------------------------------------
(* The serialiser and the FIFOs, full or not.                              *)

(* A command on command_o is the one of the present call.                  *)
LEMMA CommandType ==
  ASSUME CallInv, RegInv
  PROVE  /\ command \in Commands /\ (command.kind # "none" => command.kind \in Kinds)
         /\ AtSerializer /\ command.kind = "none" => ~Coming
         /\ command.kind # "none" => AtSerializer /\ Coming /\ command = Own
<1> USE CallNumbers
<1>1. /\ user_delta \in 0 .. MaxCalls /\ typed.kind \in Kinds \cup {"none", "other"}
      /\ command = IF AtSerializer THEN Own ELSE NoCommand
  <2>1. user_delta \in 0 .. calls /\ calls \in 0 .. MaxCalls /\ MaxCalls \in Nat
    BY Numbers DEF RegInv
  <2>2. typed.kind \in Kinds \cup {"none", "other"}
    BY DEF CallInv
  <2>3. command = IF AtSerializer THEN Own ELSE NoCommand
    BY DEF RegInv, AtSerializer
  <2> QED  BY <2>1, <2>2, <2>3
<1>2. [f \in Fields |-> calls] \in [Fields -> 0 .. MaxCalls]
  BY DEF CallInv
<1>3. /\ Own \in Commands /\ NoCommand.kind = "none" /\ NoCommand \in Commands
      /\ typed.kind \in Kinds => Own.kind = typed.kind
      /\ typed.kind \notin Kinds => Own = NoCommand
  BY <1>1, <1>2, CommandIs, NoCommandIs DEF Own
<1>4. /\ AtSerializer /\ typed.kind \in Kinds => Coming
      /\ Coming => typed.kind \in Kinds
  BY DEF AtSerializer, Coming
<1>5. "none" \notin Kinds
  BY DEF Kinds
<1> QED  BY <1>1, <1>3, <1>4, <1>5

(* What an edge puts into the payload FIFO.                                *)
LEMMA PutIs ==
  ASSUME fifo \in Seq(BOOLEAN)
  PROVE  /\ Put \in Seq(BOOLEAN) /\ Len(Put) = IF Taken THEN 1 ELSE 0
         /\ fifo \o Put \in Seq(BOOLEAN) /\ Len(fifo \o Put) = Len(fifo) + Len(Put)
         /\ fifo # << >> => /\ Tail(fifo) \o Put \in Seq(BOOLEAN)
                            /\ Len(Tail(fifo) \o Put) = Len(fifo) - 1 + Len(Put)
<1>1. << >> \in Seq(BOOLEAN) /\ Len(<< >>) = 0
  OBVIOUS
<1>2. \A b \in BOOLEAN : <<b>> \in Seq(BOOLEAN) /\ Len(<<b>>) = 1
  OBVIOUS
<1>3. (ser = "LAST") \in BOOLEAN
  OBVIOUS
<1>4. Put \in Seq(BOOLEAN) /\ Len(Put) = IF Taken THEN 1 ELSE 0
  <2>1. Taken => Put \in Seq(BOOLEAN) /\ Len(Put) = 1
    BY <1>2, <1>3, Zenon DEF Put
  <2>2. ~Taken => Put \in Seq(BOOLEAN) /\ Len(Put) = 0
    BY <1>1, Zenon DEF Put
  <2> HIDE DEF Put
  <2> QED  BY <2>1, <2>2
<1>5. fifo \o Put \in Seq(BOOLEAN) /\ Len(fifo \o Put) = Len(fifo) + Len(Put)
  BY <1>4, ConcatProperties, Zenon
<1>6. ASSUME fifo # << >>
      PROVE  /\ Tail(fifo) \o Put \in Seq(BOOLEAN)
             /\ Len(Tail(fifo) \o Put) = Len(fifo) - 1 + Len(Put)
  <2>1. Tail(fifo) \in Seq(BOOLEAN) /\ Len(Tail(fifo)) = Len(fifo) - 1
    BY <1>6
  <2>2. /\ Tail(fifo) \o Put \in Seq(BOOLEAN)
        /\ Len(Tail(fifo) \o Put) = Len(Tail(fifo)) + Len(Put)
    BY <1>4, <2>1, ConcatProperties, Zenon
  <2> QED  BY <2>1, <2>2
<1> QED  BY <1>4, <1>5, <1>6

(* What is remembered of a byte that is taken.                             *)
LEMMA SeenIs ==
  ASSUME Serializer, tmp \in Commands, cnt \in Nat
  PROVE  /\ Taken => /\ seen' \in [cmd : Commands, at : Nat, last : BOOLEAN]
                     /\ seen'.at = cnt /\ (seen'.last <=> ser = "LAST")
         /\ ~Taken => seen' = seen
         /\ done' = IF Taken /\ ser = "LAST" THEN done + 1 ELSE done
<1>1. \A b \in BOOLEAN :
        /\ [cmd |-> tmp, at |-> cnt, last |-> b] \in [cmd : Commands, at : Nat, last : BOOLEAN]
        /\ [cmd |-> tmp, at |-> cnt, last |-> b].at = cnt
        /\ [cmd |-> tmp, at |-> cnt, last |-> b].last = b
  OBVIOUS
<1>2. (ser = "LAST") \in BOOLEAN
  OBVIOUS
<1>3. Taken => seen' = [cmd |-> tmp, at |-> cnt, last |-> ser = "LAST"]
  BY Zenon DEF Serializer, Byte
<1>4. ASSUME Taken
      PROVE  /\ seen' \in [cmd : Commands, at : Nat, last : BOOLEAN]
             /\ seen'.at = cnt /\ (seen'.last <=> ser = "LAST")
  BY <1>1, <1>2, <1>3, <1>4, Zenon
<1>5. ~Taken => seen' = seen
  BY Zenon DEF Serializer
<1>6. done' = IF Taken /\ ser = "LAST" THEN done + 1 ELSE done
  BY Zenon DEF Serializer
<1> QED  BY <1>4, <1>5, <1>6, Zenon

(* The byte counter of the serialiser.                                     *)
LEMMA CountIs ==
  ASSUME Count, UnitInv
  PROVE  /\ cnt' \in 0 .. CntMod - 1
         /\ ser = "LAST" /\ cnt \in {ComBytes, TmBytes, 1} => cnt' = 0
         /\ ser # "LAST" /\ Taken /\ cnt < ComBytes => cnt' = cnt + 1
         /\ ser # "LAST" /\ ~Taken => cnt' = cnt
<1>1. cnt \in 0 .. CntMod - 1 /\ cnt \in Nat /\ CntMod \in Nat /\ CntMod > 0
  BY Numbers DEF UnitInv
<1>2. (cnt + 1) % CntMod \in 0 .. CntMod - 1
  BY <1>1
<1>3. cnt < ComBytes => (cnt + 1) % CntMod = cnt + 1
  BY <1>1, Numbers
<1> HIDE DEF UnitInv
<1> QED  BY <1>1, <1>2, <1>3, Numbers DEF Count

(* The arithmetic of the commands not yet taken.                           *)
LEMMA Balance ==
  ASSUME NEW d \in Nat, NEW p \in {0, 1}, NEW v \in {0, 1}, NEW l \in Nat,
         NEW p1 \in {0, 1}, NEW v1 \in {0, 1}, NEW l1 \in Nat,
         d + p + v <= l, l1 - p1 >= l - p
  PROVE  /\ v1 <= v => d + p1 + v1 <= l1
         /\ v = 1 => (d + 1) + p1 + 0 <= l1
OBVIOUS

(* No unit leaves its range, and none takes a command twice.               *)
LEMMA UnitInvKept ==
  ASSUME CallInv, RegInv, UnitInv, Cpu, Serializer, Stack
  PROVE  UnitInv'
<1>0. /\ ser \in Stages /\ sum \in Sums /\ want \in Seq(Commands) /\ tmp \in Commands
      /\ seen \in [cmd : Commands, at : Nat, last : BOOLEAN] /\ cnt \in Nat
      /\ fifo \in Seq(BOOLEAN) /\ Len(fifo) <= Depth /\ hdrs \in 0 .. HdrDepth
      /\ done \in Nat /\ done + Pending + Valid <= Len(want)
  BY Numbers DEF UnitInv
<1>1. ser' \in Stages
  <2>1. \/ ser' = ser
        \/ ser' \in {"IDLE", "HEADER_CHECK", "START_OF_SEQ", "LAST", "STOP_OF_SEQ", "STOP"}
    BY <1>0, StateArms, Zenon DEF Serializer, Stages, tvalid
  <2> QED  BY <1>0, <2>1 DEF Stages
<1>2. sum' \in Sums
  BY <1>0, SumArms DEF Stack, Sums
<1>3. cnt' \in 0 .. CntMod - 1
  BY CountIs DEF Serializer
<1>4. want' \in Seq(Commands)
  BY <1>0, WantKept
<1>5. tmp' \in Commands
  <2>1. tmp' = tmp \/ tmp' = command \/ tmp' = NoCommand
    BY Zenon DEF Serializer, State
  <2> QED  BY <1>0, <2>1, NoCommandIs, CommandType
<1>6. seen' \in [cmd : Commands, at : Nat, last : BOOLEAN]
  BY <1>0, SeenIs
<1>7. fifo' \in Seq(BOOLEAN) /\ Len(fifo') <= Depth /\ hdrs' \in 0 .. HdrDepth
  <2>1. Stored \in {0, 1} /\ (Stored = 1 => hdrs < HdrDepth)
    BY DEF Stored
  <2>2. Len(Put) = IF Taken THEN 1 ELSE 0
    BY <1>0, PutIs, Zenon
  <2>3. Len(Put) \in {0, 1} /\ (Len(Put) = 1 => Len(fifo) < Depth)
    BY <2>2 DEF Taken, tready
  <2>4. Len(fifo) \in Nat /\ Depth \in Nat /\ Len(fifo) <= Depth
    BY <1>0, Numbers
  <2>5. hdrs \in 0 .. HdrDepth /\ HdrDepth \in Nat
    BY <1>0, Numbers
  <2>6. hdrs + Stored \in 0 .. HdrDepth /\ (hdrs > 0 => hdrs - 1 + Stored \in 0 .. HdrDepth)
    BY <2>1, <2>5
  <2>7. fifo \o Put \in Seq(BOOLEAN) /\ Len(fifo \o Put) <= Depth
    <3>1. fifo \o Put \in Seq(BOOLEAN) /\ Len(fifo \o Put) = Len(fifo) + Len(Put)
      BY <1>0, PutIs, Zenon
    <3>2. Len(fifo) + Len(Put) <= Depth
      <4>1. Len(Put) = 0 => Len(fifo) + Len(Put) <= Depth
        BY <2>4
      <4>2. Len(Put) = 1 => Len(fifo) + Len(Put) <= Depth
        BY <2>3, <2>4
      <4> QED  BY <2>3, <4>1, <4>2
    <3> QED  BY <3>1, <3>2, Zenon
  <2>8. fifo # << >> => Tail(fifo) \o Put \in Seq(BOOLEAN) /\ Len(Tail(fifo) \o Put) <= Depth
    <3>1. fifo # << >> => /\ Tail(fifo) \o Put \in Seq(BOOLEAN)
                          /\ Len(Tail(fifo) \o Put) = Len(fifo) - 1 + Len(Put)
      BY <1>0, PutIs, Zenon
    <3>2. Len(fifo) - 1 + Len(Put) <= Depth
      <4>1. Len(Put) = 0 => Len(fifo) - 1 + Len(Put) <= Depth
        BY <2>4
      <4>2. Len(Put) = 1 => Len(fifo) - 1 + Len(Put) <= Depth
        BY <2>4
      <4> QED  BY <2>3, <4>1, <4>2
    <3> QED  BY <3>1, <3>2, Zenon
  <2>9. \/ fifo' = fifo \o Put
        \/ fifo # << >> /\ fifo' = Tail(fifo) \o Put
    BY Zenon DEF Stack, IpHeader, IpByte, IpWait
  <2>10. hdrs' = hdrs + Stored \/ (hdrs > 0 /\ hdrs' = hdrs - 1 + Stored)
    BY Zenon DEF Stack, IpHeader, IpByte, IpWait
  <2> QED  BY <2>6, <2>7, <2>8, <2>9, <2>10, Zenon
<1>8. done' \in Nat /\ done' + Pending' + Valid' <= Len(want')
  <2>0. done \in Nat /\ done + Pending + Valid <= Len(want)
    BY <1>0
  <2>1. /\ Len(want) \in Nat /\ Len(want') \in Nat /\ Pending \in {0, 1} /\ Pending' \in {0, 1}
        /\ AtSerializer => Len(want') = Len(want) /\ Pending' = 0
        /\ ~AtSerializer => Len(want') - Pending' = Len(want) - Pending
    BY <1>0, WantKept
  <2>2. Valid \in {0, 1} /\ Valid' \in {0, 1}
    BY DEF Valid
  <2>3. CASE ser = "IDLE" /\ command.kind # "none"
    <3>1. Valid = 0 /\ Pending = 1 /\ AtSerializer
      BY <2>3, CommandType DEF Valid, tvalid, Pending
    <3>2. done' = done
      BY <1>0, <2>3, SeenIs
    <3> QED  BY <2>0, <2>1, <2>2, <3>1, <3>2
  <2>4. CASE ~(ser = "IDLE" /\ command.kind # "none")
    <3>1. Len(want') - Pending' >= Len(want) - Pending
      BY <2>1
    <3>2. CASE Taken /\ ser = "LAST"
      <4>1. ser' = "STOP" /\ done' = done + 1 /\ tvalid
        BY <1>0, <3>2, StateArms, SeenIs DEF Serializer, Taken
      <4>2. Valid = 1 /\ Valid' = 0
        BY <4>1 DEF Valid, tvalid
      <4>3. done + 1 \in Nat
        BY <2>0
      <4> QED  BY <2>0, <2>1, <2>2, <3>1, <4>1, <4>2, <4>3, Balance, Zenon
    <3>3. CASE ~(Taken /\ ser = "LAST")
      <4>1. done' = done
        BY <1>0, <3>3, SeenIs
      <4>2. tvalid' => tvalid
        <5>1. ser = "IDLE" => ser' = "IDLE"
          BY <2>4, StateArms DEF Serializer
        <5>2. ser = "STOP" => ser' = "IDLE"
          BY StateArms DEF Serializer
        <5> QED  BY <1>0, <5>1, <5>2 DEF tvalid, Stages
      <4>3. Valid' <= Valid
        BY <4>2 DEF Valid
      <4> QED  BY <2>0, <2>1, <2>2, <3>1, <4>1, <4>3, Balance, Zenon
    <3> QED  BY <3>2, <3>3
  <2> QED  BY <2>3, <2>4
<1> QED  BY <1>1, <1>2, <1>3, <1>4, <1>5, <1>6, <1>7, <1>8 DEF UnitInv
-----------------------------------------------------------------------------
(* A command on its way through the serialiser, until a FIFO fills.        *)

(* As long as no FIFO fills only the checksum holds the serialiser.        *)
LEMMA NotFull ==
  ASSUME UnitInv, Stack, ~full'
  PROVE  ~full /\ hdrs < HdrDepth /\ (tready <=> sum = "SUM_PAYLOAD")
<1>1. ~full /\ Len(fifo) # Depth /\ hdrs # HdrDepth
  BY DEF Stack
<1>2. /\ fifo \in Seq(BOOLEAN) /\ Len(fifo) <= Depth /\ Depth \in Nat
      /\ hdrs \in 0 .. HdrDepth /\ HdrDepth \in Nat
  BY Numbers DEF UnitInv
<1>3. Len(fifo) < Depth /\ hdrs < HdrDepth
  BY <1>1, <1>2
<1> QED  BY <1>1, <1>3 DEF tready

(* The commands that have reached the serialiser change only with it.      *)
LEMMA ShownKept ==
  ASSUME CallInv, RegInv, UnitInv, Cpu, ~AtSerializer
  PROVE  Shown' = Shown /\ Shown \in Int /\ Shown <= Len(want)
BY WantKept DEF Shown, UnitInv

(* The command in the serialiser stays the next one of those typed.        *)
LEMMA LoadedKept ==
  ASSUME CallInv, RegInv, UnitInv, Cpu, Loaded, ~AtSerializer, done' = done, tmp' = tmp
  PROVE  Loaded'
<1>1. Shown' = Shown /\ Shown \in Int /\ Shown <= Len(want)
  BY ShownKept
<1>2. done \in Nat /\ Shown = done + 1 /\ tmp.kind \in Kinds /\ tmp = want[done + 1]
  BY DEF UnitInv, Loaded
<1>3. done + 1 \in 1 .. Len(want)
  BY <1>1, <1>2, WantKept DEF UnitInv
<1>4. want'[done + 1] = want[done + 1]
  BY <1>3, WantKept DEF UnitInv
<1> QED  BY <1>1, <1>2, <1>4, Zenon DEF Loaded

(* A clock later there is a clock less to go, and no command yet.          *)
LEMMA RoomLeft ==
  ASSUME CallInv, Cpu, NEW k \in Int, Room(k)
  PROVE  /\ k - 1 <= ToCome' /\ k - 1 \in Int
         /\ \A j \in Int : j <= k - 1 => j <= ToCome'
         /\ k >= 2 => ~AtSerializer'
<1>1. /\ ToCome \in Int /\ ToCome' \in Int /\ ToCome' >= ToCome - 1
      /\ AtSerializer' => ToCome = 1
  BY Nearer
<1>2. k <= ToCome
  BY DEF Room
<1> QED  BY <1>1, <1>2

(* From IDLE a command is loaded, with time enough to leave.               *)
LEMMA IdleStep ==
  ASSUME Unhurried, CallInv, RegInv, UnitInv, Cpu, Slave, Serializer, Stack, ~full', Idle
  PROVE  (Idle' \/ Announced') /\ (AtSerializer' => ser' = "IDLE")
<1>1. /\ Len(want) \in Nat /\ Len(want') \in Nat /\ Pending \in {0, 1} /\ Pending' \in {0, 1}
      /\ AtSerializer => Len(want') = Len(want) /\ Pending' = 0
      /\ ~AtSerializer => Len(want') - Pending' = Len(want) - Pending
      /\ \A i \in 1 .. Len(want) : want'[i] = want[i]
  BY WantKept DEF UnitInv
<1>2. /\ ser = "IDLE" /\ sum = "IDLE" /\ ~tvalid_int /\ cnt = 0 /\ seen.last
      /\ Shown = done /\ done \in Nat /\ ~tvalid /\ ~Taken /\ tmp \in Commands
  BY DEF Idle, UnitInv, tvalid, Taken
<1>3. sum' = "IDLE" /\ ~tvalid_int' /\ hdr_ready'
  <2>1. ~hdr_pulse
    BY <1>2, Zenon DEF hdr_pulse
  <2>2. sum' = "IDLE"
    BY <1>2, <2>1, SumArms DEF Stack
  <2>3. ~tvalid_int'
    BY <1>2, Zenon DEF Stack, Glue
  <2>4. hdr_ready'
    BY <1>2, <2>1, NotFull, Zenon DEF Stack, Checksum
  <2> QED  BY <2>2, <2>3, <2>4
<1>4. cnt' = 0 /\ done' = done /\ seen' = seen
  <2>1. cnt \in Nat /\ cnt < ComBytes
    BY <1>2, Numbers
  <2> QED  BY <1>2, <2>1, CountIs, SeenIs DEF Serializer
<1>5. AtSerializer' => ~AtSerializer
  BY Nearer DEF AtSerializer
<1>6. CASE command.kind = "none"
  <2>1. ser' = "IDLE"
    BY <1>2, <1>6, StateArms DEF Serializer
  <2>2. AtSerializer => Pending = 0
    BY <1>6, CommandType DEF Pending
  <2>3. Shown' = Shown
    BY <1>1, <2>2, ShownKept DEF Shown
  <2> QED  BY <1>2, <1>3, <1>4, <2>1, <2>3 DEF Idle
<1>7. CASE command.kind # "none"
  <2>1. ser' = "HEADER_CHECK" /\ tmp' = command
    BY <1>2, <1>7, StateArms DEF Serializer
  <2>2. AtSerializer /\ Pending = 1 /\ command = want[Len(want)] /\ command.kind \in Kinds
    BY <1>7, CommandType DEF Pending, RegInv
  <2>3. Len(want) = done + 1 /\ Shown' = done + 1 /\ Len(want) \in 1 .. Len(want)
    <3>1. Len(want) = done + 1
      BY <1>1, <1>2, <2>2 DEF Shown
    <3>2. Len(want') = done + 1 /\ Pending' = 0
      BY <1>1, <2>2, <3>1
    <3> QED  BY <1>1, <1>2, <3>1, <3>2 DEF Shown
  <2>4. want'[done + 1] = command
    BY <1>1, <2>2, <2>3
  <2>5. Loaded'
    BY <1>4, <2>1, <2>2, <2>3, <2>4, Zenon DEF Loaded
  <2>6. ComBytes + 6 <= ToCome'
    <3>1. ToCome' \in Int /\ ToCome' >= Typing + 31
      BY <2>2, Nearer
    <3> QED  BY <3>1, Numbers DEF Unhurried
  <2>7. Announced'
    BY <1>2, <1>3, <1>4, <2>1, <2>5, <2>6 DEF Announced, Room
  <2> QED  BY <1>5, <2>2, <2>7
<1> QED  BY <1>6, <1>7

(* The header is announced and summed while the first byte waits.          *)
LEMMA AnnouncedStep ==
  ASSUME CallInv, RegInv, UnitInv, Cpu, Serializer, Stack, ~full', ~AtSerializer, Announced
  PROVE  (Announced' \/ Sending') /\ ~AtSerializer'
<1>1. /\ ser = "HEADER_CHECK" /\ cnt = 0 /\ seen.last /\ Loaded /\ tvalid
      /\ tmp \in Commands /\ cnt \in Nat /\ cnt < ComBytes /\ tmp.kind \in Kinds
  BY Numbers DEF Announced, UnitInv, tvalid, Loaded
<1>2. done' = done
  BY <1>1, SeenIs
<1>3. ComBytes + 6 \in Int /\ ComBytes + 5 \in Int /\ ComBytes + 4 \in Int /\ ComBytes + 3 \in Int
      /\ ComBytes + 2 \in Int /\ ComBytes + 1 \in Int /\ ComBytes \in Nat /\ ComBytes > 0
  BY Numbers
<1>4. ASSUME sum # "SUM_PAYLOAD"
      PROVE  /\ ser' = "HEADER_CHECK" /\ cnt' = 0 /\ seen'.last /\ Loaded'
  <2>1. ~Taken /\ ~tready
    BY <1>4, NotFull DEF Taken
  <2>2. ser' = ser /\ tmp' = tmp
    BY <1>1, <2>1, StateArms DEF Serializer
  <2>3. cnt' = cnt /\ seen' = seen
    BY <1>1, <2>1, CountIs, SeenIs DEF Serializer
  <2> QED  BY <1>1, <1>2, <2>2, <2>3, LoadedKept
<1>5. CASE sum = "IDLE" /\ hdr_ready /\ ~tvalid_int /\ Room(ComBytes + 6)
  <2>1. sum' = "SUM_HEADER_1"
    BY <1>1, <1>5, SumArms DEF Stack, hdr_pulse
  <2>2. ComBytes + 5 <= ToCome' /\ ~AtSerializer'
    BY <1>3, <1>5, RoomLeft
  <2> QED  BY <1>4, <1>5, <2>1, <2>2 DEF Announced, Room
<1>6. CASE sum = "SUM_HEADER_1" /\ Room(ComBytes + 5)
  <2>1. sum' = "SUM_HEADER_2"
    BY <1>6, SumArms DEF Stack
  <2>2. ComBytes + 4 <= ToCome' /\ ~AtSerializer'
    BY <1>3, <1>6, RoomLeft
  <2> QED  BY <1>4, <1>6, <2>1, <2>2 DEF Announced, Room
<1>7. CASE sum = "SUM_HEADER_2" /\ Room(ComBytes + 4)
  <2>1. sum' = "SUM_HEADER_3"
    BY <1>7, SumArms DEF Stack
  <2>2. ComBytes + 3 <= ToCome' /\ ~AtSerializer'
    BY <1>3, <1>7, RoomLeft
  <2> QED  BY <1>4, <1>7, <2>1, <2>2 DEF Announced, Room
<1>8. CASE sum = "SUM_HEADER_3" /\ Room(ComBytes + 3)
  <2>1. sum' = "SUM_PAYLOAD"
    BY <1>8, SumArms DEF Stack
  <2>2. ComBytes + 2 <= ToCome' /\ ~AtSerializer'
    BY <1>3, <1>8, RoomLeft
  <2> QED  BY <1>4, <1>8, <2>1, <2>2 DEF Announced, Room
<1>9. CASE sum = "SUM_PAYLOAD" /\ Room(ComBytes + 2)
  <2>1. Taken /\ tready
    BY <1>1, <1>9, NotFull DEF Taken
  <2>2. sum' = "SUM_PAYLOAD"
    BY <1>1, <1>9, SumArms DEF Stack
  <2>3. /\ cnt' = 1 /\ seen'.at = 0 /\ ~seen'.last
        /\ seen' \in [cmd : Commands, at : Nat, last : BOOLEAN]
    BY <1>1, <2>1, CountIs, SeenIs DEF Serializer
  <2>4. /\ tmp' = tmp
        /\ tmp.kind = "START" => ser' = "START_OF_SEQ"
        /\ tmp.kind = "ABORT" => ser' = "LAST"
        /\ tmp.kind \in {"STOP", "CONTINUE"} => ser' = "STOP_OF_SEQ"
    BY <1>1, <2>1, StateArms DEF Serializer
  <2>5. Loaded'
    BY <1>1, <1>2, <2>4, LoadedKept
  <2>6. ComBytes + 1 <= ToCome' /\ ~AtSerializer' /\ ToCome' \in Int
    BY <1>3, <1>9, RoomLeft, Nearer
  <2>7. /\ ComBytes + 2 - 1 <= ToCome' /\ 1 < ComBytes
        /\ TmBytes + 2 - 1 <= ToCome' /\ 1 < TmBytes
        /\ 2 <= ToCome'
    BY <2>6, Numbers
  <2>8. tmp.kind \in {"START", "STOP", "CONTINUE", "ABORT"}
    BY <1>1 DEF Kinds
  <2>9. Sending'
    BY <2>2, <2>3, <2>4, <2>5, <2>7, <2>8, LastByteIs DEF Sending, Room
  <2> QED  BY <2>6, <2>9
<1> QED  BY <1>5, <1>6, <1>7, <1>8, <1>9 DEF Announced

(* The bytes follow each other to the last one.                            *)
LEMMA SendingStep ==
  ASSUME CallInv, RegInv, UnitInv, Cpu, Serializer, Stack, ~full', ~AtSerializer, Sending
  PROVE  (Sending' \/ Stopping') /\ ~AtSerializer'
<1>1. /\ sum = "SUM_PAYLOAD" /\ Loaded /\ tmp \in Commands /\ cnt \in Nat /\ tmp.kind \in Kinds
      /\ tready /\ tvalid /\ Taken
  BY NotFull DEF Sending, UnitInv, tvalid, Loaded, Taken
<1>2. /\ ComBytes \in Nat /\ TmBytes \in Nat /\ 1 < TmBytes /\ TmBytes < ComBytes
  BY Numbers
<1>3. /\ ser # "LAST" => done' = done
      /\ seen' \in [cmd : Commands, at : Nat, last : BOOLEAN]
      /\ seen'.at = cnt /\ (seen'.last <=> ser = "LAST")
  BY <1>1, SeenIs
<1>4. CASE ser = "START_OF_SEQ" /\ tmp.kind = "START" /\ cnt < ComBytes /\ Room(ComBytes + 2 - cnt)
  <2>1. sum' = "SUM_PAYLOAD" /\ cnt' = cnt + 1 /\ tmp' = tmp /\ done' = done
    BY <1>1, <1>3, <1>4, SumArms, CountIs, StateArms DEF Stack, Serializer
  <2>2. Loaded'
    BY <1>1, <1>4, <2>1, LoadedKept
  <2>3. ComBytes + 2 - (cnt + 1) <= ToCome' /\ ~AtSerializer'
    <3>1. /\ ComBytes + 2 - cnt \in Int /\ ComBytes + 2 - cnt >= 2
          /\ ComBytes + 2 - (cnt + 1) \in Int
          /\ ComBytes + 2 - (cnt + 1) <= (ComBytes + 2 - cnt) - 1
      BY <1>1, <1>2, <1>4
    <3> QED  BY <1>4, <3>1, RoomLeft
  <2>4. CASE cnt >= ComBytes - 1
    <3>1. ser' = "LAST"
      BY <1>1, <1>4, <2>4, StateArms DEF LastNext, Serializer
    <3>2. cnt + 1 = ComBytes /\ ComBytes + 2 - (cnt + 1) = 2
      BY <1>1, <1>2, <1>4, <2>4
    <3> QED  BY <1>3, <1>4, <2>1, <2>2, <2>3, <3>1, <3>2, LastByteIs DEF Sending, Room
  <2>5. CASE ~(cnt >= ComBytes - 1)
    <3>1. ser' = "START_OF_SEQ"
      BY <1>1, <1>4, <2>5, StateArms DEF LastNext, Serializer
    <3>2. cnt + 1 < ComBytes
      BY <1>1, <1>2, <2>5
    <3> QED  BY <1>3, <1>4, <2>1, <2>2, <2>3, <3>1, <3>2 DEF Sending, Room
  <2> QED  BY <2>4, <2>5
<1>5. CASE ser = "STOP_OF_SEQ" /\ tmp.kind \in {"STOP", "CONTINUE"} /\ cnt < TmBytes
           /\ Room(TmBytes + 2 - cnt)
  <2>1. sum' = "SUM_PAYLOAD" /\ cnt' = cnt + 1 /\ tmp' = tmp /\ done' = done
    <3>1. cnt < ComBytes
      BY <1>1, <1>2, <1>5
    <3> QED  BY <1>1, <1>3, <1>5, <3>1, SumArms, CountIs, StateArms DEF Stack, Serializer
  <2>2. Loaded'
    BY <1>1, <1>5, <2>1, LoadedKept
  <2>3. TmBytes + 2 - (cnt + 1) <= ToCome' /\ ~AtSerializer'
    <3>1. /\ TmBytes + 2 - cnt \in Int /\ TmBytes + 2 - cnt >= 2
          /\ TmBytes + 2 - (cnt + 1) \in Int
          /\ TmBytes + 2 - (cnt + 1) <= (TmBytes + 2 - cnt) - 1
      BY <1>1, <1>2, <1>5
    <3> QED  BY <1>5, <3>1, RoomLeft
  <2>4. CASE cnt >= TmBytes - 1
    <3>1. ser' = "LAST"
      BY <1>1, <1>5, <2>4, StateArms DEF LastNext, Serializer
    <3>2. cnt + 1 = TmBytes /\ TmBytes + 2 - (cnt + 1) = 2
      BY <1>1, <1>2, <1>5, <2>4
    <3> QED  BY <1>3, <1>5, <2>1, <2>2, <2>3, <3>1, <3>2, LastByteIs DEF Sending, Room
  <2>5. CASE ~(cnt >= TmBytes - 1)
    <3>1. ser' = "STOP_OF_SEQ"
      BY <1>1, <1>5, <2>5, StateArms DEF LastNext, Serializer
    <3>2. cnt + 1 < TmBytes
      BY <1>1, <1>2, <2>5
    <3> QED  BY <1>3, <1>5, <2>1, <2>2, <2>3, <3>1, <3>2 DEF Sending, Room
  <2> QED  BY <2>4, <2>5
<1>6. CASE ser = "LAST" /\ cnt = LastByte(tmp.kind) /\ Room(2)
  <2>1. cnt \in {ComBytes, TmBytes, 1}
    BY <1>1, <1>6, LastByteIs DEF Kinds
  <2>2. ser' = "STOP" /\ sum' = "FINISH_SUM" /\ cnt' = 0 /\ seen'.last
    BY <1>1, <1>3, <1>6, <2>1, StateArms, SumArms, CountIs DEF Stack, Serializer
  <2>3. Shown' = done'
    BY <1>1, <1>6, SeenIs, ShownKept DEF Loaded
  <2>4. 1 <= ToCome' /\ ~AtSerializer'
    BY <1>6, RoomLeft
  <2> QED  BY <2>2, <2>3, <2>4 DEF Stopping, Room
<1> QED  BY <1>4, <1>5, <1>6 DEF Sending

(* After the last byte both sides are idle again.                          *)
LEMMA StoppingStep ==
  ASSUME CallInv, RegInv, UnitInv, Cpu, Serializer, Stack, ~AtSerializer, Stopping
  PROVE  Idle'
<1>1. /\ ser = "STOP" /\ sum = "FINISH_SUM" /\ cnt = 0 /\ seen.last /\ Shown = done
      /\ tmp \in Commands /\ cnt \in Nat /\ ~tvalid /\ ~Taken
  BY DEF Stopping, UnitInv, tvalid, Taken
<1>2. ser' = "IDLE" /\ sum' = "IDLE"
  BY <1>1, StateArms, SumArms DEF Stack, Serializer
<1>3. cnt' = 0 /\ seen' = seen /\ done' = done
  BY <1>1, CountIs, SeenIs DEF Serializer
<1>4. ~tvalid_int'
  BY <1>1, Zenon DEF Stack, Glue
<1> QED  BY <1>1, <1>2, <1>3, <1>4, ShownKept DEF Idle

(* The phases follow each other.                                           *)
LEMMA FlowInvKept ==
  ASSUME Unhurried, CallInv, RegInv, UnitInv, FlowInv, Cpu, Slave, Serializer, Stack
  PROVE  FlowInv'
<1> SUFFICES ASSUME ~full'
             PROVE  /\ Idle' \/ Announced' \/ Sending' \/ Stopping'
                    /\ AtSerializer' => ser' = "IDLE"
  BY DEF FlowInv
<1>1. /\ Idle \/ Announced \/ Sending \/ Stopping
      /\ AtSerializer => ser = "IDLE"
  BY NotFull DEF FlowInv
<1>2. CASE Idle
  BY <1>2, IdleStep
<1>3. CASE Announced
  BY <1>1, <1>3, AnnouncedStep DEF Announced
<1>4. CASE Sending
  BY <1>1, <1>4, SendingStep DEF Sending
<1>5. CASE Stopping
  BY <1>1, <1>5, StoppingStep DEF Stopping, Idle
<1> QED  BY <1>1, <1>2, <1>3, <1>4, <1>5
-----------------------------------------------------------------------------
(* What holds of the call, of the registers and of the units needs nothing *)
(* of the speed of the console.                                            *)
AnyInv == CallInv /\ RegInv /\ UnitInv

(* The invariant holds where the clock begins.                             *)
LEMMA TssStart ==
  ASSUME TssInit
  PROVE  AnyInv /\ FlowInv
<1>1. /\ todo = << >> /\ busy = 0 /\ typed = [kind |-> "none", delta |-> 0]
      /\ since = Typing /\ calls = 0 /\ control = "none" /\ command = NoCommand
      /\ param = Steady /\ user_delta = 0 /\ latest = 0 /\ want = << >>
      /\ ser = "IDLE" /\ tmp = NoCommand /\ cnt = 0 /\ seen = NoByte /\ done = 0
      /\ ~tvalid_int /\ sum = "IDLE" /\ fifo = << >> /\ hdrs = 0
  BY DEF TssInit
<1>2. /\ Writes(0) = 7 /\ typed.delta = 0 /\ typed.kind = "none" /\ "none" \notin Kinds
  BY <1>1 DEF Writes, Kinds
<1>3. Len(todo) = 0 /\ Started = 7 /\ ~Coming /\ Pending = 0 /\ Valid = 0 /\ ~AtSerializer
  BY <1>1, <1>2 DEF Started, Coming, Pending, Valid, tvalid, AtSerializer
<1>4. CallInv
  BY <1>1, <1>3, Numbers DEF CallInv
<1>5. RegInv
  <2>1. param \in [Fields -> 0 .. calls] /\ \A i \in 1 .. 6 : param[Order[i]] = calls
    BY <1>1, OrderIs DEF Steady
  <2> QED  BY <1>1, <1>2, <1>3, <2>1 DEF RegInv
<1>6. UnitInv
  <2>1. seen \in [cmd : Commands, at : Nat, last : BOOLEAN]
    BY <1>1, NoCommandIs DEF NoByte
  <2>2. want \in Seq(Commands) /\ fifo \in Seq(BOOLEAN) /\ Len(want) = 0 /\ Len(fifo) = 0
    BY <1>1
  <2> QED  BY <1>1, <1>3, <2>1, <2>2, NoCommandIs, Numbers DEF UnitInv, Stages, Sums
<1>7. Idle
  BY <1>1, <1>3 DEF Idle, Shown, NoByte
<1> QED  BY <1>3, <1>4, <1>5, <1>6, <1>7 DEF AnyInv, FlowInv

(* The call, the registers and the units keep their invariants, full or    *)
(* not and however fast commands are typed.                                *)
THEOREM TssAnyInvariant == TssSpec => []AnyInv
<1>1. TssInit => AnyInv
  BY TssStart
<1>2. AnyInv /\ [TssNext]_tssVars => AnyInv'
  <2>1. ASSUME AnyInv, TssNext PROVE AnyInv'
    <3>1. CallInv /\ RegInv /\ UnitInv /\ want \in Seq(Commands)
      BY <2>1 DEF AnyInv, UnitInv
    <3>2. Cpu /\ Slave /\ Serializer /\ Stack
      BY <2>1 DEF TssNext
    <3> QED  BY <3>1, <3>2, CallInvKept, RegInvKept, UnitInvKept DEF AnyInv
  <2>2. ASSUME AnyInv, UNCHANGED tssVars PROVE AnyInv'
    <3>1. /\ UNCHANGED <<tssCpu, tssRegs, tssSer, tssStack>>
          /\ UNCHANGED <<want, latest, seen, done, full>>
      BY <2>2 DEF tssVars
    <3>2. CallInv'
      BY <2>2, <3>1 DEF AnyInv, CallInv, tssCpu, Started
    <3>3. RegInv'
      BY <2>2, <3>1 DEF AnyInv, RegInv, tssCpu, tssRegs, Started, Coming, Own, AtSerializer
    <3>4. UnitInv'
      BY <2>2, <3>1 DEF AnyInv, UnitInv, tssCpu, tssSer, tssStack, Started, Coming, Pending,
                        Valid, tvalid
    <3> QED  BY <3>2, <3>3, <3>4 DEF AnyInv
  <2> QED  BY <2>1, <2>2
<1> QED  BY <1>1, <1>2, PTL DEF TssSpec

(* Every register, counter and FIFO keeps its range, and no more commands  *)
(* leave than were typed, however fast they are typed                      *)
(* (computer_slave.sv:40-150, serializer.sv:49-126).                       *)
THEOREM TssTypeCorrect == TssSpec => []TssTypeOK
<1>1. AnyInv => TssTypeOK
  <2> SUFFICES ASSUME AnyInv PROVE TssTypeOK
    OBVIOUS
  <2>1. /\ busy \in 0 .. 4 /\ since \in 0 .. Typing /\ calls \in 0 .. MaxCalls
        /\ typed.kind \in Kinds \cup {"none", "other"}
    BY DEF AnyInv, CallInv
  <2>2. /\ param \in [Fields -> 0 .. calls] /\ user_delta \in 0 .. calls /\ latest \in 0 .. calls
        /\ control \in {"none", typed.kind}
    BY DEF AnyInv, RegInv
  <2>3. /\ tmp \in Commands /\ seen.cmd \in Commands /\ cnt \in 0 .. CntMod - 1
        /\ Len(fifo) <= Depth /\ hdrs \in 0 .. HdrDepth
    BY DEF AnyInv, UnitInv
  <2>4. command \in Commands
    BY CommandType DEF AnyInv
  <2>5. done <= Len(want)
    <3>1. /\ Len(want) \in Nat /\ done \in Nat /\ done + Pending + Valid <= Len(want)
      BY DEF AnyInv, UnitInv
    <3>2. Pending \in {0, 1} /\ Valid \in {0, 1}
      BY DEF Pending, Valid
    <3> QED  BY <3>1, <3>2
  <2>6. param \in [Fields -> 0 .. MaxCalls] /\ {user_delta, latest} \subseteq 0 .. MaxCalls
    BY <2>1, <2>2, Numbers
  <2> QED  BY <2>1, <2>2, <2>3, <2>4, <2>5, <2>6 DEF TssTypeOK, Commands
<1> QED  BY <1>1, TssAnyInvariant, PTL

(* If the console leaves the serialiser the time, every command passes     *)
(* through its phases in turn.                                             *)
THEOREM TssInvariant ==
  ASSUME Unhurried
  PROVE  TssSpec => []TssInv
<1>1. TssInit => FlowInv
  BY TssStart
<1>2. AnyInv /\ FlowInv /\ [TssNext]_tssVars => FlowInv'
  <2>1. ASSUME AnyInv, FlowInv, TssNext PROVE FlowInv'
    <3>1. CallInv /\ RegInv /\ UnitInv
      BY <2>1 DEF AnyInv
    <3>2. Cpu /\ Slave /\ Serializer /\ Stack
      BY <2>1 DEF TssNext
    <3> QED  BY <2>1, <3>1, <3>2, FlowInvKept
  <2>2. ASSUME FlowInv, UNCHANGED tssVars PROVE FlowInv'
    BY <2>2 DEF FlowInv, Idle, Announced, Sending, Stopping, Loaded, Room, ToCome, Shown, Pending,
                Coming, AtSerializer, Started, tssVars, tssCpu, tssRegs, tssSer, tssStack
  <2> QED  BY <2>1, <2>2
<1>3. TssInv <=> AnyInv /\ FlowInv
  BY DEF TssInv, AnyInv
<1> QED  BY <1>1, <1>2, <1>3, TssAnyInvariant, PTL DEF TssSpec

(* Until a FIFO fills, the commands typed leave in order, each whole and   *)
(* once, with its own parameters and delta time, for every length of the   *)
(* commands, every depth of the FIFOs and every sequence of calls          *)
(* (serializer.sv:49-105, tss_drv.c:40-41).                                *)
THEOREM CommandsStayWhole ==
  ASSUME Unhurried
  PROVE  TssSpec => WholeCommands
<1> DEFINE Whole == Taken /\ ~full =>
                      /\ done < Len(want) /\ tmp = want[done + 1]
                      /\ cnt = IF seen.last THEN 0 ELSE seen.at + 1
                      /\ ser = "LAST" <=> cnt = LastByte(tmp.kind)
<1>1. TssInv => Whole
  <2> SUFFICES ASSUME TssInv, Taken, ~full
               PROVE  /\ done < Len(want) /\ tmp = want[done + 1]
                      /\ cnt = IF seen.last THEN 0 ELSE seen.at + 1
                      /\ ser = "LAST" <=> cnt = LastByte(tmp.kind)
    OBVIOUS
  <2>1. tvalid /\ (Idle \/ Announced \/ Sending \/ Stopping)
    BY DEF TssInv, FlowInv, Taken
  <2>2. Announced \/ Sending
    BY <2>1 DEF tvalid, Idle, Stopping
  <2>3. Loaded
    BY <2>2 DEF Announced, Sending
  <2>4. done < Len(want) /\ tmp = want[done + 1] /\ tmp.kind \in Kinds
    <3>1. Len(want) \in Nat /\ done \in Nat /\ Pending \in {0, 1} /\ Len(want) - Pending = done + 1
      BY <2>3 DEF TssInv, UnitInv, Loaded, Shown, Pending
    <3> QED  BY <2>3, <3>1 DEF Loaded
  <2>5. cnt = IF seen.last THEN 0 ELSE seen.at + 1
    BY <2>2 DEF Announced, Sending
  <2>6. ser = "LAST" <=> cnt = LastByte(tmp.kind)
    <3>1. CASE Announced
      BY <2>4, <3>1, LastByteIs, Numbers DEF Announced, Kinds
    <3>2. CASE Sending
      BY <2>4, <3>2, LastByteIs, Numbers DEF Sending
    <3> QED  BY <2>2, <3>1, <3>2
  <2> QED  BY <2>4, <2>5, <2>6
<1>2. TssInv /\ [TssNext]_tssVars => [Whole]_tssVars
  BY <1>1
<1> HIDE DEF Whole
<1>3. TssSpec => [][Whole]_tssVars
  BY <1>2, TssInvariant, PTL DEF TssSpec
<1> QED  BY <1>3 DEF WholeCommands, Whole
=============================================================================
