-------------------------------- MODULE TssTx --------------------------------
(***************************************************************************)
(* The way of a TSS command from the console (fw/tss_drv.c) to the UDP     *)
(* stack: sendCommand writes the registers of rtl/tss/computer_slave.sv    *)
(* over the bus, the control register raises a command for one clock, and  *)
(* rtl/tss/serializer.sv cuts it into bytes.  rtl/gmii_udp_loopback.v      *)
(* announces a header where tvalid rises, and                              *)
(* udp_alex/udp/rtl/udp_checksum_gen.v takes the bytes of a frame after    *)
(* its header.  One step is one edge of gmii_tx_clk.                       *)
(*                                                                         *)
(* Data is the number of the call it was typed for: a register holds the   *)
(* call that wrote it, and a byte is its position in its command.          *)
(***************************************************************************)
EXTENDS Integers, Sequences

CONSTANTS
  ComBytes,  \* position of the last byte of a START (COM_WIDTH_DIV / 8 = 33)
  TmBytes,   \* of a STOP or CONTINUE (TM_WIDTH_DIV / 8 = 9)
  CntMod,    \* values of command_cnt, in bytes (64)
  Depth,     \* bytes of the payload FIFO (2048)
  HdrDepth,  \* headers of the header FIFO (8)
  Typing,    \* clocks getParams takes at the least: eight numbers typed
  MaxCalls   \* bound: calls of sendCommand

ASSUME TssAssumption ==
  /\ {ComBytes, TmBytes, CntMod, Depth, HdrDepth, Typing, MaxCalls} \subseteq Nat \ {0}
  /\ 1 < TmBytes /\ TmBytes < ComBytes /\ ComBytes < CntMod - 1

VARIABLES
  todo, busy, access,    \* registers left to write; clocks left of an access, and its register
  typed, since, calls,   \* what was typed; clocks since the last call, up to Typing
  param, user_delta, control, \* the registers
  command,               \* command_o
  ser, tmp, cnt,         \* serializer: state, tmp, command_cnt
  tvalid_int,            \* the glue logic's copy of tvalid
  sum, hdr_ready, sum_hdr_valid, \* udp_checksum_gen: state_reg and two registers
  fifo, hdrs, taking,    \* payload FIFO (its tlast flags), header FIFO, IP side inside a frame
  want, latest,          \* history: the commands typed, the last delta time that is not 0
  seen, done,            \* history: the byte taken last, the commands taken
  full                   \* history: a FIFO was full

tssCpu   == <<todo, busy, access, typed, since, calls>>
tssRegs  == <<param, user_delta, control, command>>
tssSer   == <<ser, tmp, cnt>>
tssStack == <<tvalid_int, sum, hdr_ready, sum_hdr_valid, fifo, hdrs, taking>>
tssVars  == <<tssCpu, tssRegs, tssSer, tssStack, want, latest, seen, done, full>>
-----------------------------------------------------------------------------
Kinds  == {"START", "STOP", "CONTINUE", "ABORT"}
Fields == {"SLICE", "FRAME", "BATCH", "SEQ", "INTV", "LAST"}
Steady == [f \in Fields |-> 0]

NoCommand == [kind |-> "none", param |-> Steady, delta |-> 0]
NoByte    == [cmd |-> NoCommand, at |-> 0, last |-> TRUE]

(* What the call n promises: its own parameters and the delta in force.    *)
Command(k, p, d) ==
  CASE k = "START"              -> [kind |-> k, param |-> p, delta |-> d]
    [] k \in {"STOP", "CONTINUE"} -> [kind |-> k, param |-> Steady, delta |-> d]
    [] k = "ABORT"              -> [kind |-> k, param |-> Steady, delta |-> 0]
    [] OTHER                    -> NoCommand

LastByte(k) == CASE k = "START" -> ComBytes
                 [] k = "ABORT" -> 1
                 [] OTHER       -> TmBytes

TssInit ==
  /\ todo = << >> /\ busy = 0 /\ access = "none"
  /\ typed = [kind |-> "none", delta |-> 0] /\ since = Typing /\ calls = 0
  /\ param = Steady /\ user_delta = 0 /\ control = "none" /\ command = NoCommand
  /\ ser = "IDLE" /\ tmp = NoCommand /\ cnt = 0
  /\ tvalid_int = FALSE /\ sum = "IDLE" /\ hdr_ready = FALSE /\ sum_hdr_valid = FALSE
  /\ fifo = << >> /\ hdrs = 0 /\ taking = FALSE
  /\ want = << >> /\ latest = 0 /\ seen = NoByte /\ done = 0 /\ full = FALSE
-----------------------------------------------------------------------------
(***************************************************************************)
(* The firmware and the bus.                                               *)
(***************************************************************************)

(* Mutant: the user delta time is written before the control register.     *)
ProgramDeltaFirst(d) ==
  <<"SLICE", "FRAME", "BATCH", "SEQ", "INTV", "LAST">>
    \o (IF d # 0 THEN <<"DELTA">> ELSE << >>) \o <<"CTRL">>

(* The user delta time comes after the command, and only if it is not 0.   *)
Program(d) ==
  <<"SLICE", "FRAME", "BATCH", "SEQ", "INTV", "LAST", "CTRL">>
    \o (IF d # 0 THEN <<"DELTA">> ELSE << >>)

(* A call takes hold of what was typed; the command to come carries the    *)
(* delta time of an earlier call, the last one that was not 0.             *)
sendCommand(k, d) ==
  /\ todo = << >> /\ busy = 0 /\ since = Typing /\ calls < MaxCalls
  /\ typed' = [kind |-> k, delta |-> d]
  /\ todo' = Program(d)
  /\ calls' = calls + 1 /\ since' = 0
  /\ want' = IF k \in Kinds
             THEN Append(want, Command(k, [f \in Fields |-> calls + 1], latest))
             ELSE want
  /\ latest' = IF d = 0 THEN latest ELSE d
  /\ UNCHANGED <<busy, access>>

(* An access: strobe and write enable for two clocks, then WBEND and IDLE. *)
Access ==
  /\ todo # << >> /\ busy = 0
  /\ busy' = 4 /\ access' = Head(todo) /\ todo' = Tail(todo)
  /\ UNCHANGED <<typed, since, calls, want, latest>>

Wait ==
  /\ busy > 0 \/ todo = << >>
  /\ busy' = IF busy > 0 THEN busy - 1 ELSE 0
  /\ since' = IF since < Typing /\ todo = << >> THEN since + 1 ELSE since
  /\ UNCHANGED <<todo, access, typed, calls, want, latest>>

Cpu == \/ \E k \in Kinds \cup {"other"}, d \in {0, calls + 1} : sendCommand(k, d)
       \/ Access \/ Wait

wbs_stb == busy > 2

(* Mutant: the control register keeps its value until the next access.     *)
ControlHeld == control' = IF wbs_stb THEN IF access = "CTRL" THEN typed.kind ELSE "none"
                          ELSE control

(* The control register is cleared on the first clock without a strobe.    *)
Control == control' = IF ~wbs_stb THEN "none"
                      ELSE IF access = "CTRL" THEN typed.kind ELSE control

(* computer_slave: an access is written on both clocks of its strobe, and  *)
(* command_o follows the registers while nothing is written.               *)
Slave ==
  /\ Control
  /\ param' = IF wbs_stb /\ access \in Fields
              THEN [param EXCEPT ![access] = calls] ELSE param
  /\ user_delta' = IF wbs_stb /\ access = "DELTA" THEN typed.delta ELSE user_delta
  /\ command' = IF wbs_stb THEN command ELSE Command(control, param, user_delta)
-----------------------------------------------------------------------------
(***************************************************************************)
(* The serialiser.                                                         *)
(***************************************************************************)
tvalid == ser \in {"HEADER_CHECK", "START_OF_SEQ", "STOP_OF_SEQ", "LAST"}

(* Mutant: a full FIFO does not hold the serialiser.                       *)
TreadyAlways == sum = "SUM_PAYLOAD"

tready == sum = "SUM_PAYLOAD" /\ Len(fifo) < Depth
Taken  == tvalid /\ tready
Byte   == [cmd |-> tmp, at |-> cnt, last |-> ser = "LAST"]

(* Mutant: a START ends one byte early.                                    *)
LastNextEarly ==
  \/ ser = "START_OF_SEQ" /\ cnt >= ComBytes - 2
  \/ ser = "STOP_OF_SEQ"  /\ cnt >= TmBytes - 1

(* The byte before the last.                                               *)
LastNext ==
  \/ ser = "START_OF_SEQ" /\ cnt >= ComBytes - 1
  \/ ser = "STOP_OF_SEQ"  /\ cnt >= TmBytes - 1

(* A command is seen in IDLE only.                                         *)
State ==
  /\ ser' = CASE ser = "IDLE" -> IF command.kind # "none" THEN "HEADER_CHECK" ELSE "IDLE"
              [] ser = "HEADER_CHECK" /\ tready ->
                   (CASE tmp.kind = "START" -> "START_OF_SEQ"
                      [] tmp.kind = "ABORT" -> "LAST"
                      [] OTHER              -> "STOP_OF_SEQ")
              [] ser \in {"START_OF_SEQ", "STOP_OF_SEQ"} /\ tready /\ LastNext -> "LAST"
              [] ser = "LAST" /\ tready -> "STOP"
              [] ser = "STOP" -> "IDLE"
              [] OTHER -> ser
  /\ tmp' = CASE ser = "IDLE" /\ command.kind # "none" -> command
              [] ser = "STOP" -> NoCommand
              [] OTHER -> tmp

(* Mutant: the counter is not cleared after an ABORT.                      *)
CountNoAbort ==
  cnt' = IF ser = "LAST" /\ cnt \in {ComBytes, TmBytes} THEN 0
         ELSE IF Taken THEN (cnt + 1) % CntMod ELSE cnt

(* In LAST the counter is cleared whether or not the byte is taken.        *)
Count ==
  cnt' = IF ser = "LAST" /\ cnt \in {ComBytes, TmBytes, 1} THEN 0
         ELSE IF Taken THEN (cnt + 1) % CntMod ELSE cnt

Serializer ==
  /\ State /\ Count
  /\ seen' = IF Taken THEN Byte ELSE seen
  /\ done' = IF Taken /\ ser = "LAST" THEN done + 1 ELSE done
-----------------------------------------------------------------------------
(***************************************************************************)
(* The header, the checksum and the FIFOs.                                 *)
(***************************************************************************)
hdr_pulse == tvalid /\ ~tvalid_int

(* A header is taken in IDLE, when hdr_ready of the clock before says so.  *)
Checksum ==
  /\ hdr_ready' = (sum = "IDLE" /\ hdrs < HdrDepth /\ ~(hdr_ready /\ hdr_pulse))
  /\ sum' = CASE sum = "IDLE" -> IF hdr_ready /\ hdr_pulse THEN "SUM_HEADER_1" ELSE "IDLE"
              [] sum = "SUM_HEADER_1" -> "SUM_HEADER_2"
              [] sum = "SUM_HEADER_2" -> "SUM_HEADER_3"
              [] sum = "SUM_HEADER_3" -> "SUM_PAYLOAD"
              [] sum = "SUM_PAYLOAD" -> IF Taken /\ ser = "LAST" THEN "FINISH_SUM" ELSE sum
              [] sum = "FINISH_SUM" -> "IDLE"
  /\ sum_hdr_valid' = (sum = "FINISH_SUM")

Put    == IF Taken THEN <<ser = "LAST">> ELSE << >>
Stored == IF sum_hdr_valid /\ hdrs < HdrDepth THEN 1 ELSE 0

(* The IP side takes a header, then the bytes of its frame, or waits.      *)
IpHeader == /\ ~taking /\ hdrs > 0 /\ taking' = TRUE
            /\ hdrs' = hdrs - 1 + Stored /\ fifo' = fifo \o Put

IpByte   == /\ taking /\ fifo # << >> /\ taking' = ~Head(fifo)
            /\ hdrs' = hdrs + Stored /\ fifo' = Tail(fifo) \o Put

IpWait   == hdrs' = hdrs + Stored /\ fifo' = fifo \o Put /\ UNCHANGED taking

(* Mutant: the copy of tvalid does not fall with it.                       *)
GlueSticky == tvalid_int' = (tvalid \/ tvalid_int)

Glue == tvalid_int' = tvalid

Stack ==
  /\ Glue /\ Checksum
  /\ IpHeader \/ IpByte \/ IpWait
  /\ full' = (full \/ Len(fifo) = Depth \/ hdrs = HdrDepth)

TssNext == Slave /\ Serializer /\ Stack /\ Cpu

(* The clock runs.                                                         *)
TssSpec == TssInit /\ [][TssNext]_tssVars /\ WF_tssVars(TssNext)
-----------------------------------------------------------------------------
TssTypeOK ==
  /\ busy \in 0 .. 4 /\ since \in 0 .. Typing /\ calls \in 0 .. MaxCalls
  /\ param \in [Fields -> 0 .. MaxCalls] /\ {user_delta, latest} \subseteq 0 .. MaxCalls
  /\ control \in Kinds \cup {"none", "other"}
  /\ {command, tmp, seen.cmd} \subseteq
       [kind : Kinds \cup {"none"}, param : [Fields -> 0 .. MaxCalls], delta : 0 .. MaxCalls]
  /\ cnt \in 0 .. CntMod - 1 /\ Len(fifo) <= Depth /\ hdrs \in 0 .. HdrDepth
  /\ done <= Len(want)

(* Until a FIFO fills, the bytes the stack takes are the commands typed,   *)
(* in order, each whole and once: with the parameters of its own call, all *)
(* its bytes in their places and tlast on the last, although a command is  *)
(* on command_o for one clock, is seen in IDLE only, and its header is     *)
(* announced by a pulse; its delta time is that of the last earlier call   *)
(* that gave one (serializer.sv:49-105, tss_drv.c:40-41).                  *)
WholeCommands ==
  [][Taken /\ ~full =>
       /\ done < Len(want) /\ tmp = want[done + 1]
       /\ cnt = IF seen.last THEN 0 ELSE seen.at + 1
       /\ ser = "LAST" <=> cnt = LastByte(tmp.kind)]_tssVars

(* Until a FIFO fills, every command typed leaves: the serialiser and the  *)
(* checksum generator never wait for each other                            *)
(* (gmii_udp_loopback.v:182, udp_checksum_gen.v:440-476).                  *)
CommandsLeave == done < Len(want) ~> (done = Len(want) \/ full)
=============================================================================
