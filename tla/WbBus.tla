------------------------------- MODULE WbBus -------------------------------
(***************************************************************************)
(* The Wishbone models of the testbenches, i2c_alex/tb/wb.py: a WBMaster   *)
(* facing a WBRam.  One step is an edge of the clock, at which both act on *)
(* the signals before it, or the answer of an asynchronous RAM, or a call. *)
(***************************************************************************)
EXTENDS Integers, Sequences

CONSTANTS
  Shapes,     \* pairs <<ww, ws>>: words of the bus and bytes of a word
  WbLatencies,
  WbSize,     \* bytes of the RAM
  WbWrites,   \* pairs <<address, bytes>> for init_write
  WbReads,    \* pairs <<address, length>> for init_read
  MaxWbCalls  \* bound

ASSUME WbAssumption ==
  /\ \A s \in Shapes : {s[1], s[2]} \subseteq Nat \ {0} /\ WbSize % (s[1] * s[2]) = 0
  /\ WbLatencies \subseteq Nat /\ MaxWbCalls \in Nat
  /\ WbSize \in Nat
  /\ \A w \in WbWrites :
       w[1] \in Nat /\ w[2] \in Seq(Int) \ {<< >>} /\ w[1] + Len(w[2]) <= WbSize
  /\ \A r \in WbReads : r[1] \in Nat /\ r[2] \in Nat \ {0} /\ r[1] + r[2] <= WbSize

VARIABLES
  shape, asynchronous, latency,      \* parameters of create_logic and create_port
  wb_commands, wb_data, order, nth,  \* WBMaster: queues, the command, its cycle
  wb_pc, so_far,
  cyc, stb, we, adr, dat_o, sel,     \* its signals
  ack, dat_i, wb_wait,               \* the signals and the latency left of WBRam
  wb_ram,
  wb_wanted, asked, served,          \* history: what the calls are to do, cycles
  wb_calls

wbParams  == <<shape, asynchronous, latency>>
wbMaster  == <<wb_commands, wb_data, order, nth, wb_pc, so_far, cyc, stb, we, adr, dat_o, sel>>
wbRamVars == <<ack, dat_i, wb_wait, wb_ram, served>>
wbVars    == <<wbParams, wbMaster, wbRamVars, wb_wanted, asked, wb_calls>>

ww == shape[1]
ws == shape[2]
width == ww * ws
NoOrder == [rw |-> "r", addr |-> 0, data |-> << >>, length |-> 0]
NotWaiting == -1

WbInit ==
  /\ shape \in Shapes /\ asynchronous \in BOOLEAN /\ latency \in WbLatencies
  /\ wb_commands = << >> /\ wb_data = << >> /\ order = NoOrder /\ nth = 0
  /\ wb_pc = "idle" /\ so_far = << >>
  /\ cyc = FALSE /\ stb = FALSE /\ we = FALSE /\ adr = 0 /\ dat_o = << >> /\ sel = {}
  /\ ack = FALSE /\ dat_i = << >> /\ wb_wait = NotWaiting
  /\ wb_ram = [a \in 0 .. WbSize - 1 |-> 0]
  /\ wb_wanted = [ram |-> wb_ram, reads |-> << >>]
  /\ asked = 0 /\ served = 0 /\ wb_calls = 0
-----------------------------------------------------------------------------
(***************************************************************************)
(* The cycles of a command: from the lane of the first byte to the lane of *)
(* the last.  A word is selected as a whole.                               *)
(***************************************************************************)
Cycles(c) == (c.length + width - 1 + (c.addr % width)) \div width
FirstLane(c, k) == IF k = 1 THEN c.addr % width ELSE 0
LastLane(c, k)  == IF k = Cycles(c) THEN (c.addr + c.length - 1) % width ELSE width - 1
BusLanes(c, k) == FirstLane(c, k) .. LastLane(c, k)
ByteAt(c, k, lane) == (k - 1) * width + lane - (c.addr % width) + 1

Sel(c, k) == { lane \div ws : lane \in BusLanes(c, k) }

Present(c, k) ==
  /\ stb' = TRUE /\ we' = (c.rw = "w")
  /\ adr' = ((c.addr \div width) + k - 1) * ww
  /\ sel' = Sel(c, k)
  /\ dat_o' = IF c.rw = "r" THEN dat_o
              ELSE [lane \in 0 .. width - 1 |->
                      IF lane \in BusLanes(c, k) THEN c.data[ByteAt(c, k, lane)] ELSE 0]
  /\ nth' = k /\ wb_pc' = "wait" /\ asked' = asked + 1

(* WBMaster at an edge.                                                    *)
MasterIdles ==
  /\ wb_pc = "idle" /\ wb_commands = << >>
  /\ UNCHANGED <<wbMaster, asked>>

MasterStarts ==
  /\ wb_pc = "idle" /\ wb_commands # << >>
  /\ order' = Head(wb_commands) /\ wb_commands' = Tail(wb_commands)
  /\ cyc' = TRUE /\ so_far' = << >>
  /\ Present(order', 1)
  /\ UNCHANGED wb_data

MasterWaits == wb_pc = "wait" /\ ~ack /\ UNCHANGED <<wbMaster, asked>>

MasterTakes ==
  /\ wb_pc = "wait" /\ ack
  /\ stb' = FALSE /\ we' = FALSE
  /\ LET from == FirstLane(order, nth)
         data == IF order.rw = "w" THEN << >>
                 ELSE so_far \o [i \in 1 .. LastLane(order, nth) + 1 - from |-> dat_i[from + i - 1]]
         last == nth = Cycles(order)
     IN  /\ so_far' = data
         /\ cyc' = ~last
         /\ wb_pc' = IF last THEN "idle" ELSE "next"
         /\ wb_data' = IF last /\ order.rw = "r" THEN Append(wb_data, <<order.addr, data>>)
                       ELSE wb_data
  /\ UNCHANGED <<wb_commands, order, nth, adr, dat_o, sel, asked>>

MasterGoesOn ==
  /\ wb_pc = "next" /\ Present(order, nth + 1)
  /\ UNCHANGED <<wb_commands, wb_data, order, so_far, cyc>>

Master == MasterIdles \/ MasterStarts \/ MasterWaits \/ MasterTakes \/ MasterGoesOn
-----------------------------------------------------------------------------
(***************************************************************************)
(* WBRam: sees a request, and after its latency serves it.                 *)
(***************************************************************************)
(* Mutant: the request that is being acknowledged is seen once more.       *)
StillSeen == cyc /\ stb

Seen == cyc /\ stb /\ ~ack

Serve ==
  LET base == (((adr \div ww) * ww) * ws) % WbSize
  IN  /\ ack' = TRUE /\ wb_wait' = NotWaiting /\ served' = served + 1
      /\ IF we
         THEN /\ wb_ram' = [a \in DOMAIN wb_ram |->
                              IF a \in base .. base + width - 1 /\ ((a - base) \div ws) \in sel
                              THEN dat_o[a - base] ELSE wb_ram[a]]
              /\ UNCHANGED dat_i
         ELSE /\ dat_i' = [lane \in 0 .. width - 1 |-> wb_ram[base + lane]]
              /\ UNCHANGED wb_ram

RamIdles == wb_wait = NotWaiting /\ ~Seen /\ ack' = FALSE
            /\ UNCHANGED <<dat_i, wb_wait, wb_ram, served>>
RamSees  == wb_wait = NotWaiting /\ Seen /\ latency > 0
            /\ ack' = FALSE /\ wb_wait' = latency - 1 /\ UNCHANGED <<dat_i, wb_ram, served>>
RamWaits == wb_wait > 0 /\ wb_wait' = wb_wait - 1 /\ UNCHANGED <<ack, dat_i, wb_ram, served>>
RamServes == (wb_wait = 0 \/ (wb_wait = NotWaiting /\ Seen /\ latency = 0)) /\ Serve

Edge == ~asynchronous /\ Master /\ (RamIdles \/ RamSees \/ RamWaits \/ RamServes)
        /\ UNCHANGED <<wbParams, wb_wanted, wb_calls>>

(* An asynchronous RAM is woken by the signals: it answers between edges   *)
(* and withdraws the answer when the request goes.                         *)
EdgeOfMaster ==
  /\ asynchronous /\ Master
  /\ ack' = (ack /\ stb')
  /\ UNCHANGED <<wbParams, dat_i, wb_wait, wb_ram, served, wb_wanted, wb_calls>>

Answers ==
  /\ asynchronous /\ Seen /\ Serve
  /\ UNCHANGED <<wbParams, wbMaster, wb_wanted, asked, wb_calls>>
-----------------------------------------------------------------------------
(* The calls.  Where a word has several bytes they are made in words: a    *)
(* byte of a word cannot be selected, and the master fills up with zeros.  *)
Whole(addr, length) == addr % ws = 0 /\ length % ws = 0

(* What a command does to a RAM and the data read so far.                  *)
Done(s, c) ==
  [ram   |-> [a \in DOMAIN s.ram |->
                IF c.rw = "w" /\ a \in c.addr .. c.addr + c.length - 1
                THEN c.data[a - c.addr + 1] ELSE s.ram[a]],
   reads |-> IF c.rw = "w" THEN s.reads
             ELSE Append(s.reads, <<c.addr, [i \in 1 .. c.length |-> s.ram[c.addr + i - 1]]>>)]

init_wb(c) ==
  /\ wb_calls < MaxWbCalls /\ wb_calls' = wb_calls + 1
  /\ Whole(c.addr, c.length)
  /\ wb_commands' = Append(wb_commands, c) /\ wb_wanted' = Done(wb_wanted, c)
  /\ UNCHANGED <<wbParams, wb_data, order, nth, wb_pc, so_far, cyc, stb, we, adr, dat_o,
                 sel, wbRamVars, asked>>

init_wb_write ==
  \E w \in WbWrites :
    init_wb([rw |-> "w", addr |-> w[1], data |-> w[2], length |-> Len(w[2])])

init_wb_read ==
  \E r \in WbReads : init_wb([rw |-> "r", addr |-> r[1], data |-> << >>, length |-> r[2]])

WbNext == Edge \/ EdgeOfMaster \/ Answers \/ init_wb_write \/ init_wb_read

WbSpec == WbInit /\ [][WbNext]_wbVars
-----------------------------------------------------------------------------
wb_idle == wb_commands = << >> /\ ~cyc

(* When the master says that it is idle, every cycle it asked for was      *)
(* served, and once; the RAM holds what the writes wrote and nothing       *)
(* beside, and every read brought what the commands before it left -       *)
(* for any latency, clocked or not (wb.py:69-70,139-310,394-440).          *)
WbAsCommanded ==
  wb_idle => served = asked /\ wb_ram = wb_wanted.ram /\ wb_data = wb_wanted.reads
=============================================================================
