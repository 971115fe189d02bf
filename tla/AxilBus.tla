------------------------------ MODULE AxilBus ------------------------------
(***************************************************************************)
(* The AXI4-Lite models of the testbenches, i2c_alex/tb/axil.py: an        *)
(* AXILiteMaster facing an AXILiteRam.  Calls are split into words; five   *)
(* channels carry them, each at its own pace.  Any side of any channel may *)
(* pause on any clock and the latency is a parameter, so that one step is  *)
(* one transfer of a channel, the end of a latency, or what the master     *)
(* does with an answer; valid and ready are what its guard says.           *)
(***************************************************************************)
EXTENDS Integers, Sequences

CONSTANTS
  BusBytes,    \* bytes of a word
  RamSize,     \* bytes of the RAM
  AxilWrites,  \* pairs <<address, bytes>> for init_write
  AxilReads,   \* pairs <<address, length>> for init_read
  MaxOps       \* bound: calls

ASSUME AxilAssumption ==
  /\ BusBytes \in Nat \ {0} /\ RamSize \in Nat \ {0} /\ RamSize % BusBytes = 0
  /\ MaxOps \in Nat
  /\ \A w \in AxilWrites :
       w[1] \in Nat /\ w[2] \in Seq(Int) \ {<< >>} /\ w[1] + Len(w[2]) <= RamSize
  /\ \A r \in AxilReads : r[1] \in Nat /\ r[2] \in Nat \ {0} /\ r[1] + r[2] <= RamSize

VARIABLES
  int_write_addr_queue, int_write_data_queue, int_write_resp_queue,
  int_write_resp_command_queue, write_resp_queue,
  int_read_addr_queue, int_read_resp_queue,
  int_read_resp_command_queue, read_data_ops,
  in_flight_operations,
  wpc, waddr, rpc, raddr, rdata,   \* AXILiteRam: its two processes
  pos, ram,                        \* the position in its file, and the file
  wanted_ram,                      \* history: the writes called, done one by one
  moved,                           \* history: a read came between the seek and the write
  ops_made

masterWrites == <<int_write_addr_queue, int_write_data_queue, int_write_resp_queue,
                  int_write_resp_command_queue, write_resp_queue>>
masterReads  == <<int_read_addr_queue, int_read_resp_queue,
                  int_read_resp_command_queue, read_data_ops>>
ramWrites    == <<wpc, waddr>>
ramReads     == <<rpc, raddr, rdata>>
axilVars     == <<masterWrites, masterReads, in_flight_operations, ramWrites, ramReads,
                  pos, ram, wanted_ram, moved, ops_made>>

AxilInit ==
  /\ int_write_addr_queue = << >> /\ int_write_data_queue = << >>
  /\ int_write_resp_queue = << >> /\ int_write_resp_command_queue = << >>
  /\ write_resp_queue = << >>
  /\ int_read_addr_queue = << >> /\ int_read_resp_queue = << >>
  /\ int_read_resp_command_queue = << >> /\ read_data_ops = << >>
  /\ in_flight_operations = 0
  /\ wpc = "aw" /\ waddr = 0 /\ rpc = "ar" /\ raddr = 0 /\ rdata = << >>
  /\ pos = 0 /\ ram = [a \in 0 .. RamSize - 1 |-> 0]
  /\ wanted_ram = ram /\ moved = FALSE /\ ops_made = 0
-----------------------------------------------------------------------------
(***************************************************************************)
(* The words of a call: the first starts, the last ends inside a word.     *)
(***************************************************************************)
cycles(addr, length) == (length + BusBytes - 1 + (addr % BusBytes)) \div BusBytes
start(addr, k) == IF k = 1 THEN addr % BusBytes ELSE 0

(* Mutant: the last word is written and read to its end.                   *)
ToTheEnd(addr, length, k) == BusBytes

stop(addr, length, k) ==
  IF k = cycles(addr, length) THEN ((addr + length - 1) % BusBytes) + 1 ELSE BusBytes

(* The address of word k; the bytes of it that are written, by lane.       *)
WordAddr(addr, k) == ((addr \div BusBytes) * BusBytes) + start(addr, k) + (k - 1) * BusBytes
Word(addr, data, k) ==
  [j \in start(addr, k) .. stop(addr, Len(data), k) - 1 |->
     LET i == (k - 1) * BusBytes + j - (addr % BusBytes) + 1
     IN  IF i \in DOMAIN data THEN data[i] ELSE 0]

Changed(m, addr, data) ==
  [a \in DOMAIN m |-> IF a \in addr .. addr + Len(data) - 1 THEN data[a - addr + 1] ELSE m[a]]

(* The calls; write_logic and read_logic split them at once.               *)
init_axil_write ==
  \E w \in AxilWrites :
    LET n == cycles(w[1], Len(w[2]))
    IN  /\ ops_made < MaxOps /\ ops_made' = ops_made + 1
        /\ int_write_addr_queue' = int_write_addr_queue \o [k \in 1 .. n |-> WordAddr(w[1], k)]
        /\ int_write_data_queue' = int_write_data_queue \o [k \in 1 .. n |-> Word(w[1], w[2], k)]
        /\ int_write_resp_command_queue' = Append(int_write_resp_command_queue, n)
        /\ in_flight_operations' = in_flight_operations + 1
        /\ wanted_ram' = Changed(wanted_ram, w[1], w[2])
        /\ UNCHANGED <<int_write_resp_queue, write_resp_queue, masterReads, ramWrites,
                       ramReads, pos, ram, moved>>

(* seen is a history variable: what each byte was since the call.          *)
init_axil_read ==
  \E r \in AxilReads :
    LET n == cycles(r[1], r[2])
    IN  /\ ops_made < MaxOps /\ ops_made' = ops_made + 1
        /\ int_read_addr_queue' = int_read_addr_queue \o [k \in 1 .. n |-> WordAddr(r[1], k)]
        /\ int_read_resp_command_queue' =
             Append(int_read_resp_command_queue,
                    [addr |-> r[1], length |-> r[2], k |-> 1, data |-> << >>,
                     seen |-> [i \in 1 .. r[2] |-> {ram[r[1] + i - 1]}]])
        /\ in_flight_operations' = in_flight_operations + 1
        /\ UNCHANGED <<masterWrites, int_read_resp_queue, read_data_ops, ramWrites,
                       ramReads, pos, ram, wanted_ram, moved>>
-----------------------------------------------------------------------------
(***************************************************************************)
(* AXILiteRam.write_logic: an address, the latency and the seek, the data, *)
(* the response.  It and read_logic share the file, and so its position.   *)
(***************************************************************************)
TakeAw ==
  /\ wpc = "aw" /\ int_write_addr_queue # << >>
  /\ waddr' = (Head(int_write_addr_queue) \div BusBytes) * BusBytes
  /\ int_write_addr_queue' = Tail(int_write_addr_queue)
  /\ wpc' = "latency"
  /\ UNCHANGED <<int_write_data_queue, int_write_resp_queue, int_write_resp_command_queue,
                 write_resp_queue, masterReads, in_flight_operations, ramReads,
                 pos, ram, wanted_ram, moved, ops_made>>

Seek ==
  /\ wpc = "latency" /\ wpc' = "w"
  /\ pos' = waddr % RamSize
  /\ UNCHANGED <<masterWrites, masterReads, in_flight_operations, waddr, ramReads,
                 ram, wanted_ram, moved, ops_made>>

(* The bytes go where the file stands; past its end is an exception.       *)
TakeW ==
  /\ wpc = "w" /\ int_write_data_queue # << >> /\ pos + BusBytes <= RamSize
  /\ LET word == Head(int_write_data_queue)
     IN  ram' = [a \in DOMAIN ram |-> IF a - pos \in DOMAIN word THEN word[a - pos] ELSE ram[a]]
  /\ pos' = pos + BusBytes
  /\ int_write_data_queue' = Tail(int_write_data_queue)
  /\ int_read_resp_command_queue' =
       [c \in DOMAIN int_read_resp_command_queue |->
          [int_read_resp_command_queue[c] EXCEPT
             !.seen = [i \in DOMAIN @ |->
                         @[i] \cup {ram'[int_read_resp_command_queue[c].addr + i - 1]}]]]
  /\ wpc' = "b"
  /\ UNCHANGED <<int_write_addr_queue, int_write_resp_queue, int_write_resp_command_queue,
                 write_resp_queue, int_read_addr_queue, int_read_resp_queue, read_data_ops,
                 in_flight_operations, waddr, ramReads, wanted_ram, moved, ops_made>>

GiveB ==
  /\ wpc = "b" /\ wpc' = "aw"
  /\ int_write_resp_queue' = Append(int_write_resp_queue, "OKAY")
  /\ UNCHANGED <<int_write_addr_queue, int_write_data_queue, int_write_resp_command_queue,
                 write_resp_queue, masterReads, in_flight_operations, waddr, ramReads,
                 pos, ram, wanted_ram, moved, ops_made>>

(* AXILiteRam.read_logic.                                                  *)
TakeAr ==
  /\ rpc = "ar" /\ int_read_addr_queue # << >>
  /\ raddr' = (Head(int_read_addr_queue) \div BusBytes) * BusBytes
  /\ int_read_addr_queue' = Tail(int_read_addr_queue)
  /\ rpc' = "latency"
  /\ UNCHANGED <<masterWrites, int_read_resp_queue, int_read_resp_command_queue,
                 read_data_ops, in_flight_operations, ramWrites, rdata,
                 pos, ram, wanted_ram, moved, ops_made>>

SeekRead ==
  /\ rpc = "latency" /\ rpc' = "r"
  /\ rdata' = [j \in 0 .. BusBytes - 1 |-> ram[(raddr % RamSize) + j]]
  /\ pos' = (raddr % RamSize) + BusBytes
  /\ moved' = (moved \/ wpc = "w")
  /\ UNCHANGED <<masterWrites, masterReads, in_flight_operations, ramWrites, raddr,
                 ram, wanted_ram, ops_made>>

GiveR ==
  /\ rpc = "r" /\ rpc' = "ar"
  /\ int_read_resp_queue' = Append(int_read_resp_queue, rdata)
  /\ UNCHANGED <<masterWrites, int_read_addr_queue, int_read_resp_command_queue,
                 read_data_ops, in_flight_operations, ramWrites, raddr, rdata,
                 pos, ram, wanted_ram, moved, ops_made>>
-----------------------------------------------------------------------------
(* The master counts the responses of its oldest write,                    *)
write_resp_logic ==
  /\ int_write_resp_command_queue # << >> /\ int_write_resp_queue # << >>
  /\ int_write_resp_queue' = Tail(int_write_resp_queue)
  /\ IF Head(int_write_resp_command_queue) > 1
     THEN /\ int_write_resp_command_queue' =
               [int_write_resp_command_queue EXCEPT ![1] = @ - 1]
          /\ UNCHANGED <<write_resp_queue, in_flight_operations>>
     ELSE /\ int_write_resp_command_queue' = Tail(int_write_resp_command_queue)
          /\ write_resp_queue' = Append(write_resp_queue, "OKAY")
          /\ in_flight_operations' = in_flight_operations - 1
  /\ UNCHANGED <<int_write_addr_queue, int_write_data_queue, masterReads, ramWrites,
                 ramReads, pos, ram, wanted_ram, moved, ops_made>>

(* and collects the words of its oldest read.                              *)
read_resp_logic ==
  /\ int_read_resp_command_queue # << >> /\ int_read_resp_queue # << >>
  /\ int_read_resp_queue' = Tail(int_read_resp_queue)
  /\ LET c == Head(int_read_resp_command_queue)
         from == start(c.addr, c.k)
         data == c.data \o [j \in 1 .. stop(c.addr, c.length, c.k) - from |->
                              Head(int_read_resp_queue)[from + j - 1]]
     IN  IF c.k < cycles(c.addr, c.length)
         THEN /\ int_read_resp_command_queue' =
                   [int_read_resp_command_queue EXCEPT ![1] = [c EXCEPT !.k = @ + 1, !.data = data]]
              /\ UNCHANGED <<read_data_ops, in_flight_operations>>
         ELSE /\ int_read_resp_command_queue' = Tail(int_read_resp_command_queue)
              /\ read_data_ops' = Append(read_data_ops, [data |-> data, seen |-> c.seen])
              /\ in_flight_operations' = in_flight_operations - 1
  /\ UNCHANGED <<masterWrites, int_read_addr_queue, ramWrites, ramReads,
                 pos, ram, wanted_ram, moved, ops_made>>

AxilNext == \/ init_axil_write \/ init_axil_read
            \/ TakeAw \/ Seek \/ TakeW \/ GiveB
            \/ TakeAr \/ SeekRead \/ GiveR
            \/ write_resp_logic \/ read_resp_logic

AxilSpec == AxilInit /\ [][AxilNext]_axilVars
-----------------------------------------------------------------------------
axil_idle == in_flight_operations = 0

(* When the master is idle every call was answered and the RAM holds what  *)
(* the writes wrote, no byte beside them touched; and a read brought for   *)
(* each byte a value that was there between the call and the answer, in    *)
(* whatever order the channels moved (axil.py:161-375,459-544).  But for   *)
(* moved: a read that comes between the seek of a write and its data makes *)
(* the write go elsewhere, as both use the position of one file.           *)
RamAsCommanded ==
  /\ axil_idle => Len(write_resp_queue) + Len(read_data_ops) = ops_made
  /\ axil_idle /\ ~moved => ram = wanted_ram
  /\ \A i \in DOMAIN read_data_ops :
       LET op == read_data_ops[i]
       IN  /\ Len(op.data) = Len(op.seen)
           /\ \A j \in DOMAIN op.data : op.data[j] \in op.seen[j]
=============================================================================
