------------------------------- MODULE I2cBus -------------------------------
(***************************************************************************)
(* The I2C models of the testbenches, i2c_alex/tb/i2c.py: an I2CMaster and *)
(* some I2CMem on the two wired-and lines SCL and SDA, as test_i2c.py      *)
(* connects them.  The master moves a line and waits for some clocks; the  *)
(* memories are woken by edges of the lines, answer at once, and those     *)
(* with a latency hold SCL low for as long as it takes.  One step is one   *)
(* move of the master with the answers of the memories, or the end of a    *)
(* latency, or a call of the testbench.                                    *)
(***************************************************************************)
EXTENDS Integers, Sequences, SequencesExt

CONSTANTS
  Devices,   \* addresses of the memories
  Slow,      \* those with a latency
  ByteBits,  \* bits of a byte (8)
  PtrBytes,  \* abw: bytes of the address pointer (2)
  Size,      \* bytes of a memory
  Writes,    \* pairs <<address, bytes>> for init_write
  Reads,     \* pairs <<address, length>> for init_read
  MaxCommands \* bound: calls

ASSUME I2cAssumption ==
  /\ Slow \subseteq Devices /\ Devices \subseteq 0 .. 2 ^ (ByteBits - 1) - 1
  /\ {ByteBits, PtrBytes, Size} \subseteq Nat \ {0} /\ MaxCommands \in Nat
  /\ \A w \in Writes : Len(w[2]) >= PtrBytes
  /\ \A r \in Reads : r[2] > 0

VARIABLES
  command_queue, i2c_busy, read_data_queue,  \* I2CMaster
  cmd, ops, step, got,                   \* the command under way, the bits left of it,
                                         \* the moves made of the first, the bits read
  line_state, m_scl, m_sda,
  mems,      \* I2CMem: what each waits for, and its side of the lines
  mem,       \* their memories
  wanted,    \* history: what the calls so far are to do
  unheard,   \* history: a start came where a memory expects none
  calls_made

i2cMaster == <<command_queue, i2c_busy, read_data_queue, cmd, ops, step, got,
               line_state, m_scl, m_sda>>
i2cVars   == <<i2cMaster, mems, mem, wanted, unheard, calls_made>>
-----------------------------------------------------------------------------
BitsOf(v)  == [i \in 1 .. ByteBits |-> (v \div 2 ^ (ByteBits - i)) % 2]
ValueOf(b)  == FoldLeft(LAMBDA v, x : 2 * v + x, 0, b)
BytesOf(b)  == [i \in 1 .. Len(b) \div ByteBits |->
                  ValueOf(SubSeq(b, (i - 1) * ByteBits + 1, i * ByteBits))]

NoCmd == [rw |-> "none", a |-> 0, data |-> << >>, n |-> 0]

(* The bits of a command: "0" and "1" are sent, "ack" and "get" received.  *)
SendByte(v) == [i \in 1 .. ByteBits |-> IF BitsOf(v)[i] = 1 THEN "1" ELSE "0"] \o << "ack" >>
ReceiveByte(last) == [i \in 1 .. ByteBits |-> "get"] \o << IF last THEN "1" ELSE "0" >>
OpsOf(c) ==
  << "start" >> \o
  IF c.rw = "w"
  THEN SendByte(2 * c.a) \o FlattenSeq([k \in DOMAIN c.data |-> SendByte(c.data[k])])
  ELSE SendByte(2 * c.a + 1) \o FlattenSeq([k \in 1 .. c.n |-> ReceiveByte(k = c.n)])

Silent == [pc |-> "idle", bits |-> << >>, of |-> "addr", ptr |-> 0, left |-> 0,
           scl |-> 1, sda |-> 1]
Blank == [d \in Devices |-> [a \in 0 .. Size - 1 |-> 0]]

I2cInit ==
  /\ command_queue = << >> /\ i2c_busy = FALSE /\ read_data_queue = << >>
  /\ cmd = NoCmd /\ ops = << >> /\ step = 0 /\ got = << >>
  /\ line_state = FALSE /\ m_scl = 1 /\ m_sda = 1
  /\ mems = [d \in Devices |-> Silent] /\ mem = Blank
  /\ wanted = [mem |-> Blank, ptr |-> [d \in Devices |-> 0], reads |-> << >>]
  /\ unheard = FALSE /\ calls_made = 0
-----------------------------------------------------------------------------
(***************************************************************************)
(* I2CMem.  pc names what it waits for: "idle" a start; "addr", "ptr" and  *)
(* "data" bits; "ack" and "acking" the clock of its acknowledge; "fetch"   *)
(* and "listen" the end of its latency; "send" the clocks of bits it sends *)
(* and "getack" the answer to them; "next" the clock after it.             *)
(***************************************************************************)
Listening(m, pc) == [m EXCEPT !.pc = pc, !.bits = << >>, !.sda = 1]

(* The byte at ptr, after the latency; its first bit at once.              *)
Answer(d, m) == [m EXCEPT !.pc = "send", !.bits = Tail(BitsOf(mem[d][m.ptr])),
                        !.sda = BitsOf(mem[d][m.ptr])[1], !.scl = 1]
Fetch(d, m) == IF d \in Slow THEN [m EXCEPT !.pc = "fetch", !.scl = 0, !.sda = 1]
               ELSE Answer(d, m)
Listen(d, m) == IF d \in Slow THEN [m EXCEPT !.pc = "listen", !.scl = 0, !.sda = 1]
                ELSE Listening(m, "data")

(* SCL rises: a bit is sampled.                                            *)
Rise(d, m, s) ==
  LET b == Append(m.bits, s)
  IN  CASE m.pc \in {"addr", "ptr", "data"} ->
             (IF Len(b) < ByteBits THEN [m EXCEPT !.bits = b]
              ELSE IF m.pc = "addr" /\ ValueOf(b) \div 2 # d THEN Listening(m, "idle")
              ELSE [m EXCEPT !.pc = "ack", !.of = m.pc, !.bits = b])
        [] m.pc = "getack" ->
             [Listening(m, IF s = 1 THEN "addr" ELSE "next") EXCEPT !.ptr = @ + 1]
        [] OTHER -> m

(* What a byte means, at the end of its acknowledge.                       *)
ByteTaken(d, m) ==
  CASE m.of = "addr" -> IF ValueOf(m.bits) % 2 = 1 THEN Fetch(d, m)
                        ELSE [Listening(m, "ptr") EXCEPT !.ptr = 0, !.left = PtrBytes]
    [] m.of = "ptr"  -> LET p == [m EXCEPT !.ptr = @ * 2 ^ ByteBits + ValueOf(m.bits),
                                           !.left = @ - 1]
                        IN  IF p.left > 0 THEN Listening(p, "ptr") ELSE Listen(d, p)
    [] m.of = "data" -> Listen(d, [m EXCEPT !.ptr = @ + 1])

(* SCL falls.                                                              *)
Fall(d, m) ==
  CASE m.pc = "ack"    -> [m EXCEPT !.pc = "acking", !.sda = 0]
    [] m.pc = "acking" -> ByteTaken(d, m)
    [] m.pc = "next"   -> Fetch(d, m)
    [] m.pc = "send"   -> IF m.bits = << >> THEN Listening(m, "getack")
                          ELSE [m EXCEPT !.sda = Head(m.bits), !.bits = Tail(@)]
    [] OTHER -> m

(* SDA falls while SCL is high.  Where an address is expected, the start   *)
(* sends the memory back to waiting for another.                           *)
Start(m) == CASE m.pc \in {"idle", "data"} -> Listening(m, "addr")
              [] m.pc = "addr"             -> Listening(m, "idle")
              [] OTHER                     -> m

(* SDA rises while SCL is high.                                            *)
Stop(m) == IF m.pc \in {"addr", "data"} THEN Listening(m, "idle") ELSE m

Storing(d) == mems[d].pc = "acking" /\ mems[d].of = "data"

(* The wired lines for the master's side of them.                          *)
Wired(x, y) == IF x = 1 /\ y THEN 1 ELSE 0
scl == Wired(m_scl, \A d \in Devices : mems[d].scl = 1)
sda == Wired(m_sda, \A d \in Devices : mems[d].sda = 1)

(* The memories answer to what the master does to the lines; those that    *)
(* hold SCL low keep it there.                                             *)
Lines(new_scl, new_sda, side) ==
  LET held  == \E d \in Devices : side[d].scl = 0
      now   == Wired(new_scl, ~held)
      level == Wired(new_sda, \A d \in Devices : side[d].sda = 1)
  IN  /\ mems' = [d \in Devices |->
                    IF now > scl THEN Rise(d, side[d], level)
                    ELSE IF now < scl THEN Fall(d, side[d])
                    ELSE IF scl = 1 /\ level < sda THEN Start(side[d])
                    ELSE IF scl = 1 /\ level > sda THEN Stop(side[d])
                    ELSE side[d]]
      /\ mem' = [d \in Devices |->
                   IF now < scl /\ Storing(d)
                   THEN [mem[d] EXCEPT ![mems[d].ptr] = ValueOf(mems[d].bits)] ELSE mem[d]]
      /\ unheard' = (unheard \/ (scl = 1 /\ now = 1 /\ level < sda
                                 /\ \E d \in Devices : mems[d].pc = "addr"))

(* A latency ends: the clock may go on.                                    *)
LatencyEnds(d) ==
  /\ mems[d].pc \in {"fetch", "listen"}
  /\ Lines(m_scl, m_sda,
           [mems EXCEPT ![d] = IF @.pc = "fetch" THEN Answer(d, @)
                               ELSE [Listening(@, "data") EXCEPT !.scl = 1]])
  /\ UNCHANGED <<i2cMaster, wanted, calls_made>>
-----------------------------------------------------------------------------
(***************************************************************************)
(* I2CMaster.                                                              *)
(***************************************************************************)
(* The moves of a bit, a start and a stop, as <<line, level>>; "scl_i" is  *)
(* to wait until SCL is high.                                              *)
Moves(op) ==
  CASE op = "start" ->
         (IF line_state THEN << <<"sda", 1>>, <<"scl", 1>>, <<"scl_i", 1>> >> ELSE << >>)
           \o << <<"sda", 0>>, <<"scl", 0>> >>
    [] op = "stop"  -> << <<"sda", 0>>, <<"scl", 1>>, <<"scl_i", 1>>, <<"sda", 1>> >>
    [] OTHER        -> << <<"sda", IF op = "0" THEN 0 ELSE 1>>,
                          <<"scl", 1>>, <<"scl_i", 1>>, <<"scl", 0>> >>

(* Mutant: the master does not wait for a memory that holds SCL low.       *)
RaisedAlways == TRUE

Raised == scl = 1

(* One move; the last one of a bit goes on to the next bit.                *)
Move ==
  /\ ops # << >>
  /\ LET op == Head(ops)
         mv == Moves(op)[step + 1]
         ends == step + 1 = Len(Moves(op))
     IN  /\ m_scl' = IF mv[1] = "scl" THEN mv[2] ELSE m_scl
         /\ m_sda' = IF mv[1] = "sda" THEN mv[2] ELSE m_sda
         /\ mv[1] = "scl_i" => Raised
         /\ IF mv[1] = "scl_i" THEN UNCHANGED <<mems, mem, unheard>>
            ELSE Lines(m_scl', m_sda', mems)
         /\ got' = IF mv[1] = "scl_i" /\ op = "get" THEN Append(got, sda) ELSE got
         /\ step' = IF ends THEN 0 ELSE step + 1
         /\ ops' = IF ends THEN Tail(ops) ELSE ops
         /\ line_state' = IF ends /\ op \in {"start", "stop"} THEN op = "start" ELSE line_state
         /\ read_data_queue' = IF ends /\ cmd.rw = "r" /\ Len(ops) = 1
                               THEN Append(read_data_queue, <<cmd.a, BytesOf(got)>>)
                               ELSE read_data_queue
  /\ UNCHANGED <<command_queue, i2c_busy, cmd, wanted, calls_made>>

(* Between two commands: the next one, or a stop if there is none.         *)
NextCommand ==
  /\ ops = << >> /\ (command_queue # << >> \/ i2c_busy \/ line_state)
  /\ IF command_queue # << >>
     THEN /\ i2c_busy' = TRUE /\ cmd' = Head(command_queue) /\ ops' = OpsOf(cmd')
          /\ command_queue' = Tail(command_queue)
     ELSE /\ i2c_busy' = FALSE /\ cmd' = NoCmd
          /\ ops' = IF line_state THEN << "stop" >> ELSE << >>
          /\ UNCHANGED command_queue
  /\ step' = 0 /\ got' = << >>
  /\ UNCHANGED <<read_data_queue, line_state, m_scl, m_sda, mems, mem, wanted, unheard,
                 calls_made>>

Issue(c, w) ==
  /\ calls_made < MaxCommands /\ calls_made' = calls_made + 1
  /\ command_queue' = Append(command_queue, c)
  /\ wanted' = w
  /\ UNCHANGED <<i2c_busy, read_data_queue, cmd, ops, step, got, line_state, m_scl, m_sda,
                 mems, mem, unheard>>

PtrOf(s) == FoldLeft(LAMBDA p, b : p * 2 ^ ByteBits + b, 0, SubSeq(s, 1, PtrBytes))

(* A write sets the pointer and writes what follows.                       *)
init_write ==
  \E w \in Writes :
    LET d == w[1]
        p == PtrOf(w[2])
        n == Len(w[2]) - PtrBytes
    IN  Issue([rw |-> "w", a |-> d, data |-> w[2], n |-> 0],
              IF d \notin Devices THEN wanted
              ELSE [wanted EXCEPT
                      !.ptr[d] = p + n,
                      !.mem[d] = [a \in 0 .. Size - 1 |->
                                    IF a \in p .. p + n - 1 THEN w[2][PtrBytes + 1 + a - p]
                                    ELSE @[a]]])

(* A read goes on from the pointer; nobody answers with ones.              *)
init_read ==
  \E r \in Reads :
    LET d == r[1]
        bytes == IF d \in Devices THEN [i \in 1 .. r[2] |-> wanted.mem[d][wanted.ptr[d] + i - 1]]
                 ELSE [i \in 1 .. r[2] |-> 2 ^ ByteBits - 1]
    IN  /\ d \in Devices => wanted.ptr[d] + r[2] <= Size
        /\ Issue([rw |-> "r", a |-> d, data |-> << >>, n |-> r[2]],
                 [wanted EXCEPT !.reads = Append(@, <<d, bytes>>),
                                !.ptr = [x \in Devices |-> IF x = d THEN @[x] + r[2] ELSE @[x]]])

I2cNext == \/ Move \/ NextCommand \/ init_write \/ init_read
           \/ \E d \in Devices : LatencyEnds(d)

I2cSpec == I2cInit /\ [][I2cNext]_i2cVars
-----------------------------------------------------------------------------
i2c_idle == command_queue = << >> /\ ~i2c_busy

(* When the master says that it is idle, which is before it sends the stop,*)
(* every write is in its memory and every read has brought what the        *)
(* commands before it left there, whatever the latencies and wherever a    *)
(* repeated start stands for a stop and a start; but for one that follows  *)
(* a read, which the memories do not hear (i2c.py:42-47,216-280,382-506).  *)
MemoryAsCommanded ==
  i2c_idle /\ ~unheard => mem = wanted.mem /\ read_data_queue = wanted.reads
=============================================================================
