# A verification of the Cyclone 10 GX PTP slave

The repository is a PTPv2 slave on an FPGA board: a PicoRV32 soft core runs the
firmware in `fw/`, the RTL in `rtl/` contains the clock that is synchronised, two
time-stamping units on the GMII, a generator for Delay_Req messages and the way of
its frames to the Ethernet MAC; a console command sends commands to a remote
controller (TSS) over UDP. The cores of the network stack and of I2C that it uses
come with their test benches, whose models of frames, links and buses decide what those
tests can find. This directory holds TLA+ models of the parts that carry the protocol
and of those test models, TLC configurations that check them on small instances, and
proofs of the most important results for all values of the constants.

    tlc -config MCPtpSlave.cfg MCPtpSlave      # a run (PROJECT.json lists all of them)
    tlapm PtpSlaveProofs.tla                   # the proofs of a module

## 1. The system

| Component | State | Operations | Talks to |
|---|---|---|---|
| Main loop (`fw/main.c`) | `message`, `ts1`..`ts4`, `delay`, `offset`, `localTime` | UART commands, poll of the receive queue, one handler per message | PTP driver, arithmetic |
| PTP driver (`fw/ptp_drv.c`) | none of its own; `sync_seq_id` inside `message` | `ptpInit`, `readMsgRx`, `handleSync`, `handleFollowUp`, `issueDelayReq`, `handleDelayResp`, `setTime`, `applyOffset`, ... | registers, generator, by bus accesses |
| Arithmetic (`fw/arith.c`) | none | `normalizeTime`, `addTime`, `subTime`, `div2Time` | |
| Clock (`rtl/ptp/rtc.v`) | period, delta-sigma stage, two pre-adders, seconds and nanoseconds | a tick; load of time, offset, period | registers (strobes and data), TSUs (time) |
| Registers (`rtl/ptp/regs.v`) | one word per address, strobe synchronisers, latched time and queue entries | bus read, bus write | bus, clock, TSUs |
| TSU, one per direction (`rtl/ptp/tsu.v`) | request/acknowledge handshake, stamp, two dual-clock FIFOs | start of frame, end of frame, pop, reset | GMII, parser, clock, registers |
| Parser (`rtl/ptp/ptp_parser.v`) | byte counters, match flags, extracted fields | one 32-bit word | TSU |
| Delay_Req generator (`rtl/ptp_gen.sv`) | control word, FSM, byte counter | write of `PTP_GEN_CTRL`, one byte | bus, multiplexer |
| Multiplexer (`rtl/axis_arb_mux.v`, `rtl/arbiter.v`) | input registers, grant, output and overflow register | one beat | generator, UDP stack, header glue |
| Glue (`rtl/gmii_udp_loopback.v`) | last `tvalid` | announces a header | multiplexer, `eth_axis_tx` |
| Bus (`rtl/soc.v`, `rtl/wb_interconnect.v`) | IDLE/WBSTART/WBEND | one access | CPU, everything with registers |
| TSS controller (`rtl/tss/`, `fw/tss_drv.c`) | command registers, serialiser FSM and byte counter | write of a command, one byte | bus, UDP stack |
| Frame objects (`udp_alex/udp/tb/{eth,ip,udp,arp}_ep.py`) | fields, lengths, checksums | build, parse, update of a length or checksum, change of the payload | frame end points |
| Frame end points (same files, `axis_ep.py`) | queues of headers and payloads, handshake of each | send, one edge, pause, reset | the cores under test, each other |
| Time distribution (`ptp_td.py`) | time, drift, offsets, message under way, history of shown times | set time, period, drift; one edge; reset | one serial wire |
| 10G links (`xgmii_ep.py`, `baser_serdes_ep.py`, `baser.py`) | frame queue, lane of the next start, deficit count, frame under way | send, one word or block | MAC or PHY under test |
| 10M to 1G links (`gmii_ep.py`, `mii_ep.py`, `rgmii_ep.py`) | frame queue, gap, nibble pairing | send, one cycle, reset | MAC under test |
| Bus models (`i2c_alex/tb/{i2c,axil,wb}.py`) | command queues, bus state, memory | write, read, one move of a line, transfer or edge | I2C cores under test, each other |

An exchange: the master sends Sync; the receive TSU stamps it, the parser recognises
it and the entry goes to the queue; the loop reads it into `ts2`. Follow_Up brings
`ts1`, `offset := (ts2 - ts1) - delay` is computed, and `issueDelayReq` starts the
generator and *spins* until the transmit TSU has stamped the frame (`ts3`).
Delay_Resp brings `ts4`; `updateDelay` computes the path delay - overwriting `ts2`
and `ts4` - and the offset of the Follow_Up is applied: `setTime` when it is a
second or more, else `applyOffset`.

What is hard here: the hardware goes on between any two bus accesses of the loop;
frames are lost, repeated and overtaken on the wire and other nodes' multicasts
arrive; the queues overflow; the spin has no timeout; a stamp crosses two clock
domains; strobes are levels that a synchroniser turns into pulses; two sources
share one way to the MAC; seconds roll over inside a pipelined adder; times are
pairs of signed 32-bit numbers; a command is visible for one clock. In the test models
the processes of one edge share Python lists, and the file of a memory, without an order
between them; frames start in the middle of a word and gaps are paid back later; lines are
held low by the other side. The list with line numbers is `hazards` in
`PROJECT.json`.

What makes a component correct:

* loop and driver: never read what is not there, never handle a message twice, never
  hang, pair every stamp with its request, combine only times of one exchange, recover
  by themselves from any disturbance;
* arithmetic: exact, no overflow, one sign;
* clock: no time lost or invented but by a load or an offset, always a valid time;
* registers: a call has its effect once, a time read is one instant of the call;
* TSU: the stamp of the frame itself, the two queues in step, in order, loss only when full;
* transmit path: whole frames behind the right header, one per request, all of them leave;
* TSS: every command typed leaves, whole, once and with its own parameters;
* frame end points and links: what arrives is what was sent, headers with their own
  payloads, gaps as long as the standard asks on the average, and `idle` means that nothing
  is left;
* frame objects: a frame survives building and parsing, its checksums verify;
* time distribution: the sink shows the time of the source, one edge later, at every edge;
* buses: when a master is idle its calls are done, in their order, and nothing else.

## 2. The modules

| Module | Models | State and actions |
|---|---|---|
| `PtpSlave` | loop, driver and both event queues, in an arbitrary network | variables have the firmware's names; one action per handler, split where the hardware can interfere (`PollRx`/`readMsgRx`, `StartDelayReq`/`GetTxStamp`, `handleDelayResp`/`setTime`); `Arrive` and `Transmit` are the TSUs |
| `PtpSystem` | EXTENDS it with a two-step master and a faulty wire | the master is not in the repository: what the handlers expect of it |
| `Rtc` | `rtc.v` | one step per clock: `Period`, `PreAdders`, `Accumulator` |
| `RtcRegs` | EXTENDS `Rtc` with the RTC registers and the driver calls as bus accesses | `Registers` and `Wires` are the synchronisers; `Call` starts a driver call, `Access` does its next access, `NoAccess` waits |
| `TimeArith` | `arith.c` | operators |
| `Servo` | EXTENDS `TimeArith`: the numbers of consecutive exchanges and the local clock they correct | one action per handler |
| `EventQueue` | abstract: what a TSU promises | a FIFO that drops an event only when the writer has no credit |
| `Tsu` | `tsu.v` with its two dual-clock FIFOs and the registers that pop and reset them | one step per edge of either clock |
| `TxMux` | `ptp_gen.sv`, multiplexer, glue and the acceptance rules of `eth_axis_tx` | one step per edge of `logic_clk`; every block is a conjunct of it |
| `TssTx` | `tss_drv.c`, `computer_slave.sv`, `serializer.sv`, the header pulse of the glue, the input of `udp_checksum_gen` | one step per edge of `gmii_tx_clk`; every block is a conjunct of it, the CPU the disjunction |
| `FrameCodec` | frame objects | a step is a call of a test; words of 16 bits, octets in sequences |
| `FrameEp` | a frame source facing a frame sink, any of the four layers | one step per edge: header source, payload source, payload sink and header sink, those that share lists in either order |
| `PtpTd` | `PtpTdSource` facing `PtpTdSink` | one step per edge or call; a data bit stands for the message it is of |
| `BaseR`, `XgmiiEp` | block code; source facing sink on XGMII of 4 or 8 lanes and on both serial lane models | one step per word; `OnWire` is the identity or the encoder |
| `GmiiEp` | source facing sink on GMII, MII, RGMII | one step per cycle; the sink may be reset in the middle of a frame |
| `I2cBus` | `I2CMaster` and some `I2CMem` on wired-and lines | a step is one move of the master with the answers of the memories to the edge, or the end of a latency |
| `AxilBus` | `AXILiteMaster` facing `AXILiteRam` | a step is one transfer of a channel, the end of a latency, or the master's step on an answer |
| `WbBus` | `WBMaster` facing `WBRam`, clocked or asynchronous | one step per edge, or the answer of an asynchronous RAM |
| `PtpSlaveProofs` (also of `PtpSystem`), `RtcProofs` (also of `RtcRegs`), `ServoProofs` (also of `TimeArith`), `TsuProofs`, `TxMuxProofs`, `TssTxProofs`, `FrameEpProofs`, `BenchProofs` (of `XgmiiEp`, `PtpTd`, `WbBus` and `AxilBus`) | proofs | |
| `MC...` | values of the constants for TLC; `MCUnits` puts the units from `TssTx` on, which share nothing, side by side | |

Abstractions worth knowing:

* In `PtpSlave` a time *is* the event it is the time of, together with the epoch (the
  number of adjustments) of the clock it was read from. `PathDelay` and `ClockError`
  decide from this whether a difference of times means something, which the program
  cannot know. `Servo` has the numbers, and the offset register that `applyOffset`
  accumulates into; `handed` in `PtpSlave` records only what the offset is worth that is
  handed to `setTime` or `applyOffset`, not what the clock makes of it.
* `exchange`, `handed`, `safe`, `asked`, `strobes`, `joined`, `met_full`, `made`, `left`
  and `measured` are history variables: no guard that models code reads them. The one
  exception is `left` in the guard of `Write` in `TxMux`, where it stands for the stamp
  `issueDelayReq` has waited for.
* Only the low eight bits of a sequence number are kept (`& 0xff`, `ptp_drv.c:68`):
  `SeqMod` stands for 256.
* `adj_ld` of the clock is not modelled: the firmware never raises `RTC_SET_ADJ`, and
  `adj_cnt` stays at its reset value.
* The parser looks for the end of a frame with `int_bcnt`; a frame of length 1 mod 4
  has no `int_eop` at all and is never an event. The model keeps this (`WriteClock`);
  no PTP message has such a length. The event types are decided by the parser and are
  an input of `Tsu` (`events`).
* `TssTx`: a register holds the number of the call that wrote it, a byte its position in
  its command. Typing a command takes at least `Typing` clocks. `full` remembers that a FIFO
  of the checksum generator was full: nothing is said of what happens after that.
* `XgmiiEp`: a block that is hit is one whose sync header is wrong; scrambler, bit reversal and
  slip are left out, as they give back the block that was sent.
* `AxilBus`: `valid` and `ready` may be withheld by a pause at any edge, so the order of transfers
  is all that is left of them; a step is a transfer.
* `I2cBus`: the master moves at its own prescale and the memories answer at once, so a move and the
  answers are one step. A master that does not wait for SCL is the mutant.
* `WbBus`: where a word has several bytes calls are made in words (see section 5).
* History variables of the test models: `full`, `want`, `done`, `seen` (`TssTx`), `due`
  (`PtpTd`), `mixed`, `failed` (`FrameEp`), `slack`, `pending` (`XgmiiEp`), `expected`
  (`GmiiEp`), `built` (`FrameCodec`), `wanted`, `unheard` (`I2cBus`), `wanted_ram`, `moved`,
  `seen` (`AxilBus`), `wb_wanted`, `asked`, `served` (`WbBus`).
* Undefined power-up values (`offset_ld_s3`) take the value 0 the device gives to
  registers without a reset.

## 3. The runs

Passing runs:

| Run | States | Bounds, and why they are enough |
|---|---|---|
| `slave` | 2.6 million | A queue of 4, 2 sequence numbers, 8 kinds of frame, 5 arrivals, 2 console commands. Five arrivals overfill the queue by one and complete an exchange with a disturbance before, after or inside it. |
| `system` | 0.4 million | 3 exchanges, one fault, one frame of another node, one command. One exchange is disturbed, the next recovers, and the last must measure right. |
| `rtc_regs` | 0.7 million | A second of 10 units, a word of 14, thirds of a unit; periods of 4/3 and 5/3 units, loads of 7 and 9 (the last unit of a second), offsets of -3 and 5. In a behaviour the clock is either free, with any strobe at any clock, safe ones and unsafe ones, three roll-overs, or driven by its registers (`driven`): 3 driver calls in a row at every distance, two accesses at least 4 clocks apart (IDLE, strobe, acknowledge, WBEND). |
| `servo` | 0.1 million | A second of 10 ns and integers up to 21, so that the sums come as near to the limit as those of 10^9 and 2^31 - 1; 15 errors of both signs below, at and above one and two seconds; path delays whose double is less than a second, an odd number of seconds and more, and an even one and more; 3 exchanges; an offset strobe of 4 clocks, as the registers make it; errors are followed up to `Errors`. |
| `tsu` | 4 million | Queues of 2, 4 frames at the smallest gap or later, with lengths for which the entry is written after 4, 5 and 6 clocks of the gap (all there are: only a length of 1 mod 4 is never an event), every choice of event frames, either clock up to one edge ahead. |
| `tx` | 21 thousand | Delay_Reqs of 6 and UDP frames of 5 and 7 bytes - longer than the four registers of the way -, three of each at every distance, those of the UDP stack also without a clock between them, as its ARP and IP sources send them, with pauses between the bytes, a header of 4. |
| `units` | 0.4 million | One unit per behaviour, the others stand still; the bounds are in `MCUnits`. TSS: 2 commands of 4 bytes, a delta time of 2, a counter of 8, typed as fast as the bus allows. Time: seconds of 20 ns that end between messages and inside them, with and without drift, one call, one reset of both ends at any edge or of one end between two messages. Frames: 4 frames of 1 and 3 beats, every order of the processes, one reset. 10G: frames of 8 to 15 and of 72 bytes, every lane a frame can start and end in, an error byte early and late, hit blocks. GMII: the delimiter in step and out of step with the nibbles, resets of either end. Frame objects: words whose sum carries twice, payloads odd, even, empty and padded, two edits after a build. I2C: 3 calls to a quick, a slow and an absent memory; bytes of 3 bits. AXI: 3 calls that begin and end inside a word and overlap. Wishbone: 3 calls on buses of 2x1, 1x2 and 2x2 bytes, latency 0 and 2, clocked or not. |

What they show is in the comments above the properties and in `about` of
`PROJECT.json`. The ones that took thought:

* `ReadNonEmpty`: the status is read some accesses before the pop. It holds because
  nothing but `ptpInit`, which the loop calls itself, takes entries out of the queue, and
  because an odd status cannot be that of a full queue.
* `DelayReqPaired`: the endless spin is safe in the firmware's view because the
  transmit mask lets nothing but Delay_Req through and `ptpInit` cannot run while one is
  under way.
* `MainLoopTurns` does not assume that a Delay_Req leaves, which `tx_collision` shows is not
  certain: it says that this is all the loop can hang on. Either it turns for ever, or from some
  moment on it stands in `issueDelayReq` with its own frame still to leave.
* `CleanExchange` and `MeasuresForGood`: the in-place mangling in `updateDelay` and the
  ignored sequence check do harm, but the harm ends with the next undisturbed exchange, if
  every Delay_Req leaves (`[]<>(gen = 0)`). What is promised is the offset that is measured.
  That `applyOffset` does not take this offset off the clock is another matter:
  `servo_direct` and `rtc_offset`.
* `TimeValid` and `ExactStep` need `Safe`: a load in the last period of a second and an
  offset at a carry, below zero or beyond the word are taken wrongly by the hardware.
  `RtcTypeOK` bounds the damage.
* `Paired` needs `~met_full`: each FIFO has a full flag that learns of pops separately,
  so when a frame ends while they are full one may take the entry and the other drop it,
  and every later pair is shifted. Without the condition TLC finds this behaviour.
* `FramesLeave` is quiet once a frame came out of the multiplexer right behind another
  (`joined`), a Delay_Req behind a frame of the UDP stack or the other way round, or two of
  the stack's own: see `tx_collision`.
* `NoOverflow` watches every sum and difference of the driver, also that inside `setTime`.
* `WholeCommands` and `CommandsLeave` hold although a command is on `command_o` for a clock and is
  seen in IDLE only: the bus is slower than the serialiser, but for a full FIFO, in which case a
  command is lost or its last byte is sent twice, as in `LAST` the byte counter is cleared whether
  the byte was taken or not (`serializer.sv:101`). Hence `full`.
* `SinkFollows` says that the sink is one edge late: `timestamp_delay` is not cleared by a reset,
  and the source shows the time that was to be shown 14 * 17 + `td_delay` clocks ago, while the sink
  adds a clock when it takes a message over. `due.told` keeps the property quiet until one message
  of a kind has come.
* `OwnPayload` is quiet once a reset fell between a header and its payload (`mixed`): one of
  the two stays in a list, and from then on headers meet the payload of the frame before.
* `MeanGap` is about sums: a gap of 12 may be 9 once, but no run of frames may save more than 3.
* `MemoryAsCommanded` is about the moment `idle()` turns true, before the stop is sent. It is quiet once
  a start came where a memory expects an address (`unheard`): after a read, the memory leaves its loop on
  a repeated start and does not hear the command behind it (`i2c.py:421`).
* `RamAsCommanded` is quiet about the memory once a read came between the seek of a write and its data
  (`moved`): both processes of the RAM use the position of one file, and the write goes where the
  read ended (`axil.py:475`, `525`).
* `WbAsCommanded` counts the cycles: the RAM clears its answer on the edge at which the master takes
  it, and `~ack_o` keeps it from serving the cycle a second time.

Runs that show a disagreement between the code and what is said of it (`findings`):

| Run | Disagreement |
|---|---|
| `burst` | `STATUS & 0x00FFFFFF > 0` tests the parity of the backlog (`main.c:103`) |
| `loss` | a message out of sequence is not used, but everything computed from it is (`ptp_drv.c:90-102`): after a lost Sync the Follow_Up leaves `ts1` alone, a Delay_Req goes out all the same, and its answer makes a delay of times that do not belong together. A lost Follow_Up mixes nothing. |
| `rtc_offset` | the offset strobe never ends (`regs.v:362`) |
| `servo_direct` | `RTC_OFFSET -=` accumulates (`ptp_drv.c:112`) |
| `tx_collision` | no header for the second of two frames back to back (`gmii_udp_loopback.v:382`), be they from the two sources or both from the UDP stack, whose own multiplexer has no pause between ARP and IP (`eth_arb_mux.v:155-190`) |

`CHECK_DEADLOCK FALSE` is set where the model stops at a bound of time or of frames
(`rtc_regs`, `servo`, `tsu`, `units`). The others never stop: the loop and the clock run.

Fairness. `system` and `burst`: weak fairness of the loop outside the UART, of the
UART step that reads no command, of delivery and the master's three
messages; none for transmission, faults, noise or console commands. The loop has no interrupts
and a single thread, so it does run; a frame on the wire arrives unless it is lost. That a
Delay_Req leaves is not assumed, as the way to the MAC can stall (`tx_collision`);
`MeasuresForGood` has it as a hypothesis. A command that the operator has begun is finished (`pc #
"uart"` covers the dialogue), or else nothing could be said of a loop that waits in
`getStr`. `tx` and `tx_collision`: the clock runs, and a UDP frame that has begun is
finished, which the UDP stack does because it stores its payload before it sends. `units`: the
clock of the TSS path runs; the other units have safety properties only, and no fairness.

`Spaced` and `Paced` in `system` say that no two frames arrive within one turn of the
loop. It is a real restriction: `burst` shows what happens without it.

## 4. The proofs

| Theorem | States | Rests on |
|---|---|---|
| `PtpSlaveProofs!TypeCorrect`, `NoEmptyRead`, `StampOfOwnRequest` | `[]TypeOK`, `[]ReadNonEmpty`, `[]DelayReqPaired` | `QueueInv` |
| `PtpSlaveProofs!InArrivalOrder` | `HandledOnce` | `QueueInv`, `Ordered` |
| `PtpSlaveProofs!ExchangeIsExact` | `[]CleanExchange` | `CleanInv` |
| `PtpSlaveProofs!SystemIsASlave`, `SystemKeepsSlaveProperties` | `SystemSpec => Spec`, and the properties above for it | `WireOK` |
| `RtcProofs!RtcTypeCorrect`, `AlwaysValid` | `[]RtcTypeOK`, `[]TimeValid` | themselves, inductive together |
| `RtcProofs!DriftFree`, `KeepsTime` | `NoDrift`, `ExactStep` | `RtcTypeOK`, `TimeValid` |
| `RtcProofs!DriverOrder`, `LoadsOnce` | `[]DriverInv`, `[]LoadedOnce` | `MinGap >= 4` |
| `RtcProofs!DrivesTheClock`, `KeepsTimeBehindRegisters`, `ValidBehindRegisters` | `RegsSpec => DrivenSpec`, `ExactStep`, `[]TimeValid` | `DriverInv`, `DriverValues` |
| `RtcProofs!ReadsFreshTime` | `[]FreshTime` | `DriverInv`, `ClockInv`, `FreshInv` |
| `ServoProofs!NormalizeExact`, `SumExact`, `HalfExact` | what `arith.c` computes | division |
| `ServoProofs!MeasuresExactly`, `OneSign`, `WritesATime`, `SetsAtOnce` | `[]ExactMeasurement`, `[]SignsAgree`, `[]ClockReadable`, `SetOnce` | `ServoInv` |
| `ServoProofs!StaysInRange` | `[]NoOverflow` | `ServoInv`, `InRange`; `Representable` |
| `TsuProofs!TypeCorrect`, `StampsItsOwn`, `ReadsPairs` | `[]TypeOK`, `[]OwnStamp`, `[]Paired` | `UnitInv`; `Margins` |
| `TsuProofs!ImplementsPromise` | `KeepsPromise`: `Tsu` implements `EventQueue` | `UnitInv`; `Margins` |
| `TxMuxProofs!TypeCorrect`, `OneRequestPerWrite`, `FramesStayWhole` | `[]TypeOK`, `[]OnePerWrite`, `WholeFrames` | `MuxInv` |
| `TssTxProofs!TssTypeCorrect` | `[]TssTypeOK` | `CallInv`, `RegInv`, `UnitInv` |
| `TssTxProofs!CommandsStayWhole` | `WholeCommands` | these and `FlowInv`; `Unhurried` |
| `FrameEpProofs!EpTypesHold`, `OwnPayloadHolds`, `IdleMeansTakenHolds` | `[]EpTypeOK`, `[]OwnPayload`, `[]IdleMeansTaken` | `EpInv` |
| `BenchProofs!GapsHold` | `[]MeanGap` | `GapInv` |
| `BenchProofs!SinkFollowsHolds`, `AlternateRightHolds` | `[]SinkFollows`, `[]AlternateRight` | `TdInv` |
| `BenchProofs!WbAsCommandedHolds` | `[]WbAsCommanded` | `WbInv` |
| `BenchProofs!RamAsCommandedHolds` | `[]RamAsCommanded` | `AxInv` |

All hold for every queue depth, every number of sequence numbers, every set of frames, every
length and every width that satisfies the named assumptions of the modules; the bounds of the
runs (`Max...`) are parameters too. `MinGap >= 4`, `Margins`, `Representable`, `Unhurried` and `Frame
\subseteq Frames` are hypotheses of the theorems that need them, and are discussed below.

*The firmware.* None of the invariants is inductive alone. `ReadNonEmpty` needs that the
queue never exceeds its depth, and that an odd remainder modulo the depth is not that of
an empty queue. `DelayReqPaired` needs `BusyReady`: a request is under way only after
the masks were set, or else its stamp would not be queued. `HandledOnce` is proved from
`Ordered`: the entries of the queue are numbered increasingly, all above the message last
read and none above the number of arrivals. `CleanExchange` is the last link of a chain, one
part of `CleanInv` per stage: after a Sync of the present clock `ts2` is its time
(`Synced`), after its Follow_Up `ts1` belongs to the same Sync (`Followed`), after
`issueDelayReq` `ts3` is the departure of the last request on a clock that was not adjusted
since (`StampFresh`, from `DelayReqPaired`), and so the answer completes two pairs.

*The system.* `PtpSlave` lets any frame of `Frames` arrive at any moment. `SystemIsASlave` says
that the slave of `PtpSystem`, with its master and a wire that loses, repeats and reorders, is a
special case when `Frames` holds every frame: its steps are steps of the slave or leave the slave
alone, because what is on the wire are frames (`WireOK`). `Frames` does not occur in `SystemSpec`.

*The clock.* The word must hold a second and two increments, and less than two seconds
(`WidthAssumption`; 2^38 and 256 * 10^9 do): then the carry decides which pre-adder is the
time, and the two differ by a second modulo the word. `NoDrift` is division with remainder.
The proofs are about `ClockSpec`, a clock whose pins carry any load, offset or period of the right
width at any edge; the free clock of `Rtc` is one, and so is the clock of `RtcRegs`.

*The registers.* `LoadedOnce` is not inductive: it speaks of the end of a call. `DriverInv` says
where the strobe is: `Pipe` gives the three stages by the number of edges since the last access,
and one part per call what was written by the time a given access is next, with `Passing` for a
strobe that is on its way (none counted yet) or through (counted once). The hypothesis
`MinGap >= 4` is used where an access changes `RTC_CTRL`: all three stages then hold its old value,
so no strobe is cut short or joined to the next one. A bus access takes as long: IDLE, strobe,
acknowledge, WBEND (`soc.v:252-302`). `DrivesTheClock` is a refinement: `DrivenSpec` is a clock whose
edges bring it the time of one `setLocalTime`, or what the offset register holds, or the period of one
`ptpInit`, never two of them (`CallPins`). It is one of those of `ClockSpec` (`DrivenIsClock`), so the
clock's own properties follow behind the registers. Whether a load or an offset is safe it does not
say: no call checks that. `FreshTime` is about a read of several accesses: `FreshInv`
follows the command from the register to the latch (`GetToCome`, `GetPassing`) and the words that have
been read since (`GetRead`), beside a clock that has settled from the last load (`Settled`) and so does
not go back. TLC agrees with `DriverInv` and `FreshInv` on the instance of `rtc_regs`.

*The arithmetic and the numbers.* `Quot` and `Rem` are C's; the lemmas give them signs and bounds.
`ServoInv` says, stage by stage, what the difference of the times is: `Measured` is a chain like
`CleanInv`, with numbers, and `Known` is the delay the firmware has at that point (0 in the first
exchange). `HalfExact` is for every pair: what halving leaves
of it is -1, 0 or 1 ns, and of the sign of the value for a pair with parts of one sign, so that halving
never goes away from zero. `StaysInRange` assumes `Representable`: the seconds of both clocks fit `IntMax`, as 32-bit
seconds do until 2038, and a round trip is two seconds shorter than that. `SetsAtOnce` is the one result
on the loop that closes over the clock; `applyOffset` has none, see `servo_direct`.

*The stamping unit.* `UnitInv` has two parts. `Handshake` gives the six flip-flops of request and
acknowledge by phase, relative to the clock of the frame and the slip between the two domains; it needs
that a frame outlasts the handshake and a gap its fall and the write of the event (`Margins`: the
shortest frame of 72 clocks on the GMII and the gap of 12 satisfy it with a slip of one edge). `Flow`
and `Together` are about the FIFOs: what either side knows of the other is never more than there is, and
the two queues hold the same frames until `met_full`. `OwnStamp` allows the capture `Late` clocks after the
start of the frame, 2 to 4 for a slip of one. The refinement maps the last frame dealt with (`Dealt`), the
queue (`Reported`) and the writer's free entries (`FreeSeen`); every edge is a step of `EventQueue` or none.

*The transmit path.* A step is one conjunction of all blocks, so there is one lemma per conjunct of
`MuxInv` instead of one per action. `Chain` says that every register holds the successor of the beat ahead of it
(`Before`, `Ahead`, `Passed` name that beat, wherever it is), and that the grant belongs to the frame that
is open; `AheadMoves` and `BeforeMoves` say how it moves on an edge. `Sealed` keeps a second Delay_Req
from starting before the first has left, and `EthInv` ties the header to the frame that waits for it. The last
beat of a Delay_Req may be dropped (`tx_collision`): the frame then stays open, and `WholeFrames` holds for
what leaves.

*The commands.* `CallInv` and `RegInv` follow the writes of a call over the bus: `Started` counts the
accesses begun, and in the clock `AtSerializer` the command of the call (`Own`) is on `command_o`,
with all six parameters its own and the delta time of an earlier call. `UnitInv` is what the serialiser
and the FIFOs keep even when they are full: a command may then be missed, but none is taken twice. That
none is missed is `FlowInv`, one phase after the other, each with the clocks it has left (`Room`) against
the clocks until the next command (`ToCome`); every edge takes at most one from either. `Unhurried` says
that the two fit: a START lasts no longer than the typing and the writing of the next call. Its 33
bytes leave eight clocks for typing, and `getParams` reads eight numbers from a UART
(`tss_drv.c`). `~full` is needed, as the serialiser waits on a full FIFO and looks for commands in IDLE only.

*The frame end points.* Frames are numbered, so that each list of headers or of payloads holds the
numbers from some `a + 1` to some `b` (`Numbers`, `Payloads`). `EpInv` says where each run begins and
ends: `ListInv` for the two queues of the source, `WireInv` for the header and the beat on the wires,
`UnderWay` for the beats of the payload that the sink has so far, `SinkInv` and `Received` for what waits
in the sink and what it has made frames of. The runs meet end to end, on the header side and on the
payload side, and the payload side is never ahead: a payload begins only when its header has been
presented. So a second payload never meets a single header, which is what the assertion of the sink
forbids, and headers and payloads are paired by number. A reset in the middle may leave one side ahead
for good; the invariant then says nothing but the types (`mixed`). An ARP frame is its header alone (`ArpFlow`).

*The gaps.* `MeanGap` is about a sum over many frames. `GapInv` says what is still owed: while a frame is
sent, what the gaps so far fell short of is no more than the deficit counter (`slack +
deficit_idle_cnt >= 0`); between two frames, the gap so far and what `ifg_cnt` has left of it, with
the deficit where the counter is still to be applied (cocotb), make up for it. The counter never
exceeds 3, and that is the bound.

*The time distribution.* What the sink shows depends on messages built hundreds of edges ago, and
the history `told` says how much of a time they have told. `TdInv` has four parts. `Framing`, `Timely` and `Wire`
give the age of each message on its way, in edges since it was built: its bits and words while it is
sent, the wait in the sink after that; so the sink takes a message when it is `14 * 17 + td_delay` edges
old, which is how far `timestamp_delay` reaches back. `History` links each time of `timestamp_delay` to
the one before (`Linked`): it is that time one edge later, as far as it has been told, and nothing
more has been told of it but by the message built on that edge. A call between two edges breaks the
link and makes untold what it changed, and so does a reset, which also frees the wire or finds
it free (`ResetFrames`). `Shows` says that the sink agrees with the time shown last in
what has been told of that; each edge moves one link on. For `AlternateRight` the offsets are numbers
modulo 2^32, and what leads from the relative time to the time of day, all seconds counted, does not
change on an edge (`TickPast`); a second more or less is `Sec` more or less (`AlternateLeads`). This needs
that 2^48 and 2^48 seconds are multiples of 2^32 and that an edge adds less than a second
(`TdAssumption`). The seconds of the sink count on past 2^48 as those of the source do; what a message
can carry, and so what agrees, are the seconds modulo 2^48.

*The Wishbone bus.* `WbAsCommanded` speaks of the moment the master is idle; `WbInv` of every moment
before. `Hand` is the handshake: one cycle is asked for and served at a time, and the answer is
withdrawn before the next. `Progress` says how far the command is: the cycles served have changed the RAM up to
their last lane and no further, or have brought as many bytes. `ToCome` links the two ends: the states of
`Done` lead from what the RAM and the reads are now (`Here`; `Soon` when the command in hand is through) over
the commands waiting to `wb_wanted`. A command in hand may be done again, as serving one of its
words does not change what it leads to. The words lie inside the RAM (`BlockInside`), and what is
selected are the bytes of the command and no others (`LanesWhole`): that needs calls in whole words and
inside a RAM that is a multiple of the bus wide (`Whole`, `WbAssumption`).

*The AXI bus.* Five channels run at their own pace, so `AxInv` says for every word on the way what it
is for. `Answered`: each call is answered or in flight. `WordsOwed`: a word of data has its address, in the
queue or in the RAM already, and the words the write calls still wait for add up (`AddsUp`) to those in
the queues, in the RAM and answered. `WordsLead`: storing the words that wait, each at its
address and under its strobes (`PutWord`), leads from `ram` to `wanted_ram`, unless a read moved the
position (`moved`). `WordsRead`: the words asked for have places, from the answers over the one in the RAM to
the addresses that wait; each place belongs to one call and to one of its words, and what is
there fits that word (`Fits`): an answer brings for each byte a value that was in the RAM since the
call (`Serves`), an address is the one of the word. A store between adds its bytes to what the calls may
bring, and takes nothing away. It needs calls that stay in the RAM, and a RAM of whole words
(`AxilAssumption`): the position of the file would be past its end otherwise.

Only model-checked: the liveness properties (`MainLoopTurns`, `MeasuresForGood`, `FramesLeave`,
`CommandsLeave`), as the prover does neither fairness nor ENABLED; and of the units of
`MCUnits` these: `FrameAsSent`, `SurvivesWire` and `SumsVerify`, where a frame of any length is encoded and
decoded by one recursion over its bytes and the proof is an induction over data; `FramesArrive`, which
decodes blocks of every kind; `MemoryAsCommanded`, where a call is some hundred levels of two
lines.
`RtcTypeOK` is proved and is in no run; `TimeValid`, which rests on it, is in both.

## 5. Not modelled

* The processor, the UDP/IP stack but for `eth_axis_tx` and the input of `udp_checksum_gen`, the
  I2C cores, vendor IP: third party. The dual-clock FIFO is modelled by the delay of its flags.
* Console characters, printing, the start-up code, SFP initialisation (a fixed list of I2C
  writes), buttons and display: no influence on the protocol but the moment of a command.
* Metastability and the phases of the clocks below one edge.
* The parser's byte counters, and the bus decoder, which is a comparison of address bits.
* Of the test benches: the tests themselves, the scrambler and slip of the serial lanes, the queue
  limits of the cocotb models, conversions to Decimal, `ll_ep.py`, `ptp.py`, and the two older
  copies of `axis_ep.py`.

Some hazards have no property, because the code simply does what is hazardous and the properties
near them leave the case out by a history variable, named in `hazards`: a command typed faster than it
is sent (`full`), a reset between a header and its payload (`mixed`), a payload changed after a build
(`outdated`), a start where a memory expects an address (`unheard`), a read between the seek of a write and
its word (`moved`). The time that passes in `setTime` between reading the clock and loading it is lost
on every adjustment; `SetOnce` allows for it.

Some behaviours of the test models were met on the way and are outside what the properties
state; a user of these models should know them:

* `ptp_td.py`: a sink that starts or is reset in the middle of a message, or loses the rest of one
  because the source is reset, takes data bits for start bits until the wire is quiet, and a message
  shorter than 14 words is an `IndexError`; the data bits are not modelled, so `TdReset` resets one
  end alone only while no message is on the wire. A `td_delay` longer than the distance of two messages leaves the sink without any;
  the sink's `get_period_ns` forgets `/ 2**32` where a drift is set; `set_ts_tod_64` reads another layout
  than it writes.
* `udp_ep.py` and its kind: a payload of no bytes is an `IndexError` in the source; a sink takes
  `tvalid` without looking at its own `tready_int`; a computed UDP checksum of 0 is sent as 0, which
  means "none"; options of an IP header (`ihl > 5`) are taken for payload.
* `baser_serdes_ep.py:271` and `:555`: the codes of ordered sets differ between encoder and decoder; no
  frame of the tests holds an ordered set.
* `xgmii_ep.py`: an error in the word of the start character loses the frame.
* `gmii_ep.py`: a frame of one byte gets no gap behind it, an empty one is an `IndexError`; edges with
  `clk_enable` low change nothing. `rgmii_ep.py`: the two stages are not reset.
* `i2c.py`: a write shorter than the address pointer is a `TypeError`; after a read of nothing
  the memory already holds the line for its first bit, and the master's stop is not seen if that is 0.
* `wb.py:77`: `read_data_ready` says the opposite; an access that starts or ends inside a word of
  several bytes overwrites the rest of the word with zeros, as a word is selected as a whole.

## 6. Plan

Order of work, the most important first: firmware and queues (`PtpSlave`, `PtpSystem`),
clock (`Rtc`, `RtcRegs`), numbers (`TimeArith`, `Servo`), stamping unit (`EventQueue`,
`Tsu`), transmit path (`TxMux`), commands (`TssTx`), and the models the test benches rest on
(`FrameCodec` to `WbBus`) - these exist. Next:

1. `PtpParser`: word counters and comparators against a reference parse of the frame, for
   PTP over Ethernet and over UDP, with and without VLAN tag.
2. The bus of the SoC: master, decoder and wrappers; `MinGap` of `RtcRegs` and the two-clock strobe
   of `TxMux` become consequences.
3. Composition of `Tsu` and `PtpSlave`: the queues of `PtpSlave` as a refinement of
   `EventQueue`.
4. Proofs: the memory of `I2cBus`, `FramesArrive` and `FrameAsSent`.
5. `DelayOfOneExchange` and `QueueDrains` of a corrected loop, as a model beside the
   present one, if the code is changed.
