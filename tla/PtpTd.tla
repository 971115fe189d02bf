-------------------------------- MODULE PtpTd --------------------------------
(***************************************************************************)
(* PTP time distribution over one wire, as the bus-functional models       *)
(* PtpTdSource and PtpTdSink of udp_alex/udp/tb/ptp_td.py send and receive *)
(* it.  The source keeps the time and sends a message every Gap + 1        *)
(* clocks, of three kinds in turn; the sink keeps the time on its own and  *)
(* takes over what a message says td_delay clocks after its end.  The      *)
(* source also keeps its time of the last 14 * 17 + td_delay clocks, to    *)
(* show what the sink is to show.  One step is one rising edge of clock,   *)
(* or a call between two edges.                                            *)
(*                                                                         *)
(* Times are in nanoseconds and parts (fns) of one, a period is in parts.  *)
(* A data bit stands for the message it is a bit of: the framing, by start *)
(* bits and counting, does not look at the data.  Rates and Drifts are     *)
(* those that fit the words that carry them.                               *)
(***************************************************************************)
EXTENDS Integers, Sequences

CONSTANTS
  Words, Bits,     \* words of a message (14) and bits of a word (16)
  Gap,             \* msg_delay after a message was built (255)
  TdDelay,         \* td_delay of both ends
  Fns,             \* parts of a nanosecond (2^32)
  Sec, Late,       \* nanoseconds of a second, and where its last part begins (7 << 27)
  OffMod, RelMod,  \* values of an offset (2^32) and of ts_rel_ns (2^48)
  SecMod,          \* values of ts_tod_s on the wire (2^48)
  Rates, Drifts,   \* periods, and pairs <<num, denom>>, the calls bring
  Days, Rels,      \* times of day <<s, ns, fns>> and relative times <<ns, fns>>
  MaxSets, MaxEdge \* bounds: calls, edges

Length == Words * (Bits + 1)

ASSUME TdAssumption ==
  /\ {Words, Bits, Gap, TdDelay, Fns, Sec, OffMod, SecMod} \subseteq Nat \ {0}
  /\ Length < Gap /\ TdDelay <= Gap /\ Sec < OffMod
  /\ RelMod \in Nat \ {0} /\ RelMod % OffMod = 0 /\ (SecMod * Sec) % OffMod = 0
  /\ Rates \subseteq Nat /\ Drifts \subseteq Nat \X Nat
  /\ \A p \in Rates, d \in Drifts : p + d[1] <= (Sec - 1) * Fns
  /\ Days \subseteq Nat \X (0 .. Sec - 1) \X (0 .. Fns - 1)
  /\ Rels \subseteq (0 .. RelMod - 1) \X (0 .. Fns - 1)

VARIABLES
  source,             \* the time, its rate and the drift of PtpTdSource
  delay,              \* timestamp_delay; history: the rate and what had been told then
  kind, gap,          \* msg_index and msg_delay of the source
  out, left, bit_out, \* the message being sent, words left of it, bits of the word so far
  data,               \* the wire
  sink,               \* the same of PtpTdSink
  offsets,            \* ts_tod_offset_ns, ts_tod_alt_s and ts_tod_alt_offset_ns of the sink
  words_in, bit_in,   \* cur_msg and bits of the word so far
  msg, wait,          \* the message that waits, and for how long
  told,               \* history: what messages have told since it was set
  due,                \* history: what get_ts_tod of the source showed before the edge
  sets, edge

tdSource == <<source, delay, kind, gap, out, left, bit_out, data>>
tdSink   == <<sink, offsets, words_in, bit_in, msg, wait>>
tdVars   == <<tdSource, tdSink, told, due, sets, edge>>
-----------------------------------------------------------------------------
Clocks0 == [s |-> 0, ns |-> 0, rel |-> 0, fns |-> 0,
            period |-> 0, num |-> 0, denom |-> 0, cnt |-> 0]
NoMsg   == [kind |-> -1]
IdleBit    == [bit |-> 1, of |-> NoMsg]
StartBit   == [bit |-> 0, of |-> NoMsg]
Item(c, t) == [now |-> c, told |-> t]

TdInit ==
  /\ \E p \in Rates, d \in Drifts :
       source = [Clocks0 EXCEPT !.period = p, !.num = d[1], !.denom = d[2]]
  /\ delay = << Item(Clocks0, {}) >>
  /\ kind = 0 /\ gap = 0 /\ out = NoMsg /\ left = 0 /\ bit_out = 0 /\ data = IdleBit
  /\ sink = Clocks0 /\ offsets = [off |-> 0, alt_s |-> 0, alt |-> 0]
  /\ words_in = << >> /\ bit_in = 0 /\ msg = NoMsg /\ wait = 0
  /\ told = {} /\ due = Item(Clocks0, {}) /\ sets = 0 /\ edge = 0

(* One edge: the period, num parts more every denom edges, the seconds.    *)
Tick(c) ==
  LET extra == c.denom > 0 /\ c.cnt = 0
      parts == c.fns + c.period + IF extra THEN c.num ELSE 0
      ns    == c.ns + parts \div Fns
  IN  [s   |-> IF ns >= Sec THEN c.s + 1 ELSE c.s,
       ns  |-> IF ns >= Sec THEN ns - Sec ELSE ns,
       rel |-> (c.rel + parts \div Fns) % RelMod,
       fns |-> parts % Fns,
       period |-> c.period, num |-> c.num, denom |-> c.denom,
       cnt |-> IF c.denom = 0 THEN c.cnt ELSE IF extra THEN c.denom - 1 ELSE c.cnt - 1]

Offset(c) == (c.ns - c.rel) % OffMod

(* Mutant: the offset of the second to come is that of the one before.     *)
AlternateSame(c) ==
  [alt_s |-> (IF c.ns >= Late THEN c.s + 1 ELSE c.s - 1) % SecMod,
   alt   |-> (Offset(c) + Sec) % OffMod]

(* In the last part of a second the offset of the next one, else of the    *)
(* one before.                                                             *)
Alternate(c) ==
  IF c.ns >= Late
  THEN [alt_s |-> (c.s + 1) % SecMod, alt |-> (Offset(c) - Sec) % OffMod]
  ELSE [alt_s |-> (c.s - 1) % SecMod, alt |-> (Offset(c) + Sec) % OffMod]

(* What the messages of each kind carry, besides what all do.              *)
Body(k, c) ==
  CASE k = 0 -> [s |-> c.s % SecMod, ns |-> c.ns]
    [] k = 1 -> [off |-> Offset(c), num |-> c.num, denom |-> c.denom, cnt |-> c.cnt]
    [] k = 2 -> Alternate(c)

Message(k, c) == [kind |-> k, body |-> Body(k, c),
                  fns |-> c.fns, rel |-> c.rel, period |-> c.period]

(* What a message with everything it carries has told (history).           *)
Tells(k) == told \cup {"time"}
            \cup (IF k = 0 /\ "drift" \in told THEN {"tod"} ELSE {})
            \cup (IF k = 1 THEN {"drift"} ELSE {})
            \cup (IF k = 2 THEN {"alt"} ELSE {})

(* Mutant: the time kept for get_ts_tod is one edge younger.               *)
DelayShort(c) ==
  /\ due' = Head(delay)
  /\ delay' = LET d == Append(delay, Item(c, told))
              IN  IF Len(d) >= Length + TdDelay THEN Tail(d) ELSE d

Delay(c) ==
  /\ due' = Head(delay)
  /\ delay' = LET d == Append(delay, Item(c, told))
              IN  IF Len(d) > Length + TdDelay THEN Tail(d) ELSE d

(* Build the next message when it is due.                                  *)
Build(c) ==
  IF gap <= 0
  THEN /\ out' = Message(kind, c) /\ kind' = (kind + 1) % 3 /\ gap' = Gap
       /\ told' = Tells(kind)
  ELSE gap' = gap - 1 /\ UNCHANGED <<out, kind, told>>

(* A start bit and the bits of a word, while words are left.               *)
Serialize ==
  LET words == IF gap <= 0 THEN Words ELSE left
  IN  IF bit_out = 0
      THEN IF words > 0
           THEN data' = StartBit /\ left' = words - 1 /\ bit_out' = 1
           ELSE data' = IdleBit /\ left' = 0 /\ bit_out' = 0
      ELSE /\ data' = [bit |-> 1, of |-> out']
           /\ left' = words
           /\ bit_out' = IF bit_out = Bits THEN 0 ELSE bit_out + 1

Source ==
  LET c == Tick(source)
  IN  source' = c /\ Delay(source) /\ Build(c) /\ Serialize
-----------------------------------------------------------------------------
(* Mutant: the sink takes a time of day without its second.                *)
TakeNoSecond(c, m) ==
  [c EXCEPT !.fns = m.fns, !.rel = m.rel, !.period = m.period,
            !.ns    = IF m.kind = 0 THEN m.body.ns ELSE @,
            !.num   = IF m.kind = 1 THEN m.body.num ELSE @,
            !.denom = IF m.kind = 1 THEN m.body.denom ELSE @,
            !.cnt   = IF m.kind = 1 THEN m.body.cnt ELSE @]

(* A message replaces what the sink counted.                               *)
Take(c, m) ==
  [s     |-> IF m.kind = 0 THEN m.body.s ELSE c.s,
   ns    |-> IF m.kind = 0 THEN m.body.ns ELSE c.ns,
   rel   |-> m.rel, fns |-> m.fns, period |-> m.period,
   num   |-> IF m.kind = 1 THEN m.body.num ELSE c.num,
   denom |-> IF m.kind = 1 THEN m.body.denom ELSE c.denom,
   cnt   |-> IF m.kind = 1 THEN m.body.cnt ELSE c.cnt]

TakeOffsets(m) ==
  [off   |-> IF m.kind = 1 THEN m.body.off ELSE offsets.off,
   alt_s |-> IF m.kind = 2 THEN m.body.alt_s ELSE offsets.alt_s,
   alt   |-> IF m.kind = 2 THEN m.body.alt ELSE offsets.alt]

Now == wait <= 1 /\ msg # NoMsg

Process ==
  LET c == Tick(sink)
  IN  /\ sink' = IF Now THEN Take(c, msg) ELSE c
      /\ offsets' = IF Now THEN TakeOffsets(msg) ELSE offsets

(* A word ends after its last bit; a message ends with an idle bit between *)
(* two words.                                                              *)
Ends == bit_in = 0 /\ data.bit = 1 /\ words_in # << >>

Deserialize ==
  /\ bit_in' = IF bit_in = 0 THEN 1 - data.bit ELSE IF bit_in = Bits THEN 0 ELSE bit_in + 1
  /\ words_in' = CASE bit_in = Bits -> Append(words_in, data.of)
                   [] Ends          -> << >>
                   [] OTHER         -> words_in
  /\ msg' = IF Ends THEN Head(words_in) ELSE IF Now THEN NoMsg ELSE msg
  /\ wait' = IF Ends THEN TdDelay ELSE IF wait > 0 THEN wait - 1 ELSE 0

Sink == Process /\ Deserialize

(* Both ends see the same clock.                                           *)
TdClock ==
  /\ edge < MaxEdge /\ edge' = edge + 1
  /\ Source /\ Sink
  /\ UNCHANGED sets
-----------------------------------------------------------------------------
(* A call of the source between two edges; unsaid is what it makes untold. *)
Set(c, unsaid) ==
  /\ sets < MaxSets /\ sets' = sets + 1
  /\ source' = c /\ told' = told \ unsaid
  /\ UNCHANGED <<delay, kind, gap, out, left, bit_out, data, tdSink, due, edge>>

set_period == \E p \in Rates : Set([source EXCEPT !.period = p], {"time", "tod"})

set_drift  == \E d \in Drifts :
                Set([source EXCEPT !.num = d[1], !.denom = d[2]], {"time", "tod", "drift"})

set_ts_tod == \E t \in Days :
                Set([source EXCEPT !.s = t[1], !.ns = t[2], !.fns = t[3]],
                    {"time", "tod", "alt"})

set_ts_rel == \E t \in Rels :
                Set([source EXCEPT !.rel = t[1], !.fns = t[2]], {"time", "tod", "alt"})

Cleared(c) == [s |-> 0, ns |-> 0, rel |-> 0, fns |-> 0,
               period |-> c.period, num |-> c.num, denom |-> c.denom, cnt |-> 0]

(* A reset ends the coroutine of an end and starts it again from its first *)
(* line; the period, the drift and timestamp_delay are kept.               *)
SourceAnew ==
  /\ source' = Cleared(source)
  /\ kind' = 0 /\ gap' = 0 /\ out' = NoMsg /\ left' = 0 /\ bit_out' = 0 /\ data' = IdleBit

SinkAnew ==
  /\ sink' = Cleared(sink) /\ words_in' = << >> /\ bit_in' = 0 /\ msg' = NoMsg /\ wait' = 0
  /\ UNCHANGED offsets

(* No message is on the wire.                                              *)
WireFree == left = 0 /\ bit_out = 0 /\ data = IdleBit /\ words_in = << >> /\ bit_in = 0

(* Both ends are reset together at any time, or one of them while no       *)
(* message is on the wire: a sink that starts in the middle of one, or     *)
(* loses the rest of it, takes data for start bits, and the data of a      *)
(* message is not modelled.  (A message that waits is taken before the     *)
(* next one ends, as with td_delay = 32 of Length = 238.)  The times kept  *)
(* are none the sink will show.                                            *)
TdReset ==
  /\ sets < MaxSets /\ sets' = sets + 1
  /\ \/ SourceAnew /\ SinkAnew
     \/ WireFree /\ wait <= Length /\ SourceAnew /\ UNCHANGED tdSink
     \/ WireFree /\ SinkAnew /\ UNCHANGED <<source, kind, gap, out, left, bit_out, data>>
  /\ delay' = [i \in DOMAIN delay |-> [delay[i] EXCEPT !.told = {}]]
  /\ due' = [due EXCEPT !.told = {}] /\ told' = {}
  /\ UNCHANGED edge

TdNext == TdClock \/ set_period \/ set_drift \/ set_ts_tod \/ set_ts_rel \/ TdReset

TdSpec == TdInit /\ [][TdNext]_tdVars
-----------------------------------------------------------------------------
(* Once the messages have told it, the sink shows the time the source      *)
(* showed one edge before, on every edge and not only where a message      *)
(* arrives: across seconds, with a drift, and however calls, resets and    *)
(* messages under way meet; the seconds are those a message can carry      *)
(* (ptp_td.py:141-143,224-227,410-411,498-603).                            *)
SinkFollows ==
  {"time", "drift"} \subseteq due.told =>
    /\ sink.rel = due.now.rel /\ sink.fns = due.now.fns
    /\ "tod" \in due.told => sink.ns = due.now.ns /\ sink.s % SecMod = due.now.s % SecMod

(* In the second it names, the alternate offset leads from the relative    *)
(* time to the time of day, although it was computed in another second     *)
(* (ptp_td.py:257-265,544-557).                                            *)
AlternateRight ==
  {"time", "drift", "tod", "alt"} \subseteq due.told /\ sink.s = offsets.alt_s =>
    (sink.rel + offsets.alt) % OffMod = sink.ns
=============================================================================
