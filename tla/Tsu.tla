-------------------------------- MODULE Tsu --------------------------------
(***************************************************************************)
(* A time-stamping unit (rtl/ptp/tsu.v) between the clock of the GMII and  *)
(* the clock of the RTC, which is also the bus clock the queues are read   *)
(* by.  One step is one rising edge of either clock.                       *)
(*                                                                         *)
(* The rise of int_gmii_ctrl is carried into the RTC domain, the time is   *)
(* captured there, an acknowledge is carried back and the stamp is latched *)
(* in the GMII domain; after the end of the frame the stamp and what the   *)
(* parser found are written to two queues: `queue' (information and stamp) *)
(* and `ts_queue' (origin time stamp), each with flags of its own, which   *)
(* the other clock domain learns of late and not at the same edge.         *)
(*                                                                         *)
(* A time is represented by the frame on the line when it was captured and *)
(* the edges the frame had lasted.                                         *)
(***************************************************************************)
EXTENDS Integers, Sequences

CONSTANTS
  Depth,      \* entries of a queue (16)
  Lens,       \* lengths of frames, in clocks of int_gmii_ctrl
  MinGap,     \* smallest gap between two frames, in clocks
  BusTime,    \* clocks from a read of the queue status to the pop it decides
  MaxSkew,    \* how far the clocks can slip against each other, in edges
  MaxFrames   \* bound: frames

ASSUME TsuAssumption ==
  /\ Depth \in Nat \ {0} /\ Lens \subseteq Nat \ {0} /\ MinGap \in Nat
  /\ BusTime \in Nat \ {0} /\ MaxSkew \in Nat \ {0} /\ MaxFrames \in Nat

VARIABLES
  events,     \* the frames the parser finds an event in
  frame,      \* number of the frame on the line or of the last one
  ctrl, n, len, \* int_gmii_ctrl, the edges since it changed, the frame's length
  req,        \* ts_req_d1 .. d3
  rtc_time_stamp, ts_ack,
  ack, ts_ack_clr, tsu_time_stamp,    \* ack: ts_ack_d1 .. d3
  queue, ts_queue,
  unseen,     \* entries of either queue its reader does not know of yet
  unfreed,    \* pops of either queue its writer does not know of yet
  reader,     \* clocks until the pop, 0 when none is decided
  out,        \* the pair of entries last delivered
  skew,       \* edges the GMII clock is ahead
  met_full    \* history: a write has met a full queue

line   == <<events, frame, ctrl, n, len>>
vars   == <<line, req, rtc_time_stamp, ts_ack, ack, ts_ack_clr, tsu_time_stamp,
            queue, ts_queue, unseen, unfreed, reader, out, skew, met_full>>
-----------------------------------------------------------------------------
NoStamp == [frame |-> 0, late |-> 0]
Both(x) == [queue |-> x, ts_queue |-> x]

(* Three flip-flops in a row, and the rise of the second over the third.   *)
Shift(s, v) == <<v, s[1], s[2]>>
Rise(s)     == s[2] /\ ~s[3]
Low         == <<FALSE, FALSE, FALSE>>

Init ==
  /\ events \in SUBSET (1 .. MaxFrames)
  /\ frame = 0 /\ ctrl = FALSE /\ n = MinGap /\ len = 0
  /\ req = Low /\ rtc_time_stamp = NoStamp /\ ts_ack = FALSE
  /\ ack = Low /\ ts_ack_clr = FALSE /\ tsu_time_stamp = NoStamp
  /\ queue = << >> /\ ts_queue = << >>
  /\ unseen = Both(0) /\ unfreed = Both(0)
  /\ reader = 0 /\ out = [queue |-> 0, ts_queue |-> 0]
  /\ skew = 0 /\ met_full = FALSE
-----------------------------------------------------------------------------
(***************************************************************************)
(* An edge of the GMII clock.                                              *)
(***************************************************************************)

(* int_eop comes in the first clocks of the gap when int_bcnt is 3, and    *)
(* the write three clocks later; there is no int_eop when the length is    *)
(* 1 mod 4, which the length of no PTP message is.                         *)
WriteClock == 3 + CASE len % 4 = 0 -> 1 [] len % 4 = 3 -> 2 [] OTHER -> 3
EndOfFrame == ~ctrl /\ frame > 0 /\ n = WriteClock

Line ==
  \/ /\ ctrl /\ n < len
     /\ n' = n + 1 /\ UNCHANGED <<frame, ctrl, len>>
  \/ /\ ctrl /\ n = len
     /\ ctrl' = FALSE /\ n' = 1 /\ UNCHANGED <<frame, len>>
  \/ /\ ~ctrl
     /\ n' = IF n > MinGap THEN n ELSE n + 1
     /\ UNCHANGED <<frame, ctrl, len>>
  \/ /\ ~ctrl /\ n >= MinGap /\ frame < MaxFrames
     /\ frame' = frame + 1 /\ ctrl' = TRUE /\ n' = 1
     /\ len' \in {l \in Lens : frame' \in events => l % 4 # 1}

(* Mutant: the acknowledge is never cleared.                               *)
AcknowledgeKept ==
  /\ ack' = Shift(ack, ts_ack)
  /\ tsu_time_stamp' = IF Rise(ack) THEN rtc_time_stamp ELSE tsu_time_stamp
  /\ ts_ack_clr' = FALSE
  /\ ts_ack' = ts_ack

(* ts_ack_clr clears ts_ack without waiting for a clock.                   *)
Acknowledge ==
  /\ ack' = Shift(ack, ts_ack)
  /\ tsu_time_stamp' = IF Rise(ack) THEN rtc_time_stamp ELSE tsu_time_stamp
  /\ ts_ack_clr' = Rise(ack)
  /\ ts_ack' = (ts_ack /\ ~Rise(ack))

(* Mutant: one entry is never used.                                        *)
FullEarly(w, s) == Len(s) + unfreed[w] >= Depth - 1

(* wrfull of a queue: a pop counts when the writer knows of it.            *)
Full(w, s) == Len(s) + unfreed[w] >= Depth

(* Mutant: no overflow protection.                                         *)
WriteQueuesUnprotected ==
  /\ queue' = Append(queue, [frame |-> frame, stamp |-> tsu_time_stamp])
  /\ ts_queue' = Append(ts_queue, frame)
  /\ unseen' = [w \in DOMAIN unseen |-> unseen[w] + 1]
  /\ met_full' = met_full

WriteQueues ==
  /\ queue' = IF Full("queue", queue) THEN queue
              ELSE Append(queue, [frame |-> frame, stamp |-> tsu_time_stamp])
  /\ ts_queue' = IF Full("ts_queue", ts_queue) THEN ts_queue ELSE Append(ts_queue, frame)
  /\ unseen' = [queue    |-> unseen.queue + IF Full("queue", queue) THEN 0 ELSE 1,
                ts_queue |-> unseen.ts_queue + IF Full("ts_queue", ts_queue) THEN 0 ELSE 1]
  /\ met_full' = (met_full \/ Full("queue", queue) \/ Full("ts_queue", ts_queue))

(* What one clock domain has not learned yet it may learn on this edge;    *)
(* the queues differ by one edge at most.                                  *)
Learned(u) == LET less == IF u.queue < u.ts_queue THEN u.queue ELSE u.ts_queue
              IN  [{"queue", "ts_queue"} -> 0 .. less]

GmiiEdge ==
  /\ skew < MaxSkew /\ skew' = skew + 1
  /\ Line /\ Acknowledge
  /\ IF EndOfFrame /\ frame \in events
     THEN WriteQueues
     ELSE UNCHANGED <<queue, ts_queue, unseen, met_full>>
  /\ unfreed' \in Learned(unfreed)
  /\ UNCHANGED <<events, req, rtc_time_stamp, reader, out>>
-----------------------------------------------------------------------------
(***************************************************************************)
(* An edge of the RTC and bus clock.                                       *)
(***************************************************************************)
Capture ==
  /\ req' = Shift(req, ctrl)
  /\ rtc_time_stamp' = IF Rise(req) THEN [frame |-> frame, late |-> n] ELSE rtc_time_stamp
  /\ ts_ack' = (~ts_ack_clr /\ (ts_ack \/ Rise(req)))

(* rdusedw and rdempty: an entry counts when the reader knows of it.       *)
Visible(w, s) == Len(s) - unseen[w]

Busy == /\ reader' = IF reader > 1 THEN reader - 1 ELSE reader
        /\ reader # 1
        /\ UNCHANGED <<queue, ts_queue, unfreed, out>>
        /\ unseen' \in Learned(unseen)

(* The firmware has read a status that is not 0: rdusedw of 16 is 0.       *)
Poll ==
  /\ reader = 0 /\ Visible("queue", queue) % Depth # 0
  /\ reader' = BusTime
  /\ UNCHANGED <<queue, ts_queue, unfreed, out>>
  /\ unseen' \in Learned(unseen)

(* rdreq, with underflow protection; a queue that is not read shows its    *)
(* last entry again.                                                       *)
Pop ==
  /\ reader = 1 /\ reader' = 0
  /\ LET q == Visible("queue", queue) # 0
         t == Visible("ts_queue", ts_queue) # 0
     IN  /\ queue'    = IF q THEN Tail(queue) ELSE queue
         /\ ts_queue' = IF t THEN Tail(ts_queue) ELSE ts_queue
         /\ out' = [queue    |-> IF q THEN queue[1].frame ELSE out.queue,
                    ts_queue |-> IF t THEN ts_queue[1] ELSE out.ts_queue]
         /\ unfreed' = [queue    |-> unfreed.queue + IF q THEN 1 ELSE 0,
                        ts_queue |-> unfreed.ts_queue + IF t THEN 1 ELSE 0]
  /\ UNCHANGED unseen

(* Mutant: aclr is not connected to ts_queue.                              *)
ResetOne ==
  /\ reader = 0 /\ UNCHANGED <<reader, out, ts_queue>>
  /\ queue' = << >>
  /\ unseen' = [unseen EXCEPT !.queue = 0] /\ unfreed' = [unfreed EXCEPT !.queue = 0]

(* ptpInit: aclr of both queues.                                           *)
Reset ==
  /\ reader = 0 /\ UNCHANGED <<reader, out>>
  /\ queue' = << >> /\ ts_queue' = << >>
  /\ unseen' = Both(0) /\ unfreed' = Both(0)

RtcEdge ==
  /\ skew > -MaxSkew /\ skew' = skew - 1
  /\ Capture
  /\ Busy \/ Poll \/ Pop \/ Reset
  /\ UNCHANGED <<line, ack, ts_ack_clr, tsu_time_stamp, met_full>>

Next == GmiiEdge \/ RtcEdge

Spec == Init /\ [][Next]_vars
-----------------------------------------------------------------------------
TypeOK ==
  /\ frame \in 0 .. MaxFrames /\ ctrl \in BOOLEAN /\ n \in Nat
  /\ req \in [1 .. 3 -> BOOLEAN] /\ ack \in [1 .. 3 -> BOOLEAN]
  /\ ts_ack \in BOOLEAN /\ ts_ack_clr \in BOOLEAN
  /\ {rtc_time_stamp.frame, tsu_time_stamp.frame} \subseteq 0 .. frame
  /\ Len(queue) <= Depth /\ Len(ts_queue) <= Depth
  /\ unseen.queue \in 0 .. Len(queue) /\ unseen.ts_queue \in 0 .. Len(ts_queue)
  /\ unfreed \in [{"queue", "ts_queue"} -> 0 .. Depth]
  /\ reader \in 0 .. BusTime /\ skew \in -MaxSkew .. MaxSkew

(* The clocks a frame may have lasted when its time is captured: 2 to 4    *)
(* when the clocks slip by one edge.                                       *)
Late == 4 - 2 * MaxSkew .. 2 + 2 * MaxSkew

(* The stamp of an event was captured a few clocks after the start of the  *)
(* very frame it is reported with, wherever the edges of the two clocks    *)
(* fall and however closely the frames follow each other (tsu.v:190-251).  *)
OwnStamp ==
  \A i \in 1 .. Len(queue) : /\ queue[i].stamp.frame = queue[i].frame
                             /\ queue[i].stamp.late \in Late

(* As long as no write has met a full queue, the two queues hold the same  *)
(* frames, and every pop delivers the stamp and the origin time stamp of   *)
(* one frame, although each queue has flags of its own (tsu.v:353-400).    *)
Paired ==
  ~met_full => /\ [i \in 1 .. Len(queue) |-> queue[i].frame] = ts_queue
               /\ out.queue = out.ts_queue

(* The last frame that was dealt with, the entries in brief, and the free  *)
(* entries the writer sees.                                                *)
Dealt    == IF frame > 0 /\ (ctrl \/ n <= WriteClock) THEN frame - 1 ELSE frame
Reported == [i \in 1 .. Len(queue) |->
               [frame |-> queue[i].frame, stamp |-> queue[i].stamp.frame]]
FreeSeen == Depth - Len(queue) - unfreed.queue

(* The queue of the stamps is the queue EventQueue specifies: an event     *)
(* frame is left out only when the writer sees no free entry.              *)
Promise == INSTANCE EventQueue WITH last <- Dealt, q <- Reported, credit <- FreeSeen

KeepsPromise == Promise!QueueSpec
=============================================================================
