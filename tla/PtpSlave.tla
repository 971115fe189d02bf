------------------------------ MODULE PtpSlave ------------------------------
(***************************************************************************)
(* The firmware of the PTP slave (fw/main.c, fw/ptp_drv.c) and the event   *)
(* queues of the two time-stamping units (rtl/ptp/tsu.v, read through      *)
(* rtl/ptp/regs.v), in an arbitrary network: any frame may arrive at any   *)
(* moment, and an issued Delay_Req leaves the MAC at any later moment.     *)
(*                                                                         *)
(* The firmware is one endless loop without interrupts.  A step of the     *)
(* model ends where the hardware can be seen to interfere: between a read  *)
(* of a status register and the access it decides, and between the start   *)
(* of the Delay_Req generator and the time stamp the loop waits for.       *)
(*                                                                         *)
(* A time value is represented by the event it is the time of.  The field  *)
(* `of' of a frame names the exchange (Sync, Follow_Up) or the Delay_Req   *)
(* (Delay_Resp) the frame belongs to; the program never sees it, it sees   *)
(* the message id and the sequence number only.  A time read from the      *)
(* local clock also carries the `epoch' of that clock: the number of times *)
(* it had been adjusted.  Two local times are comparable when their epochs *)
(* are equal.                                                              *)
(***************************************************************************)
EXTENDS Integers, Sequences

CONSTANTS
  QDepth,       \* entries of a time-stamp queue (the dcfifo holds 16)
  SeqMod,       \* sequence numbers the firmware can tell apart (& 0xff: 256)
  Frames,       \* the frames the network can bring
  MaxArrivals,  \* bound: frames that reach the receiver
  MaxKeys       \* bound: commands typed on the UART

ASSUME QAssumption == QDepth \in Nat \ {0} /\ SeqMod \in Nat \ {0}

MsgId == {"SYNC", "FOLLOW_UP", "DELAY_REQ", "DELAY_RESP", "ANNOUNCE"}
Frame == [id : MsgId, seq : 0 .. SeqMod - 1, of : Nat]

ASSUME FramesAssumption == Frames \subseteq Frame
ASSUME BoundsAssumption == MaxArrivals \in Nat /\ MaxKeys \in Nat

VARIABLES
  pc,           \* where the main loop is
  ready,        \* ptpInit has run: clock period loaded, message masks set
  message,      \* the message last read from the receive queue
  sync_seq_id,  \* message.sync_seq_id, which readMsgRx leaves alone
  ts1, ts2, ts3, ts4,
  delay,        \* what the global delay holds: 0, a round-trip, or nonsense
  offset,       \* what the global offset holds, and the epoch it was taken in
  rtc_offset,   \* how many measured offsets the RTC_OFFSET register sums up
  rxq, txq,     \* the receive and the transmit time-stamp queues
  gen,          \* the Delay_Req between ptp_gen and the wire, 0 for none
  dreq,         \* number of Delay_Req issued
  epoch,        \* number of adjustments of the local clock
  arrivals,     \* number of frames written to the receive queue
  keys,         \* number of UART commands
  exchange,     \* history: how far an undisturbed exchange has got
  handed        \* history: the offset setTime or applyOffset last worked with

hwVars   == <<ready, rxq, txq, gen, epoch, rtc_offset>>
fwVars   == <<pc, message, sync_seq_id, ts1, ts2, ts3, ts4, delay, offset>>
histVars == <<dreq, arrivals, keys, exchange, handed>>
vars     == <<hwVars, fwVars, histVars>>
-----------------------------------------------------------------------------
(* A time that is no point in time: initial zero, or a duration.           *)
NoTime == [of |-> 0, ep |-> 0]
Time   == [of : Nat, ep : Nat]

Entry   == [id : MsgId, seq : 0 .. SeqMod - 1, of : Nat, ep : Nat, no : Nat]
NoEntry == [id |-> "SYNC", seq |-> 0, of |-> 0, ep |-> 0, no |-> 0]

Pc == {"uart", "params", "poll", "read", "SYNC", "FOLLOW_UP", "DELAY_RESP",
       "issue", "wait", "adjust"}

(* rdusedw of a 16-deep dcfifo is 4 bits wide: a full queue reads as 0.    *)
Used(q) == Len(q) % QDepth

(* Mutant: no overflow protection.                                         *)
WriteUnprotected(q, e) == Append(q, e)

(* A write to a full queue is dropped (overflow protection).               *)
Write(q, e) == IF Len(q) < QDepth THEN Append(q, e) ELSE q

(* The parser queues every message but Announce, once the mask is set.     *)
Accepted(f) == ready /\ f.id # "ANNOUNCE"
-----------------------------------------------------------------------------
Init ==
  /\ pc = "uart"
  /\ ready = FALSE
  /\ message = NoEntry
  /\ sync_seq_id = 0
  /\ ts1 = 0 /\ ts2 = NoTime /\ ts3 = NoTime /\ ts4 = 0
  /\ delay = "zero"
  /\ offset = [kind |-> "junk", ep |-> 0]
  /\ rtc_offset = 0
  /\ rxq = << >> /\ txq = << >>
  /\ gen = 0
  /\ dreq = 0 /\ epoch = 0 /\ arrivals = 0 /\ keys = 0
  /\ exchange = "broken"
  /\ handed = "none"
-----------------------------------------------------------------------------
(***************************************************************************)
(* Hardware.                                                               *)
(***************************************************************************)

(* The receive TSU has parsed frame f, stamped at its start of frame.      *)
Arrive(f) ==
  /\ arrivals < MaxArrivals
  /\ arrivals' = arrivals + 1
  /\ rxq' = IF Accepted(f)
            THEN Write(rxq, [id |-> f.id, seq |-> f.seq, of |-> f.of,
                             ep |-> epoch, no |-> arrivals + 1])
            ELSE rxq
  /\ UNCHANGED <<fwVars, ready, txq, gen, epoch, rtc_offset,
                 dreq, keys, exchange, handed>>

(* Mutant: the transmit mask does not let Delay_Req through.               *)
TransmitUnstamped ==
  /\ gen # 0
  /\ gen' = 0
  /\ UNCHANGED <<fwVars, histVars, ready, rxq, txq, epoch, rtc_offset>>

(* The Delay_Req leaves the MAC; the transmit TSU stamps and queues it.    *)
Transmit ==
  /\ gen # 0
  /\ gen' = 0
  /\ txq' = IF ready THEN Write(txq, [of |-> gen, ep |-> epoch]) ELSE txq
  /\ UNCHANGED <<fwVars, histVars, ready, rxq, epoch, rtc_offset>>
-----------------------------------------------------------------------------
(***************************************************************************)
(* The main loop: UART, then the receive queue.                            *)
(***************************************************************************)

(* No character, an echoed one, the menu or a print of the local time.     *)
UartIdle ==
  /\ pc = "uart"
  /\ pc' = "poll"
  /\ UNCHANGED <<hwVars, histVars, message, sync_seq_id, ts1, ts2, ts3, ts4,
                 delay, offset>>

(* 'i': ptpInit loads the period, sets the masks and empties both queues.  *)
ptpInit ==
  /\ pc = "uart" /\ keys < MaxKeys
  /\ pc' = "poll"
  /\ ready' = TRUE
  /\ rxq' = << >> /\ txq' = << >>
  /\ keys' = keys + 1
  /\ UNCHANGED <<gen, epoch, rtc_offset, message, sync_seq_id, ts1, ts2, ts3,
                 ts4, delay, offset, dreq, arrivals, exchange, handed>>

(* 's': getParams holds the loop until the operator has typed every value. *)
UartParams ==
  /\ pc = "uart" /\ keys < MaxKeys
  /\ pc' = "params"
  /\ keys' = keys + 1
  /\ UNCHANGED <<hwVars, message, sync_seq_id, ts1, ts2, ts3, ts4, delay,
                 offset, dreq, arrivals, exchange, handed>>

ParamsEntered ==
  /\ pc = "params"
  /\ pc' = "poll"
  /\ UNCHANGED <<hwVars, histVars, message, sync_seq_id, ts1, ts2, ts3, ts4,
                 delay, offset>>

(* Mutant: the mask bits of the status register are not masked out.        *)
RxPendingUnmasked == ready \/ Used(rxq) # 0

(* if (TSU_RXQUE_STATUS & 0x00FFFFFF > 0): > binds tighter than &, so the  *)
(* condition is bit 0 of the status.                                       *)
RxPending == Used(rxq) % 2 = 1

PollRx ==
  /\ pc = "poll"
  /\ pc' = IF RxPending THEN "read" ELSE "uart"
  /\ UNCHANGED <<hwVars, histVars, message, sync_seq_id, ts1, ts2, ts3, ts4,
                 delay, offset>>

(* Mutant: TSU_RXCTRL is not pulsed, so nothing is popped.                 *)
readMsgRxNoPop ==
  /\ pc = "read"
  /\ LET m == IF rxq = << >> THEN message ELSE Head(rxq)
     IN  /\ message' = m
         /\ pc' = IF m.id \in {"SYNC", "FOLLOW_UP", "DELAY_RESP"}
                  THEN m.id ELSE "uart"
  /\ UNCHANGED <<histVars, ready, rxq, txq, gen, epoch, rtc_offset,
                 sync_seq_id, ts1, ts2, ts3, ts4, delay, offset>>

(* readMsgRx: pop both queues and copy the latched entry.  A read of an    *)
(* empty queue is suppressed and would deliver the previous entry again.   *)
readMsgRx ==
  /\ pc = "read"
  /\ LET m == IF rxq = << >> THEN message ELSE Head(rxq)
     IN  /\ message' = m
         /\ pc' = IF m.id \in {"SYNC", "FOLLOW_UP", "DELAY_RESP"}
                  THEN m.id ELSE "uart"
  /\ rxq' = IF rxq = << >> THEN rxq ELSE Tail(rxq)
  /\ UNCHANGED <<histVars, ready, txq, gen, epoch, rtc_offset, sync_seq_id,
                 ts1, ts2, ts3, ts4, delay, offset>>
-----------------------------------------------------------------------------
(***************************************************************************)
(* The handlers of handlePTPMsg.                                           *)
(***************************************************************************)
InSequence == message.seq = sync_seq_id

(* t2 - t1 measures clock error plus path delay when both belong to one    *)
(* Sync; t4 - t3 measures path delay minus clock error when both belong to *)
(* one Delay_Req.  Half their sum is the path delay if moreover the local  *)
(* clock was not adjusted between t2 and t3.                               *)
SyncPair(t1, t2)  == t1 # 0 /\ t2.of = t1
DelayPair(t3, t4) == t4 # 0 /\ t3.of = t4

PathDelay(t1, t2, t3, t4) ==
  IF SyncPair(t1, t2) /\ DelayPair(t3, t4) /\ t2.ep = t3.ep
  THEN "path" ELSE "junk"

(* (t2 - t1) - delay is the error of the clock t2 was read from.           *)
ClockError(t1, t2, d) ==
  [kind |-> IF SyncPair(t1, t2) /\ d # "junk"
            THEN IF d = "path" THEN "error" ELSE "rough"
            ELSE "junk",
   ep   |-> t2.ep]

(* History: an exchange is undisturbed as long as the loop handles its     *)
(* Sync, its Follow_Up and the answer to the Delay_Req it then issued, and *)
(* nothing else; the Sync must have been stamped by the present clock.     *)
Step(next) == exchange' = next

handleSync ==
  /\ pc = "SYNC"
  /\ sync_seq_id' = message.seq
  /\ ts2' = [of |-> message.of, ep |-> message.ep]
  /\ pc' = "uart"
  /\ Step(IF message.ep = epoch THEN "synced" ELSE "broken")
  /\ UNCHANGED <<hwVars, message, ts1, ts3, ts4, delay, offset, dreq,
                 arrivals, keys, handed>>

(* Mutant: the sequence check of handleFollowUp is inverted.               *)
handleFollowUpInverted ==
  /\ pc = "FOLLOW_UP"
  /\ ts1' = IF InSequence THEN ts1 ELSE message.of
  /\ offset' = ClockError(ts1', ts2, delay)
  /\ pc' = "issue"
  /\ Step(IF exchange = "synced" /\ InSequence /\ message.of = ts2.of /\ ts2.of # 0
          THEN "followed" ELSE "broken")
  /\ UNCHANGED <<hwVars, message, sync_seq_id, ts2, ts3, ts4, delay, dreq,
                 arrivals, keys, handed>>

(* Mutant: updateOffset runs before handleFollowUp has stored t1.          *)
handleFollowUpLate ==
  /\ pc = "FOLLOW_UP"
  /\ ts1' = IF InSequence THEN message.of ELSE ts1
  /\ offset' = ClockError(ts1, ts2, delay)
  /\ pc' = "issue"
  /\ Step(IF exchange = "synced" /\ InSequence /\ message.of = ts2.of /\ ts2.of # 0
          THEN "followed" ELSE "broken")
  /\ UNCHANGED <<hwVars, message, sync_seq_id, ts2, ts3, ts4, delay, dreq,
                 arrivals, keys, handed>>

(* A Follow_Up out of sequence leaves ts1 alone, and everything after the  *)
(* call of handleFollowUp happens all the same.                            *)
handleFollowUp ==
  /\ pc = "FOLLOW_UP"
  /\ ts1' = IF InSequence THEN message.of ELSE ts1
  /\ offset' = ClockError(ts1', ts2, delay)
  /\ pc' = "issue"
  /\ Step(IF exchange = "synced" /\ InSequence /\ message.of = ts2.of /\ ts2.of # 0
          THEN "followed" ELSE "broken")
  /\ UNCHANGED <<hwVars, message, sync_seq_id, ts2, ts3, ts4, delay, dreq,
                 arrivals, keys, handed>>

(* issueDelayReq: start the generator ...                                  *)
StartDelayReq ==
  /\ pc = "issue"
  /\ dreq' = dreq + 1
  /\ gen' = dreq + 1
  /\ pc' = "wait"
  /\ UNCHANGED <<ready, rxq, txq, epoch, rtc_offset, message, sync_seq_id, ts1,
                 ts2, ts3, ts4, delay, offset, arrivals, keys, exchange, handed>>

(* Mutant: the stamp is read without popping the queue.                    *)
GetTxStampNoPop ==
  /\ pc = "wait"
  /\ Used(txq) # 0
  /\ ts3' = Head(txq)
  /\ pc' = "uart"
  /\ UNCHANGED <<histVars, hwVars, message, sync_seq_id, ts1, ts2, ts4, delay,
                 offset>>

(* ... and spin until its time stamp is queued, then pop it into ts3.      *)
GetTxStamp ==
  /\ pc = "wait"
  /\ Used(txq) # 0
  /\ ts3' = Head(txq)
  /\ txq' = Tail(txq)
  /\ pc' = "uart"
  /\ UNCHANGED <<histVars, ready, rxq, gen, epoch, rtc_offset, message,
                 sync_seq_id, ts1, ts2, ts4, delay, offset>>

(* updateDelay overwrites ts2 and ts4 with the durations it computes.      *)
handleDelayResp ==
  /\ pc = "DELAY_RESP"
  /\ LET t4 == IF InSequence THEN message.of ELSE ts4
     IN  delay' = PathDelay(ts1, ts2, ts3, t4)
  /\ ts2' = [NoTime EXCEPT !.ep = ts2.ep]
  /\ ts4' = 0
  /\ pc' = "adjust"
  /\ Step(IF exchange = "followed" /\ InSequence /\ message.of = dreq /\ dreq # 0
          THEN "complete" ELSE "broken")
  /\ UNCHANGED <<hwVars, message, sync_seq_id, ts1, ts3, offset, dreq,
                 arrivals, keys, handed>>

(* What the offset is worth when it is used.                               *)
Worth == IF offset.ep # epoch THEN "stale" ELSE offset.kind

(* offset.sec_l # 0: read the clock, subtract the offset, write it back.   *)
setTime ==
  /\ pc = "adjust"
  /\ epoch' = epoch + 1
  /\ handed' = Worth
  /\ pc' = "uart"
  /\ UNCHANGED <<ready, rxq, txq, gen, rtc_offset, message, sync_seq_id, ts1,
                 ts2, ts3, ts4, delay, offset, dreq, arrivals, keys, exchange>>

(* offset.sec_l = 0: RTC_OFFSET -= nsec reads back what earlier calls left *)
(* in the register, and the RTC adds the sum once for every clock of the   *)
(* strobe (regs.v:362).  So the clock is adjusted, which is all that epoch *)
(* says, but not by the offset; Servo and RtcRegs have the amount.         *)
applyOffset ==
  /\ pc = "adjust"
  /\ epoch' = epoch + 1
  /\ rtc_offset' = rtc_offset + 1
  /\ handed' = Worth
  /\ pc' = "uart"
  /\ UNCHANGED <<ready, rxq, txq, gen, message, sync_seq_id, ts1, ts2, ts3,
                 ts4, delay, offset, dreq, arrivals, keys, exchange>>
-----------------------------------------------------------------------------
Firmware ==
  \/ UartIdle \/ ptpInit \/ UartParams \/ ParamsEntered
  \/ PollRx \/ readMsgRx
  \/ handleSync
  \/ handleFollowUp \/ StartDelayReq \/ GetTxStamp
  \/ handleDelayResp \/ setTime \/ applyOffset

Next == Firmware \/ Transmit \/ \E f \in Frames : Arrive(f)

Spec == Init /\ [][Next]_vars
-----------------------------------------------------------------------------
(* Types.                                                                  *)
TypeOK ==
  /\ pc \in Pc
  /\ ready \in BOOLEAN
  /\ message \in Entry
  /\ sync_seq_id \in 0 .. SeqMod - 1
  /\ ts1 \in Nat /\ ts2 \in Time /\ ts3 \in Time /\ ts4 \in Nat
  /\ delay \in {"zero", "path", "junk"}
  /\ offset \in [kind : {"error", "rough", "junk"}, ep : Nat]
  /\ rtc_offset \in Nat
  /\ rxq \in Seq(Entry) /\ Len(rxq) <= QDepth
  /\ txq \in Seq(Time) /\ Len(txq) <= QDepth
  /\ gen \in Nat /\ dreq \in Nat /\ epoch \in Nat
  /\ arrivals \in Nat /\ keys \in Nat
  /\ exchange \in {"synced", "followed", "complete", "broken"}
  /\ handed \in {"none", "error", "rough", "junk", "stale"}

(* A message is read only while the receive queue holds one: the status    *)
(* that sent the loop to readMsgRx is still true when the queue is popped, *)
(* although frames arrive and ptpInit empties the queue in between.        *)
ReadNonEmpty == pc = "read" => rxq # << >>

(* Messages are handled in the order of their arrival and none is handled  *)
(* twice, whatever the queue's wrap-around and resets do.                  *)
HandledOnce == [][pc = "read" => message'.no > message.no]_<<pc, message>>

(* The loop never waits for a time stamp that cannot come and never takes  *)
(* the stamp of another Delay_Req: a request is under way, in the generator*)
(* or stamped, exactly while issueDelayReq waits for it; afterwards t3 is  *)
(* the departure of the last request.                                      *)
DelayReqPaired ==
  /\ pc = "wait" => \/ gen = dreq /\ txq = << >>
                    \/ gen = 0 /\ Len(txq) = 1 /\ txq[1].of = dreq
  /\ pc # "wait" => gen = 0 /\ txq = << >> /\ ts3.of = dreq

(* One undisturbed exchange is enough to recover from anything that went   *)
(* before: it ends with the true path delay, and the offset its Delay_Resp *)
(* applies was measured on the clock it is applied to.                     *)
CleanExchange ==
  /\ exchange = "complete" => delay = "path"
  /\ exchange = "complete" /\ pc = "adjust" => offset.ep = epoch

=============================================================================
