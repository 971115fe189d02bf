--------------------------- MODULE PtpSlaveProofs ---------------------------
(***************************************************************************)
(* Proofs about the firmware and its queues, for every queue depth, every  *)
(* sequence-number range and every set of frames the network may bring;    *)
(* and that the slave of PtpSystem, with its master and its wire, is one   *)
(* of these.                                                               *)
(***************************************************************************)
EXTENDS PtpSystem, SequenceTheorems, TLAPS

(* An empty queue reads as 0 packets, whatever its depth.                  *)
LEMMA EmptyReadsZero == Used(<< >>) = 0
  BY QAssumption, SMT DEF Used

(* A write keeps a queue a queue, within its depth, and drops nothing that *)
(* was there.                                                              *)
LEMMA WriteType ==
  ASSUME NEW S, NEW q \in Seq(S), NEW e \in S, Len(q) <= QDepth
  PROVE  /\ Write(q, e) \in Seq(S)
         /\ Len(Write(q, e)) <= QDepth
         /\ Write(q, e) = q \/ Write(q, e) = Append(q, e)
         /\ Write(q, e) # << >>
  <1>1. CASE Len(q) < QDepth
    BY <1>1, QAssumption DEF Write
  <1>2. CASE Len(q) = QDepth
    BY <1>2, QAssumption DEF Write
  <1>3. QED
    BY <1>1, <1>2, QAssumption

(* What the receive TSU writes for a frame is an entry of the queue.       *)
LEMMA EntryType ==
  ASSUME NEW f \in Frames, epoch \in Nat, arrivals \in Nat
  PROVE  [id |-> f.id, seq |-> f.seq, of |-> f.of, ep |-> epoch,
          no |-> arrivals + 1] \in Entry
  BY FramesAssumption DEF Frame, Entry

(* The initial state has its types.                                        *)
LEMMA TypeOfInit == Init => TypeOK
  <1> SUFFICES ASSUME Init PROVE TypeOK
    OBVIOUS
  <1>1. NoEntry \in Entry /\ NoTime \in Time
    BY QAssumption DEF NoEntry, Entry, MsgId, NoTime, Time
  <1>2. rxq \in Seq(Entry) /\ Len(rxq) <= QDepth
    BY QAssumption DEF Init
  <1>3. txq \in Seq(Time) /\ Len(txq) <= QDepth
    BY QAssumption DEF Init
  <1>4. ready \in BOOLEAN /\ offset \in [kind : {"error", "rough", "junk"}, ep : Nat]
    BY DEF Init
  <1>5. sync_seq_id \in 0 .. SeqMod - 1
    BY QAssumption DEF Init
  <1>6. QED
    BY <1>1, <1>2, <1>3, <1>4, <1>5 DEF Init, TypeOK, Pc

(* A step keeps them; among others, no queue outgrows its depth.           *)
LEMMA TypeOfStep == TypeOK /\ [Next]_vars => TypeOK'
  <1> SUFFICES ASSUME TypeOK, [Next]_vars PROVE TypeOK'
    OBVIOUS
  <1> USE QAssumption, FramesAssumption
  <1>1. ASSUME NEW f \in Frames, Arrive(f) PROVE TypeOK'
    <2> DEFINE e == [id |-> f.id, seq |-> f.seq, of |-> f.of, ep |-> epoch,
                     no |-> arrivals + 1]
    <2>1. e \in Entry
      BY EntryType DEF TypeOK
    <2>2. Write(rxq, e) \in Seq(Entry) /\ Len(Write(rxq, e)) <= QDepth
      BY <2>1, WriteType DEF TypeOK
    <2>3. QED
      BY <1>1, <2>2 DEF Arrive, TypeOK, fwVars
  <1>2. CASE Transmit
    <2> DEFINE e == [of |-> gen, ep |-> epoch]
    <2>1. e \in Time
      BY DEF TypeOK, Time
    <2>2. Write(txq, e) \in Seq(Time) /\ Len(Write(txq, e)) <= QDepth
      BY <2>1, WriteType DEF TypeOK
    <2>3. QED
      BY <1>2, <2>2 DEF Transmit, TypeOK, fwVars, histVars
  <1>3. CASE UartIdle
    BY <1>3 DEF UartIdle, TypeOK, Pc, hwVars, histVars
  <1>4. CASE ptpInit
    BY <1>4 DEF ptpInit, TypeOK, Pc
  <1>5. CASE UartParams
    BY <1>5 DEF UartParams, TypeOK, Pc, hwVars
  <1>6. CASE ParamsEntered
    BY <1>6 DEF ParamsEntered, TypeOK, Pc, hwVars, histVars
  <1>7. CASE PollRx
    BY <1>7 DEF PollRx, TypeOK, Pc, hwVars, histVars
  <1>8. CASE readMsgRx
    <2>1. CASE rxq = << >>
      BY <1>8, <2>1 DEF readMsgRx, TypeOK, Pc, Entry, histVars
    <2>2. CASE rxq # << >>
      <3>1. Head(rxq) \in Entry /\ Tail(rxq) \in Seq(Entry)
            /\ Len(Tail(rxq)) <= QDepth
        BY <2>2 DEF TypeOK
      <3>2. QED
        BY <1>8, <2>2, <3>1 DEF readMsgRx, TypeOK, Pc, histVars
    <2>3. QED
      BY <2>1, <2>2
  <1>9. CASE handleSync
    BY <1>9 DEF handleSync, Step, TypeOK, Pc, Entry, Time, hwVars
  <1>10. CASE handleFollowUp
    BY <1>10 DEF handleFollowUp, Step, ClockError, TypeOK, Pc, Entry, Time, hwVars
  <1>11. CASE StartDelayReq
    BY <1>11 DEF StartDelayReq, TypeOK, Pc
  <1>12. CASE GetTxStamp
    <2>1. txq # << >>
      BY <1>12, EmptyReadsZero DEF GetTxStamp
    <2>2. Head(txq) \in Time /\ Tail(txq) \in Seq(Time) /\ Len(Tail(txq)) <= QDepth
      BY <2>1 DEF TypeOK
    <2>3. QED
      BY <1>12, <2>2 DEF GetTxStamp, TypeOK, Pc, histVars
  <1>13. CASE handleDelayResp
    BY <1>13 DEF handleDelayResp, Step, PathDelay, NoTime, TypeOK, Pc, Entry, Time, hwVars
  <1>14. CASE setTime
    BY <1>14 DEF setTime, Worth, TypeOK, Pc
  <1>15. CASE applyOffset
    BY <1>15 DEF applyOffset, Worth, TypeOK, Pc
  <1>16. CASE UNCHANGED vars
    BY <1>16 DEF vars, hwVars, fwVars, histVars, TypeOK
  <1>17. QED
    BY <1>1, <1>2, <1>3, <1>4, <1>5, <1>6, <1>7, <1>8, <1>9, <1>10, <1>11,
       <1>12, <1>13, <1>14, <1>15, <1>16 DEF Next, Firmware

(* Type correctness: among others, no queue ever holds more than its       *)
(* depth, and the history never leaves its automaton.                      *)
THEOREM TypeCorrect == Spec => []TypeOK
  BY TypeOfInit, TypeOfStep, PTL DEF Spec
-----------------------------------------------------------------------------
(* Whatever the loop does after the poll, it does because a message was in *)
(* the queue, and only ptpInit opens the queue to messages.                *)
Handling == {"read", "SYNC", "FOLLOW_UP", "DELAY_RESP", "issue", "wait", "adjust"}
BusyReady == pc \in Handling \/ rxq # << >> => ready

(* The strengthening of ReadNonEmpty and DelayReqPaired.                   *)
QueueInv == TypeOK /\ BusyReady /\ ReadNonEmpty /\ DelayReqPaired

(* The loop polls a queue, and reads it, only when it holds something.     *)
LEMMA PendingNonEmpty == RxPending => rxq # << >>
  BY EmptyReadsZero DEF RxPending

LEMMA QueueInvInductive == QueueInv /\ [Next]_vars /\ TypeOK' => QueueInv'
  <1> SUFFICES ASSUME QueueInv, [Next]_vars, TypeOK' PROVE QueueInv'
    OBVIOUS
  <1> USE QAssumption DEF QueueInv
  <1>1. ASSUME NEW f \in Frames, Arrive(f) PROVE QueueInv'
    <2> DEFINE e == [id |-> f.id, seq |-> f.seq, of |-> f.of, ep |-> epoch,
                     no |-> arrivals + 1]
    <2>1. e \in Entry
      BY EntryType DEF TypeOK
    <2>2. Write(rxq, e) # << >>
      BY <2>1, WriteType DEF TypeOK
    <2>3. rxq' # << >> <=> (rxq # << >> \/ Accepted(f))
      BY <1>1, <2>2 DEF Arrive
    <2>4. QED
      BY <1>1, <2>3 DEF Arrive, Accepted, BusyReady, ReadNonEmpty, DelayReqPaired, fwVars
  <1>2. CASE Transmit
    <2>1. pc = "wait" /\ gen = dreq /\ txq = << >> /\ ready
      BY <1>2 DEF Transmit, DelayReqPaired, BusyReady, Handling
    <2>2. txq' = <<[of |-> dreq, ep |-> epoch]>>
      BY <1>2, <2>1 DEF Transmit, Write, TypeOK
    <2>3. DelayReqPaired'
      BY <1>2, <2>1, <2>2 DEF Transmit, DelayReqPaired, fwVars, histVars
    <2>4. QED
      BY <1>2, <2>3 DEF Transmit, BusyReady, ReadNonEmpty, fwVars, histVars
  <1>3. CASE UartIdle
    BY <1>3 DEF UartIdle, BusyReady, Handling, ReadNonEmpty, DelayReqPaired, hwVars, histVars
  <1>4. CASE ptpInit
    BY <1>4 DEF ptpInit, BusyReady, ReadNonEmpty, DelayReqPaired
  <1>5. CASE UartParams
    BY <1>5 DEF UartParams, BusyReady, Handling, ReadNonEmpty, DelayReqPaired, hwVars
  <1>6. CASE ParamsEntered
    BY <1>6 DEF ParamsEntered, BusyReady, Handling, ReadNonEmpty, DelayReqPaired, hwVars, histVars
  <1>7. CASE PollRx
    BY <1>7, PendingNonEmpty
    DEF PollRx, BusyReady, Handling, ReadNonEmpty, DelayReqPaired, hwVars, histVars
  <1>8. CASE readMsgRx
    <2>1. pc' \in {"SYNC", "FOLLOW_UP", "DELAY_RESP", "uart"} /\ ready' /\ pc # "wait"
      BY <1>8 DEF readMsgRx, BusyReady, Handling
    <2>2. QED
      BY <1>8, <2>1 DEF readMsgRx, BusyReady, ReadNonEmpty, DelayReqPaired, histVars
  <1>9. CASE handleSync
    BY <1>9 DEF handleSync, BusyReady, Handling, ReadNonEmpty, DelayReqPaired, hwVars
  <1>10. CASE handleFollowUp
    BY <1>10 DEF handleFollowUp, BusyReady, Handling, ReadNonEmpty, DelayReqPaired, hwVars
  <1>11. CASE StartDelayReq
    BY <1>11 DEF StartDelayReq, BusyReady, Handling, ReadNonEmpty, DelayReqPaired
  <1>12. CASE GetTxStamp
    <2>1. txq # << >>
      BY <1>12, EmptyReadsZero DEF GetTxStamp
    <2>2. gen = 0 /\ Len(txq) = 1 /\ txq[1].of = dreq
      BY <1>12, <2>1 DEF GetTxStamp, DelayReqPaired
    <2>3. txq \in Seq(Time)
      BY DEF TypeOK
    <2>4. Head(txq).of = dreq
      BY <2>1, <2>2, <2>3
    <2>5. Tail(txq) = << >>
      <3>1. Tail(txq) \in Seq(Time) /\ Len(Tail(txq)) = 0
        BY <2>1, <2>2, <2>3
      <3>2. QED
        BY <3>1, EmptySeq
    <2>6. QED
      BY <1>12, <2>2, <2>4, <2>5 DEF GetTxStamp, BusyReady, Handling, ReadNonEmpty, DelayReqPaired, histVars
  <1>13. CASE handleDelayResp
    BY <1>13 DEF handleDelayResp, BusyReady, Handling, ReadNonEmpty, DelayReqPaired, hwVars
  <1>14. CASE setTime
    BY <1>14 DEF setTime, BusyReady, Handling, ReadNonEmpty, DelayReqPaired
  <1>15. CASE applyOffset
    BY <1>15 DEF applyOffset, BusyReady, Handling, ReadNonEmpty, DelayReqPaired
  <1>16. CASE UNCHANGED vars
    BY <1>16 DEF vars, hwVars, fwVars, histVars, BusyReady, ReadNonEmpty, DelayReqPaired
  <1>17. QED
    BY <1>1, <1>2, <1>3, <1>4, <1>5, <1>6, <1>7, <1>8, <1>9, <1>10, <1>11,
       <1>12, <1>13, <1>14, <1>15, <1>16 DEF Next, Firmware

LEMMA QueueInvHolds == Spec => []QueueInv
  <1>1. Init /\ TypeOK => QueueInv
    BY DEF Init, QueueInv, BusyReady, Handling, ReadNonEmpty, DelayReqPaired, NoTime
  <1>2. QED
    BY <1>1, TypeCorrect, QueueInvInductive, PTL DEF Spec

(* A message is never read from an empty queue, although frames arrive and *)
(* ptpInit empties the queue while the loop runs.                          *)
THEOREM NoEmptyRead == Spec => []ReadNonEmpty
  BY QueueInvHolds, PTL DEF QueueInv

(* While issueDelayReq waits, exactly its own request is under way; at any *)
(* other time t3 is the departure of the last request, whatever was lost,  *)
(* re-initialised or mis-sequenced before.                                 *)
THEOREM StampOfOwnRequest == Spec => []DelayReqPaired
  BY QueueInvHolds, PTL DEF QueueInv
-----------------------------------------------------------------------------
(* The queue holds messages in the order of their arrival, all of them     *)
(* younger than the one handled last.                                      *)
Ordered ==
  /\ message.no <= arrivals
  /\ \A i \in 1 .. Len(rxq) : message.no < rxq[i].no /\ rxq[i].no <= arrivals
  /\ \A i, j \in 1 .. Len(rxq) : i < j => rxq[i].no < rxq[j].no

(* The arrival numbers in a queue are numbers.                             *)
LEMMA ArrivalNumber ==
  ASSUME NEW q \in Seq(Entry), NEW i \in 1 .. Len(q)
  PROVE  q[i].no \in Nat
  <1>1. q[i] \in Entry
    BY ElementOfSeq
  <1>2. QED
    BY <1>1 DEF Entry

LEMMA OrderedInductive == QueueInv /\ Ordered /\ [Next]_vars => Ordered'
  <1> SUFFICES ASSUME QueueInv, Ordered, [Next]_vars PROVE Ordered'
    OBVIOUS
  <1>0. /\ rxq \in Seq(Entry) /\ Len(rxq) \in Nat /\ message \in Entry
        /\ epoch \in Nat /\ arrivals \in Nat
    BY DEF QueueInv, TypeOK
  <1>1. ASSUME NEW f \in Frames, Arrive(f) PROVE Ordered'
    <2> DEFINE e == [id |-> f.id, seq |-> f.seq, of |-> f.of, ep |-> epoch,
                     no |-> arrivals + 1]
    <2>1. e \in Entry
      BY <1>0, EntryType
    <2>2. message' = message /\ arrivals' = arrivals + 1 /\ message.no \in Nat
      BY <1>0, <1>1 DEF Arrive, fwVars, Entry
    <2>3. CASE rxq' = rxq
      <3>1. \A i \in 1 .. Len(rxq) : rxq[i].no \in Nat
        BY <1>0, ArrivalNumber
      <3>2. QED
        BY <1>0, <2>2, <2>3, <3>1 DEF Ordered
    <2>4. CASE rxq' = Append(rxq, e)
      <3>1. /\ Len(rxq') = Len(rxq) + 1
            /\ rxq'[Len(rxq) + 1] = e
            /\ \A i \in 1 .. Len(rxq) : rxq'[i] = rxq[i] /\ rxq[i].no \in Nat
        <4>1. \A i \in 1 .. Len(rxq) : rxq[i].no \in Nat
          BY <1>0, ArrivalNumber
        <4>2. QED
          BY <1>0, <2>1, <2>4, <4>1, AppendProperties
      <3>2. rxq'[Len(rxq) + 1].no = arrivals + 1
        BY <3>1
      <3>3. \A i \in 1 .. Len(rxq') : i \in 1 .. Len(rxq) \/ i = Len(rxq) + 1
        BY <1>0, <3>1
      <3>4. \A i \in 1 .. Len(rxq') : message.no < rxq'[i].no /\ rxq'[i].no <= arrivals + 1
        BY <1>0, <2>2, <3>1, <3>2, <3>3 DEF Ordered
      <3>5. \A i, j \in 1 .. Len(rxq') : i < j => rxq'[i].no < rxq'[j].no
        <4> SUFFICES ASSUME NEW i \in 1 .. Len(rxq'), NEW j \in 1 .. Len(rxq'), i < j
                     PROVE  rxq'[i].no < rxq'[j].no
          OBVIOUS
        <4>1. i \in 1 .. Len(rxq)
          BY <1>0, <3>1, <3>3
        <4>2. QED
          BY <1>0, <3>1, <3>2, <3>3, <4>1 DEF Ordered
      <3>6. message'.no <= arrivals'
        BY <1>0, <2>2 DEF Ordered
      <3>7. QED
        BY <2>2, <3>4, <3>5, <3>6 DEF Ordered
    <2>5. QED
      BY <1>0, <1>1, <2>1, <2>3, <2>4, WriteType DEF Arrive, QueueInv, TypeOK
  <1>2. CASE ptpInit
    BY <1>2 DEF ptpInit, Ordered
  <1>3. CASE readMsgRx
    <2>1. rxq # << >>
      BY <1>3 DEF readMsgRx, QueueInv, ReadNonEmpty
    <2>2. message' = rxq[1] /\ rxq' = Tail(rxq) /\ arrivals' = arrivals
      BY <1>0, <1>3, <2>1 DEF readMsgRx, histVars
    <2>3. /\ Len(Tail(rxq)) = Len(rxq) - 1 /\ Len(rxq) > 0
          /\ \A i \in 1 .. Len(rxq) - 1 : Tail(rxq)[i] = rxq[i + 1]
      BY <1>0, <2>1, HeadTailProperties, EmptySeq
    <2>4. QED
      BY <1>0, <2>2, <2>3 DEF Ordered
  <1>4. CASE UNCHANGED <<message, rxq, arrivals>>
    BY <1>4 DEF Ordered
  <1>5. \/ \E f \in Frames : Arrive(f)
        \/ ptpInit \/ readMsgRx \/ UNCHANGED <<message, rxq, arrivals>>
    BY DEF Next, Firmware, Transmit, UartIdle, UartParams, ParamsEntered, PollRx,
           handleSync, handleFollowUp, StartDelayReq, GetTxStamp, handleDelayResp,
           setTime, applyOffset, vars, hwVars, fwVars, histVars
  <1>6. QED
    BY <1>1, <1>2, <1>3, <1>4, <1>5

(* Messages are handled in the order they arrived in and none is handled   *)
(* twice: pops, overflow and ptpInit only ever drop messages.              *)
THEOREM InArrivalOrder == Spec => HandledOnce
  <1>1. Init => Ordered
    BY DEF Init, Ordered, NoEntry
  <1>2. QueueInv /\ Ordered /\ [Next]_vars
        => [pc = "read" => message'.no > message.no]_<<pc, message>>
    <2> SUFFICES ASSUME QueueInv, Ordered, Next, pc = "read", UNCHANGED <<pc, message>> => FALSE
                 PROVE  message'.no > message.no
      BY DEF vars, fwVars
    <2>1. readMsgRx
      BY DEF Next, Firmware, Arrive, Transmit, UartIdle, ptpInit, UartParams,
             ParamsEntered, PollRx, handleSync, handleFollowUp, StartDelayReq,
             GetTxStamp, handleDelayResp, setTime, applyOffset, fwVars
    <2>2. rxq # << >> /\ rxq \in Seq(Entry) /\ message \in Entry
      BY DEF QueueInv, ReadNonEmpty, TypeOK
    <2>3. message' = rxq[1] /\ 1 \in 1 .. Len(rxq)
      BY <2>1, <2>2, EmptySeq DEF readMsgRx
    <2>4. message.no < rxq[1].no /\ message.no \in Nat /\ rxq[1].no \in Nat
      BY <2>2, <2>3, ArrivalNumber DEF Ordered, Entry
    <2>5. QED
      BY <2>3, <2>4
  <1>3. QED
    BY <1>1, <1>2, QueueInvHolds, OrderedInductive, PTL DEF Spec, HandledOnce
-----------------------------------------------------------------------------
(* The strengthening of CleanExchange: what each stage of an undisturbed   *)
(* exchange has established.                                               *)
Synced == exchange = "synced" =>
  ts2.ep = epoch /\ pc \notin {"issue", "wait", "adjust"}

Followed == exchange = "followed" =>
  /\ ts1 # 0 /\ ts2.of = ts1 /\ ts2.ep = epoch /\ offset.ep = epoch
  /\ pc # "adjust"
  /\ pc \notin {"issue", "wait"} => ts3.ep = epoch

(* The clock is not adjusted while a Delay_Req is on its way out.          *)
StampFresh == \A i \in 1 .. Len(txq) : txq[i].ep = epoch

CleanInv == Synced /\ Followed /\ StampFresh /\ CleanExchange

LEMMA CleanInvInductive == QueueInv /\ CleanInv /\ [Next]_vars => CleanInv'
  <1> SUFFICES ASSUME QueueInv, CleanInv, [Next]_vars PROVE CleanInv'
    OBVIOUS
  <1> USE DEF CleanInv
  <1>0. /\ exchange \in {"synced", "followed", "complete", "broken"}
        /\ ts1 \in Nat /\ epoch \in Nat /\ gen \in Nat
        /\ txq \in Seq(Time)
    BY DEF QueueInv, TypeOK
  <1>1. ASSUME NEW f \in Frames, Arrive(f) PROVE CleanInv'
    BY <1>1 DEF Arrive, Synced, Followed, StampFresh, CleanExchange, fwVars
  <1>2. CASE Transmit
    <2>1. pc = "wait" /\ txq = << >>
      BY <1>2 DEF Transmit, QueueInv, DelayReqPaired
    <2>2. txq' = << >> \/ txq' = <<[of |-> gen, ep |-> epoch]>>
      BY <1>2, <2>1, QAssumption DEF Transmit, Write
    <2>3. StampFresh'
      BY <1>2, <2>2 DEF Transmit, StampFresh
    <2>4. QED
      BY <1>2, <2>3 DEF Transmit, Synced, Followed, CleanExchange, fwVars, histVars
  <1>3. CASE ptpInit
    BY <1>3 DEF ptpInit, Synced, Followed, StampFresh, CleanExchange
  <1>4. CASE UartIdle \/ UartParams \/ ParamsEntered \/ PollRx \/ readMsgRx
    <2>1. /\ pc \notin {"issue", "wait", "adjust"} /\ pc' \notin {"issue", "wait", "adjust"}
          /\ UNCHANGED <<exchange, epoch, ts1, ts2, ts3, offset, delay, txq>>
      BY <1>4 DEF UartIdle, UartParams, ParamsEntered, PollRx, readMsgRx, hwVars, histVars
    <2>2. QED
      BY <2>1 DEF Synced, Followed, StampFresh, CleanExchange
  <1>5. CASE handleSync
    BY <1>5 DEF handleSync, Step, Synced, Followed, StampFresh, CleanExchange, hwVars
  <1>6. CASE handleFollowUp
    BY <1>6 DEF handleFollowUp, Step, ClockError, InSequence, Synced, Followed,
                StampFresh, CleanExchange, hwVars
  <1>7. CASE StartDelayReq
    BY <1>7 DEF StartDelayReq, Synced, Followed, StampFresh, CleanExchange
  <1>8. CASE GetTxStamp
    <2>1. txq # << >>
      BY <1>8, EmptyReadsZero DEF GetTxStamp
    <2>2. 1 \in 1 .. Len(txq) /\ Head(txq) = txq[1]
      BY <1>0, <2>1, EmptySeq
    <2>3. Head(txq).ep = epoch
      BY <2>2 DEF StampFresh
    <2>4. StampFresh'
      <3>1. Tail(txq) = << >>
        <4>1. Len(txq) = 1
          BY <1>8, <2>1 DEF GetTxStamp, QueueInv, DelayReqPaired
        <4>2. Tail(txq) \in Seq(Time) /\ Len(Tail(txq)) = 0
          BY <1>0, <2>1, <4>1, HeadTailProperties
        <4>3. QED
          BY <4>2, EmptySeq
      <3>2. QED
        BY <1>8, <3>1 DEF GetTxStamp, StampFresh
    <2>5. QED
      BY <1>8, <2>3, <2>4 DEF GetTxStamp, Synced, Followed, CleanExchange, histVars
  <1>9. CASE handleDelayResp
    <2>1. /\ pc' = "adjust" /\ exchange' \in {"complete", "broken"}
          /\ UNCHANGED <<txq, epoch, offset>>
      BY <1>9 DEF handleDelayResp, Step, hwVars
    <2>2. ASSUME exchange' = "complete" PROVE delay' = "path" /\ offset.ep = epoch
      <3>1. exchange = "followed" /\ InSequence /\ message.of = dreq /\ dreq # 0
        BY <1>9, <2>2 DEF handleDelayResp, Step
      <3>2. SyncPair(ts1, ts2) /\ ts2.ep = epoch /\ ts3.ep = epoch /\ offset.ep = epoch
        BY <1>9, <3>1 DEF handleDelayResp, Followed, SyncPair
      <3>3. DelayPair(ts3, message.of)
        BY <1>9, <3>1 DEF handleDelayResp, QueueInv, DelayReqPaired, DelayPair
      <3>4. QED
        BY <1>9, <3>1, <3>2, <3>3 DEF handleDelayResp, PathDelay
    <2>3. QED
      BY <2>1, <2>2 DEF Synced, Followed, StampFresh, CleanExchange
  <1>10. CASE setTime \/ applyOffset
    <2>1. /\ pc = "adjust" /\ pc' = "uart"
          /\ UNCHANGED <<exchange, txq, delay>>
      BY <1>10 DEF setTime, applyOffset
    <2>2. exchange \notin {"synced", "followed"}
      BY <2>1 DEF Synced, Followed
    <2>3. txq = << >>
      BY <2>1 DEF QueueInv, DelayReqPaired
    <2>4. QED
      BY <2>1, <2>2, <2>3 DEF Synced, Followed, StampFresh, CleanExchange
  <1>11. CASE UNCHANGED vars
    BY <1>11 DEF vars, hwVars, fwVars, histVars, Synced, Followed, StampFresh, CleanExchange
  <1>12. QED
    BY <1>1, <1>2, <1>3, <1>4, <1>5, <1>6, <1>7, <1>8, <1>9, <1>10, <1>11
    DEF Next, Firmware

(* One undisturbed exchange measures the true path delay, and its          *)
(* Delay_Resp applies an offset measured on the clock it is applied to,    *)
(* whatever state earlier disturbances left behind.                        *)
THEOREM ExchangeIsExact == Spec => []CleanExchange
  <1>1. Init => CleanInv
    BY DEF Init, CleanInv, Synced, Followed, StampFresh, CleanExchange
  <1>2. QED
    BY <1>1, QueueInvHolds, CleanInvInductive, PTL DEF Spec, CleanInv
-----------------------------------------------------------------------------
(* On the wire there are frames, and on the way up Delay_Reqs.             *)
Request == [seq : 0 .. SeqMod - 1, of : Nat]

WireOK == net \in Seq(Frame) /\ up \in Seq(Request) /\ sent \in Nat

(* Whatever the master, the other nodes and the wire do, the frames that   *)
(* are under way stay frames.                                              *)
LEMMA WireOKInductive ==
  ASSUME TypeOK, WireOK, [SystemNext]_sysVars
  PROVE  WireOK'
  <1> USE QAssumption DEF WireOK
  <1>1. ASSUME NEW f \in Frame, Send(f)
        PROVE  net' \in Seq(Frame)
    BY <1>1 DEF Send
  <1>2. CASE CPU
    BY <1>2 DEF CPU, netVars
  <1>3. CASE MasterSync
    <2>1. [id |-> "SYNC", seq |-> sent' % SeqMod, of |-> sent'] \in Frame /\ sent' \in Nat
      BY <1>3 DEF MasterSync, Frame, MsgId
    <2> QED  BY <1>1, <1>3, <2>1 DEF MasterSync
  <1>4. CASE MasterFollowUp
    <2>1. [id |-> "FOLLOW_UP", seq |-> sent % SeqMod, of |-> sent] \in Frame
      BY DEF Frame, MsgId
    <2> QED  BY <1>1, <1>4, <2>1 DEF MasterFollowUp
  <1>5. CASE MasterDelayResp
    <2>1. Head(up) \in Request /\ Tail(up) \in Seq(Request)
      BY <1>5 DEF MasterDelayResp
    <2>2. [id |-> "DELAY_RESP", seq |-> Head(up).seq, of |-> Head(up).of] \in Frame
      BY <2>1 DEF Frame, MsgId, Request
    <2> QED  BY <1>1, <1>5, <2>1, <2>2 DEF MasterDelayResp
  <1>6. CASE OtherNode
    <2>1. PICK id \in {"ANNOUNCE", "DELAY_REQ", "DELAY_RESP"}, q \in 0 .. SeqMod - 1 :
            Send([id |-> id, seq |-> q, of |-> 0])
      BY <1>6 DEF OtherNode
    <2>2. [id |-> id, seq |-> q, of |-> 0] \in Frame
      BY DEF Frame, MsgId
    <2> QED  BY <1>1, <1>6, <2>1, <2>2 DEF OtherNode
  <1>7. CASE Deliver
    BY <1>7 DEF Deliver
  <1>8. CASE TransmitUp
    <2>1. [seq |-> sync_seq_id, of |-> gen] \in Request
      BY DEF TypeOK, Request
    <2> QED  BY <1>8, <2>1 DEF TransmitUp
  <1>9. CASE Lose
    <2>1. net' \in Seq(Frame)
      BY <1>9 DEF Lose
    <2>2. up' \in Seq(Request) /\ sent' \in Nat
      BY <1>9 DEF Lose
    <2> QED  BY <2>1, <2>2
  <1>10. CASE Duplicate
    <2>1. Head(net) \in Frame
      BY <1>10 DEF Duplicate
    <2> QED  BY <1>1, <1>10, <2>1 DEF Duplicate
  <1>11. CASE Overtake
    <2>1. <<net[2], net[1]>> \in Seq(Frame) /\ SubSeq(net, 3, Len(net)) \in Seq(Frame)
      BY <1>11 DEF Overtake
    <2> QED  BY <1>11, <2>1 DEF Overtake
  <1>12. CASE UNCHANGED sysVars
    BY <1>12 DEF sysVars, netVars
  <1> QED
    BY <1>2, <1>3, <1>4, <1>5, <1>6, <1>7, <1>8, <1>9, <1>10, <1>11, <1>12 DEF SystemNext

(* With frames on the wire every step of the system is one of the slave in *)
(* an arbitrary network, or none of it.                                    *)
LEMMA StepOfSlave ==
  ASSUME Frame \subseteq Frames, WireOK, [SystemNext]_sysVars
  PROVE  [Next]_vars
  <1>1. CASE CPU
    BY <1>1 DEF CPU, Next
  <1>2. CASE Deliver
    <2>1. Head(net) \in Frames
      BY <1>2 DEF Deliver, WireOK
    <2> QED  BY <1>2, <2>1 DEF Deliver, Next
  <1>3. CASE TransmitUp
    BY <1>3 DEF TransmitUp, Next
  <1>4. CASE \/ MasterSync \/ MasterFollowUp \/ MasterDelayResp \/ OtherNode
             \/ Lose \/ Duplicate \/ Overtake
    BY <1>4 DEF MasterSync, MasterFollowUp, MasterDelayResp, OtherNode, Lose, Duplicate, Overtake
  <1>5. CASE UNCHANGED sysVars
    BY <1>5 DEF sysVars
  <1> QED
    BY <1>1, <1>2, <1>3, <1>4, <1>5 DEF SystemNext

(* The slave with its master, the other nodes and a wire that loses,       *)
(* duplicates and reorders is the slave of an arbitrary network.  (Frames  *)
(* is a parameter of that network alone.)                                  *)
THEOREM SystemIsASlave ==
  ASSUME Frame \subseteq Frames
  PROVE  SystemSpec => Spec
  <1>1. SystemInit => TypeOK /\ WireOK /\ Init
    BY TypeOfInit DEF SystemInit, WireOK
  <1>2. TypeOK /\ WireOK /\ [SystemNext]_sysVars => TypeOK' /\ WireOK' /\ [Next]_vars
    BY WireOKInductive, StepOfSlave, TypeOfStep
  <1> QED
    BY <1>1, <1>2, PTL DEF SystemSpec, Spec

(* So what holds of the slave holds in the system, whatever happens on the *)
(* wire (main.c:101-141, ptp_drv.c:86-101).                                *)
THEOREM SystemKeepsSlaveProperties ==
  ASSUME Frame \subseteq Frames
  PROVE  SystemSpec => /\ [](ReadNonEmpty /\ DelayReqPaired /\ CleanExchange)
                       /\ HandledOnce
  BY SystemIsASlave, NoEmptyRead, StampOfOwnRequest, ExchangeIsExact, InArrivalOrder, PTL
=============================================================================
