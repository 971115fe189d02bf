----------------------------- MODULE TsuProofs -----------------------------
(***************************************************************************)
(* Every event is reported with the stamp of its own start, for every      *)
(* depth of the queues, every length and distance of the frames and every  *)
(* slip of the two clocks that the lengths and the distances allow for.    *)
(***************************************************************************)
EXTENDS Tsu, TLAPS, SequenceTheorems

(* A frame outlasts the handshake of its own stamp, and a gap the fall of  *)
(* the request and the write of the event.  A frame on the GMII has 72     *)
(* clocks and more and a gap 12, for clocks that slip by one edge.         *)
Margins ==
  /\ \A l \in Lens : l >= 8 + 2 * MaxSkew
  /\ MinGap >= 2 + 2 * MaxSkew /\ MinGap >= 6
-----------------------------------------------------------------------------
LineInv ==
  /\ events \in SUBSET (1 .. MaxFrames) /\ frame \in 0 .. MaxFrames
  /\ ctrl \in BOOLEAN /\ n \in Nat /\ len \in Nat
  /\ ctrl => frame > 0 /\ n <= len /\ len \in Lens
  /\ skew \in -MaxSkew .. MaxSkew

(* The RTC clock has had r edges since int_gmii_ctrl changed, the GMII     *)
(* clock n: the slip tells how far the two can differ.                     *)
AtMost(r)  == n - skew <= r + MaxSkew
AtLeast(r) == n - skew >= r + 1 - MaxSkew

(* What the flip-flops of a synchroniser hold.                             *)
Down(s)       == ~s[1] /\ ~s[2] /\ ~s[3]
RisingOne(s)  == s[1] /\ ~s[2] /\ ~s[3]
RisingTwo(s)  == s[1] /\ s[2] /\ ~s[3]
Up(s)         == s[1] /\ s[2] /\ s[3]
FallingOne(s) == ~s[1] /\ s[2] /\ s[3]
FallingTwo(s) == ~s[1] /\ ~s[2] /\ s[3]

(* Nothing of the acknowledge is left.                                     *)
Resting == ~ts_ack /\ Down(ack) /\ ~ts_ack_clr

Captured == rtc_time_stamp.frame = frame /\ rtc_time_stamp.late \in Late
Latched  == tsu_time_stamp.frame = frame /\ tsu_time_stamp.late \in Late

(* The acknowledge runs back, k edges of the GMII clock after the capture. *)
Running ==
  /\ ts_ack /\ ~ts_ack_clr /\ Captured
  /\ \/ Down(ack) /\ n <= 2 + 2 * MaxSkew
     \/ RisingOne(ack) /\ n <= 3 + 2 * MaxSkew
     \/ RisingTwo(ack) /\ n <= 4 + 2 * MaxSkew

(* The stamp is latched, and the acknowledge is taken back.                *)
Clearing ==
  /\ ~ts_ack /\ Latched
  /\ \/ Up(ack) /\ ts_ack_clr /\ n <= 5 + 2 * MaxSkew
     \/ FallingOne(ack) /\ ~ts_ack_clr /\ n <= 6 + 2 * MaxSkew
     \/ FallingTwo(ack) /\ ~ts_ack_clr /\ n <= 7 + 2 * MaxSkew

(* During a frame the request rises, and the acknowledge comes and goes.   *)
InFrame ==
  \/ Down(req) /\ AtMost(0) /\ AtLeast(0) /\ Resting
  \/ RisingOne(req) /\ AtMost(1) /\ AtLeast(1) /\ Resting
  \/ RisingTwo(req) /\ AtMost(2) /\ AtLeast(2) /\ Resting
  \/ Up(req) /\ (Running \/ Clearing \/ (Resting /\ Latched))

(* In a gap the request falls, and the stamp stays.                        *)
InGap ==
  /\ Resting /\ (frame > 0 => Latched)
  /\ \/ Up(req) /\ AtMost(0)
     \/ FallingOne(req) /\ AtMost(1)
     \/ FallingTwo(req) /\ AtMost(2)
     \/ Down(req)

Handshake == LineInv /\ (IF ctrl THEN InFrame ELSE InGap)

LEMMA InitHandshake == Init => Handshake
  <1> USE DEF Down, RisingOne, RisingTwo, Up, FallingOne, FallingTwo
  <1> SUFFICES ASSUME Init PROVE Handshake
    OBVIOUS
  <1>1. LineInv
    <2>1. events \in SUBSET (1 .. MaxFrames)
      BY DEF Init
    <2>2. frame \in 0 .. MaxFrames /\ n \in Nat /\ len \in Nat
      BY TsuAssumption DEF Init
    <2>3. skew \in -MaxSkew .. MaxSkew
      BY TsuAssumption DEF Init
    <2>4. ~ctrl /\ ctrl \in BOOLEAN
      BY DEF Init
    <2>5. QED
      BY <2>1, <2>2, <2>3, <2>4 DEF LineInv
  <1>2. InGap /\ ~ctrl
    BY DEF Init, InGap, Resting, Low
  <1>3. QED
    BY <1>1, <1>2 DEF Handshake

(* The four things that can happen on the line.                            *)
Goes  == ctrl /\ n < len /\ n' = n + 1 /\ UNCHANGED <<frame, ctrl, len>>
Ends  == ctrl /\ n = len /\ ctrl' = FALSE /\ n' = 1 /\ UNCHANGED <<frame, len>>
Waits == /\ ~ctrl /\ n' = (IF n > MinGap THEN n ELSE n + 1)
         /\ UNCHANGED <<frame, ctrl, len>>
Starts ==
  /\ ~ctrl /\ n >= MinGap /\ frame < MaxFrames /\ frame' = frame + 1 /\ ctrl' = TRUE
  /\ n' = 1 /\ len' \in Lens

LEMMA LineCases ==
  ASSUME GmiiEdge
  PROVE  /\ Goes \/ Ends \/ Waits \/ Starts
         /\ skew < MaxSkew /\ skew' = skew + 1
         /\ UNCHANGED <<events, req, rtc_time_stamp>>
  <1>1. Line /\ skew < MaxSkew /\ skew' = skew + 1 /\ UNCHANGED <<events, req, rtc_time_stamp>>
    BY DEF GmiiEdge
  <1>2. ASSUME NEW L, len' \in {l \in L : frame' \in events => l % 4 # 1} PROVE len' \in L
    BY <1>2
  <1>3. QED
    BY <1>1, <1>2 DEF Line, Goes, Ends, Waits, Starts

LEMMA LineKeeps ==
  ASSUME LineInv, GmiiEdge
  PROVE  LineInv'
  <1> USE TsuAssumption
  <1>1. skew' \in -MaxSkew .. MaxSkew /\ events' = events
    BY LineCases DEF LineInv
  <1>2. CASE Goes
    BY <1>1, <1>2 DEF LineInv, Goes
  <1>3. CASE Ends
    BY <1>1, <1>3 DEF LineInv, Ends
  <1>4. CASE Waits
    BY <1>1, <1>4 DEF LineInv, Waits
  <1>5. CASE Starts
    <2>1. len' \in Nat /\ len' >= 1
      BY <1>5 DEF Starts
    <2>2. QED
      BY <1>1, <1>5, <2>1 DEF LineInv, Starts
  <1>6. QED
    BY <1>2, <1>3, <1>4, <1>5, LineCases

(* An edge of the GMII clock moves the acknowledge one stage on.           *)
LEMMA AckMoves ==
  ASSUME GmiiEdge
  PROVE  /\ (ack'[1] <=> ts_ack) /\ (ack'[2] <=> ack[1]) /\ (ack'[3] <=> ack[2])
         /\ tsu_time_stamp' = IF Rise(ack) THEN rtc_time_stamp ELSE tsu_time_stamp
         /\ ts_ack_clr' <=> Rise(ack)
         /\ ts_ack' <=> (ts_ack /\ ~Rise(ack))
  BY DEF GmiiEdge, Acknowledge, Shift

LEMMA StaysAtRest ==
  ASSUME GmiiEdge, Resting
  PROVE  Resting' /\ tsu_time_stamp' = tsu_time_stamp
  BY AckMoves DEF Resting, Down, Rise

LEMMA GmiiHandshake ==
  ASSUME Margins, Handshake, GmiiEdge
  PROVE  Handshake'
  <1> USE DEF Down, RisingOne, RisingTwo, Up, FallingOne, FallingTwo
  <1>1. LineInv /\ LineInv'
    BY LineKeeps DEF Handshake
  <1>2. /\ skew < MaxSkew /\ skew' = skew + 1 /\ req' = req
        /\ rtc_time_stamp' = rtc_time_stamp
        /\ MaxSkew \in Nat \ {0} /\ skew \in Int /\ n \in Nat
    BY <1>1, LineCases, TsuAssumption DEF LineInv
  <1>3. CASE Goes
    <2>1. ctrl /\ ctrl' /\ n' = n + 1 /\ frame' = frame
      BY <1>3 DEF Goes
    <2>2. InFrame
      BY <2>1 DEF Handshake
    <2>3. /\ AtMost(0) /\ AtLeast(0) => AtMost(0)' /\ AtLeast(0)'
          /\ AtMost(1) /\ AtLeast(1) => AtMost(1)' /\ AtLeast(1)'
          /\ AtMost(2) /\ AtLeast(2) => AtMost(2)' /\ AtLeast(2)'
      BY <1>2, <2>1 DEF AtMost, AtLeast
    <2>4. ASSUME Resting, ~Up(req) PROVE InFrame'
      BY <1>2, <2>2, <2>3, <2>4, StaysAtRest DEF InFrame
    <2>5. ASSUME Up(req), Resting, Latched PROVE InFrame'
      BY <1>2, <2>1, <2>5, StaysAtRest DEF InFrame, Latched
    <2>6. ASSUME Up(req), Running PROVE InFrame'
      BY <1>2, <2>1, <2>6, AckMoves
      DEF InFrame, Running, Clearing, Captured, Latched, Late, Rise
    <2>7. ASSUME Up(req), Clearing PROVE InFrame'
      BY <1>2, <2>1, <2>7, AckMoves
      DEF InFrame, Clearing, Resting, Latched, Late, Rise
    <2>8. QED
      BY <1>1, <2>1, <2>2, <2>4, <2>5, <2>6, <2>7 DEF InFrame, Handshake
  <1>4. CASE Ends
    <2>1. ctrl /\ ~ctrl' /\ n = len /\ n' = 1 /\ frame' = frame /\ n >= 8 + 2 * MaxSkew
      BY <1>1, <1>4 DEF Ends, LineInv, Margins
    <2>2. InFrame
      BY <2>1 DEF Handshake
    <2>3. Up(req) /\ Resting /\ Latched
      <3>1. ~AtMost(0) /\ ~AtMost(1) /\ ~AtMost(2)
        BY <1>2, <2>1 DEF AtMost
      <3>2. ~Running /\ ~Clearing
        BY <1>2, <2>1 DEF Running, Clearing
      <3>3. QED
        BY <2>2, <3>1, <3>2 DEF InFrame
    <2>4. Resting' /\ Latched' /\ AtMost(0)'
      BY <1>1, <1>2, <2>1, <2>3, StaysAtRest DEF Latched, AtMost, LineInv
    <2>5. QED
      BY <1>1, <1>2, <2>1, <2>3, <2>4 DEF Handshake, InGap
  <1>5. CASE Waits
    <2>1. ~ctrl /\ ~ctrl' /\ frame' = frame /\ (n' = n \/ n' = n + 1)
      BY <1>1, <1>2, <1>5 DEF Waits, LineInv
    <2>2. InGap
      BY <2>1 DEF Handshake
    <2>3. n' - skew' <= n - skew /\ n' - skew' \in Int
      BY <1>2, <2>1
    <2>4. /\ AtMost(0) => AtMost(0)'
          /\ AtMost(1) => AtMost(1)'
          /\ AtMost(2) => AtMost(2)'
      BY <1>2, <2>3 DEF AtMost
    <2>5. Resting' /\ (frame > 0 => Latched')
      BY <2>1, <2>2, StaysAtRest DEF InGap, Latched
    <2>6. QED
      BY <1>1, <1>2, <2>1, <2>2, <2>4, <2>5 DEF Handshake, InGap
  <1>6. CASE Starts
    <2>1. ~ctrl /\ ctrl' /\ n' = 1 /\ n >= 2 + 2 * MaxSkew
      BY <1>2, <1>6, TsuAssumption DEF Starts, Margins
    <2>2. InGap
      BY <2>1 DEF Handshake
    <2>3. Down(req) /\ Resting
      <3>1. ~AtMost(0) /\ ~AtMost(1) /\ ~AtMost(2)
        BY <1>2, <2>1 DEF AtMost
      <3>2. QED
        BY <2>2, <3>1 DEF InGap
    <2>4. Resting' /\ AtMost(0)' /\ AtLeast(0)'
      BY <1>1, <1>2, <2>1, <2>3, StaysAtRest DEF AtMost, AtLeast, LineInv
    <2>5. QED
      BY <1>1, <1>2, <2>1, <2>3, <2>4 DEF Handshake, InFrame
  <1>7. QED
    BY <1>3, <1>4, <1>5, <1>6, LineCases

(* An edge of the RTC clock moves the request one stage on.                *)
LEMMA ReqMoves ==
  ASSUME RtcEdge
  PROVE  /\ (req'[1] <=> ctrl) /\ (req'[2] <=> req[1]) /\ (req'[3] <=> req[2])
         /\ rtc_time_stamp' = IF Rise(req) THEN [frame |-> frame, late |-> n]
                              ELSE rtc_time_stamp
         /\ ts_ack' <=> (~ts_ack_clr /\ (ts_ack \/ Rise(req)))
         /\ UNCHANGED <<line, ack, ts_ack_clr, tsu_time_stamp>>
         /\ skew > -MaxSkew /\ skew' = skew - 1
  BY DEF RtcEdge, Capture, Shift

LEMMA RtcHandshake ==
  ASSUME Margins, Handshake, RtcEdge
  PROVE  Handshake'
  <1> USE DEF Down, RisingOne, RisingTwo, Up, FallingOne, FallingTwo
  <1>1. /\ UNCHANGED <<events, frame, ctrl, n, len, ack, ts_ack_clr, tsu_time_stamp>>
        /\ skew > -MaxSkew /\ skew' = skew - 1
        /\ MaxSkew \in Nat \ {0} /\ skew \in Int /\ n \in Nat /\ LineInv
    BY ReqMoves, TsuAssumption DEF Handshake, LineInv, line
  <1>2. LineInv'
    BY <1>1 DEF LineInv
  <1>3. CASE ctrl
    <2>1. InFrame
      BY <1>3 DEF Handshake
    <2>2. ASSUME Down(req), AtMost(0), AtLeast(0), Resting PROVE InFrame'
      <3>1. RisingOne(req)' /\ Resting'
        BY <1>1, <1>3, <2>2, ReqMoves DEF Resting, Rise
      <3>2. AtMost(1)' /\ AtLeast(1)'
        BY <1>1, <2>2 DEF AtMost, AtLeast
      <3>3. QED
        BY <3>1, <3>2 DEF InFrame
    <2>3. ASSUME RisingOne(req), AtMost(1), AtLeast(1), Resting PROVE InFrame'
      <3>1. RisingTwo(req)' /\ Resting'
        BY <1>1, <1>3, <2>3, ReqMoves DEF Resting, Rise
      <3>2. AtMost(2)' /\ AtLeast(2)'
        BY <1>1, <2>3 DEF AtMost, AtLeast
      <3>3. QED
        BY <3>1, <3>2 DEF InFrame
    <2>4. ASSUME RisingTwo(req), AtMost(2), AtLeast(2), Resting PROVE InFrame'
      <3>1. /\ Up(req)' /\ ts_ack' /\ Down(ack)' /\ ~ts_ack_clr'
            /\ rtc_time_stamp' = [frame |-> frame, late |-> n]
        BY <1>1, <1>3, <2>4, ReqMoves DEF Resting, Rise
      <3>2. skew \in 1 - MaxSkew .. MaxSkew
        BY <1>1 DEF LineInv
      <3>3. n \in Late /\ n <= 2 + 2 * MaxSkew
        BY <1>1, <2>4, <3>2 DEF Late, AtMost, AtLeast
      <3>4. Captured'
        BY <1>1, <3>1, <3>3 DEF Captured, Late
      <3>5. QED
        BY <1>1, <3>1, <3>3, <3>4 DEF InFrame, Running
    <2>5. ASSUME Up(req) PROVE InFrame'
      <3>1. Up(req)' /\ rtc_time_stamp' = rtc_time_stamp /\ (ts_ack' <=> ~ts_ack_clr /\ ts_ack)
        BY <1>3, <2>5, ReqMoves DEF Rise
      <3>2. Running => Running'
        BY <1>1, <3>1 DEF Running, Captured, Late
      <3>3. Clearing => Clearing'
        BY <1>1, <3>1 DEF Clearing, Latched, Late
      <3>4. Resting /\ Latched => Resting' /\ Latched'
        BY <1>1, <3>1 DEF Resting, Latched, Late
      <3>5. Running \/ Clearing \/ (Resting /\ Latched)
        BY <2>1, <2>5 DEF InFrame
      <3>6. QED
        BY <2>5, <3>1, <3>2, <3>3, <3>4, <3>5 DEF InFrame
    <2>6. InFrame'
      BY <2>1, <2>2, <2>3, <2>4, <2>5 DEF InFrame
    <2>7. QED
      BY <1>1, <1>2, <1>3, <2>6 DEF Handshake
  <1>4. CASE ~ctrl
    <2>1. InGap
      BY <1>4 DEF Handshake
    <2>2. /\ Up(req) => FallingOne(req)'
          /\ FallingOne(req) => FallingTwo(req)'
          /\ FallingTwo(req) => Down(req)'
          /\ Down(req) => Down(req)'
      BY <1>1, <1>4, <2>1, ReqMoves DEF InGap
    <2>3. AtMost(0) => AtMost(1)'
      BY <1>1 DEF AtMost
    <2>4. AtMost(1) => AtMost(2)'
      BY <1>1 DEF AtMost
    <2>5. Resting' /\ (frame' > 0 => Latched')
      BY <1>1, <2>1, ReqMoves DEF InGap, Resting, Latched, Late, Rise
    <2>6. QED
      BY <1>1, <1>2, <1>4, <2>1, <2>2, <2>3, <2>4, <2>5 DEF Handshake, InGap
  <1>5. QED
    BY <1>3, <1>4
-----------------------------------------------------------------------------
(* The types of the synchronisers; a stamp is never of a frame to come.    *)
SyncTypes ==
  /\ req \in [1 .. 3 -> BOOLEAN] /\ ack \in [1 .. 3 -> BOOLEAN]
  /\ ts_ack \in BOOLEAN /\ ts_ack_clr \in BOOLEAN
  /\ rtc_time_stamp \in [frame : 0 .. frame, late : Int]
  /\ tsu_time_stamp \in [frame : 0 .. frame, late : Int]

Entries == [frame : Nat, stamp : [frame : Nat, late : Int]]
Flags   == [{"queue", "ts_queue"} -> Nat]

(* What either side does not know of yet is in the queue, or was.          *)
Flow ==
  /\ queue \in Seq(Entries) /\ ts_queue \in Seq(Nat)
  /\ unseen \in Flags /\ unfreed \in Flags
  /\ unseen["queue"] <= Len(queue) /\ unseen["ts_queue"] <= Len(ts_queue)
  /\ Len(queue) + unfreed["queue"] <= Depth /\ Len(ts_queue) + unfreed["ts_queue"] <= Depth
  /\ reader \in 0 .. BusTime
  /\ met_full \in BOOLEAN

(* The two queues hold the same frames, and the reader has decided to pop  *)
(* only when it sees an entry in either.                                   *)
Together ==
  ~met_full =>
    /\ Len(queue) = Len(ts_queue)
    /\ \A i \in 1 .. Len(queue) : queue[i].frame = ts_queue[i]
    /\ out.queue = out.ts_queue
    /\ reader > 0 => unseen["queue"] < Len(queue) /\ unseen["ts_queue"] < Len(ts_queue)

UnitInv == Handshake /\ SyncTypes /\ Flow /\ OwnStamp /\ Together

LEMMA TwoFlags ==
  ASSUME NEW a \in Nat, NEW b \in Nat
  PROVE  LET f == [queue |-> a, ts_queue |-> b]
         IN  f \in Flags /\ f["queue"] = a /\ f["ts_queue"] = b
  BY DEF Flags

(* What is learned is never more than there is, and no more of one queue   *)
(* than of the other.                                                      *)
LEMMA LearnedLess ==
  ASSUME NEW u \in Flags, NEW v \in Learned(u)
  PROVE  /\ v \in Flags
         /\ v["queue"] <= u["queue"] /\ v["ts_queue"] <= u["ts_queue"]
         /\ v["queue"] <= u["ts_queue"] /\ v["ts_queue"] <= u["queue"]
  BY DEF Flags, Learned

LEMMA InitUnit == Init => UnitInv
  <1> SUFFICES ASSUME Init PROVE UnitInv
    OBVIOUS
  <1>1. SyncTypes
    <2>1. Low \in [1 .. 3 -> BOOLEAN]
      <3>1. \A a \in BOOLEAN : <<a, a, a>> \in [1 .. 3 -> BOOLEAN]
        OBVIOUS
      <3>2. QED
        BY <3>1 DEF Low
    <2>2. NoStamp \in [frame : 0 .. 0, late : Int]
      BY DEF NoStamp
    <2>3. QED
      BY <2>1, <2>2 DEF Init, SyncTypes
  <1>2. /\ unseen \in Flags /\ unseen["queue"] = 0 /\ unseen["ts_queue"] = 0
        /\ unfreed \in Flags /\ unfreed["queue"] = 0 /\ unfreed["ts_queue"] = 0
    BY TwoFlags DEF Init, Both
  <1>3. Flow
    <2>1. queue = << >> /\ ts_queue = << >> /\ reader = 0 /\ met_full \in BOOLEAN
      BY DEF Init
    <2>2. reader \in 0 .. BusTime /\ Depth \in Nat
      BY <2>1, TsuAssumption
    <2>3. QED
      BY <1>2, <2>1, <2>2 DEF Flow
  <1>4. OwnStamp /\ Together
    BY DEF Init, OwnStamp, Together
  <1>5. QED
    BY <1>1, <1>3, <1>4, InitHandshake DEF UnitInv

LEMMA SyncKeeps ==
  ASSUME LineInv, SyncTypes, Next
  PROVE  SyncTypes'
  <1>1. frame \in Nat /\ n \in Nat
    BY TsuAssumption DEF LineInv
  <1>2. CASE GmiiEdge
    <2>1. ack' \in [1 .. 3 -> BOOLEAN] /\ ts_ack' \in BOOLEAN /\ ts_ack_clr' \in BOOLEAN
      BY <1>2 DEF GmiiEdge, Acknowledge, SyncTypes, Shift, Rise
    <2>2. frame' \in Nat /\ frame <= frame'
      <3>1. frame' = frame \/ frame' = frame + 1
        BY <1>2, LineCases DEF Goes, Ends, Waits, Starts
      <3>2. QED
        BY <1>1, <3>1
    <2>3. \A t \in [frame : 0 .. frame, late : Int] : t \in [frame : 0 .. frame', late : Int]
      BY <1>1, <2>2
    <2>4. rtc_time_stamp' \in [frame : 0 .. frame', late : Int] /\ req' = req
      BY <1>2, <2>3, LineCases DEF SyncTypes
    <2>5. tsu_time_stamp' \in [frame : 0 .. frame', late : Int]
      BY <1>2, <2>3, AckMoves DEF SyncTypes
    <2>6. QED
      BY <2>1, <2>4, <2>5 DEF SyncTypes
  <1>3. CASE RtcEdge
    <2>1. req' \in [1 .. 3 -> BOOLEAN] /\ ts_ack' \in BOOLEAN
      BY <1>3 DEF RtcEdge, Capture, SyncTypes, Shift, Rise, LineInv
    <2>2. frame' = frame /\ UNCHANGED <<ack, ts_ack_clr, tsu_time_stamp>>
      BY <1>3, ReqMoves DEF line
    <2>3. rtc_time_stamp' \in [frame : 0 .. frame, late : Int]
      BY <1>1, <1>3, ReqMoves DEF SyncTypes
    <2>4. QED
      BY <2>1, <2>2, <2>3 DEF SyncTypes
  <1>4. QED
    BY <1>2, <1>3 DEF Next
-----------------------------------------------------------------------------
(* A write puts the frame and its own stamp into every queue it sees a     *)
(* free entry in.                                                          *)
LEMMA WriteKeeps ==
  ASSUME UnitInv, GmiiEdge, EndOfFrame, frame \in events
  PROVE  Flow' /\ OwnStamp' /\ Together'
  <1> DEFINE e == [frame |-> frame, stamp |-> tsu_time_stamp]
             a == IF Full("queue", queue) THEN 0 ELSE 1
             b == IF Full("ts_queue", ts_queue) THEN 0 ELSE 1
  <1>1. /\ Flow /\ OwnStamp /\ Together
        /\ frame \in Nat /\ Depth \in Nat /\ e \in Entries
        /\ tsu_time_stamp.frame = frame /\ tsu_time_stamp.late \in Late
    <2>1. frame \in Nat /\ Depth \in Nat
      BY TsuAssumption DEF UnitInv, Handshake, LineInv
    <2>2. e \in Entries
      BY <2>1 DEF UnitInv, SyncTypes, Entries
    <2>3. QED
      BY <2>1, <2>2 DEF UnitInv, Handshake, InGap, Latched, EndOfFrame
  <1>2. /\ WriteQueues /\ unfreed' \in Learned(unfreed)
        /\ reader' = reader /\ out' = out
    BY DEF GmiiEdge
  <1>3. /\ unfreed' \in Flags
        /\ unfreed'["queue"] <= unfreed["queue"] /\ unfreed'["ts_queue"] <= unfreed["ts_queue"]
    BY <1>1, <1>2, LearnedLess DEF Flow
  <1>4. a \in 0 .. 1 /\ b \in 0 .. 1
    OBVIOUS
  <1>5. /\ unseen' \in Flags
        /\ unseen'["queue"] = unseen["queue"] + a
        /\ unseen'["ts_queue"] = unseen["ts_queue"] + b
    <2>1. unseen' = [queue |-> unseen["queue"] + a, ts_queue |-> unseen["ts_queue"] + b]
      BY <1>2 DEF WriteQueues
    <2>2. unseen["queue"] + a \in Nat /\ unseen["ts_queue"] + b \in Nat
      BY <1>1, <1>4 DEF Flow, Flags
    <2> HIDE DEF a, b
    <2>3. QED
      BY <2>1, <2>2, TwoFlags
  <1>6. /\ queue' \in Seq(Entries) /\ Len(queue') = Len(queue) + a
        /\ \A i \in 1 .. Len(queue) : queue'[i] = queue[i]
        /\ a = 1 => queue'[Len(queue) + 1] = e
        /\ Len(queue) + a + unfreed["queue"] <= Depth
    <2>1. CASE Full("queue", queue)
      BY <1>1, <1>2, <2>1 DEF WriteQueues, Flow, Flags
    <2>2. CASE ~Full("queue", queue)
      <3>1. queue' = Append(queue, e)
        BY <1>2, <2>2 DEF WriteQueues
      <3>2. Len(queue) + 1 + unfreed["queue"] <= Depth
        BY <1>1, <2>2 DEF Full, Flow, Flags
      <3> HIDE DEF e
      <3>3. QED
        BY <1>1, <2>2, <3>1, <3>2, AppendProperties DEF Flow
    <2>3. QED
      BY <2>1, <2>2
  <1>7. /\ ts_queue' \in Seq(Nat) /\ Len(ts_queue') = Len(ts_queue) + b
        /\ \A i \in 1 .. Len(ts_queue) : ts_queue'[i] = ts_queue[i]
        /\ b = 1 => ts_queue'[Len(ts_queue) + 1] = frame
        /\ Len(ts_queue) + b + unfreed["ts_queue"] <= Depth
    <2>1. CASE Full("ts_queue", ts_queue)
      BY <1>1, <1>2, <2>1 DEF WriteQueues, Flow, Flags
    <2>2. CASE ~Full("ts_queue", ts_queue)
      <3>1. ts_queue' = Append(ts_queue, frame)
        BY <1>2, <2>2 DEF WriteQueues
      <3>2. Len(ts_queue) + 1 + unfreed["ts_queue"] <= Depth
        BY <1>1, <2>2 DEF Full, Flow, Flags
      <3>3. QED
        BY <1>1, <2>2, <3>1, <3>2, AppendProperties DEF Flow
    <2>3. QED
      BY <2>1, <2>2
  <1>8. met_full' \in BOOLEAN /\ (~met_full' => ~met_full /\ a = 1 /\ b = 1)
    BY <1>2 DEF WriteQueues
  <1>9. \A i \in 1 .. Len(queue') : i \in 1 .. Len(queue) \/ (a = 1 /\ i = Len(queue) + 1)
    BY <1>1, <1>4, <1>6 DEF Flow
  <1> HIDE DEF a, b
  <1>10. Flow'
    <2>1. /\ unseen["queue"] \in Nat /\ unseen["ts_queue"] \in Nat
          /\ unfreed["queue"] \in Nat /\ unfreed["ts_queue"] \in Nat
          /\ unfreed'["queue"] \in Nat /\ unfreed'["ts_queue"] \in Nat
          /\ Len(queue) \in Nat /\ Len(ts_queue) \in Nat
          /\ unseen["queue"] <= Len(queue) /\ unseen["ts_queue"] <= Len(ts_queue)
      BY <1>1, <1>3 DEF Flow, Flags
    <2>2. /\ Len(queue') = Len(queue) + a /\ Len(queue) + a + unfreed["queue"] <= Depth
          /\ Len(ts_queue') = Len(ts_queue) + b
          /\ Len(ts_queue) + b + unfreed["ts_queue"] <= Depth
      BY <1>6, <1>7
    <2>3. unseen'["queue"] <= Len(queue') /\ unseen'["ts_queue"] <= Len(ts_queue')
      BY <1>4, <1>5, <2>1, <2>2
    <2>4. Len(queue') + unfreed'["queue"] <= Depth
      BY <1>1, <1>3, <1>4, <2>1, <2>2
    <2>5. Len(ts_queue') + unfreed'["ts_queue"] <= Depth
      BY <1>1, <1>3, <1>4, <2>1, <2>2
    <2>6. QED
      BY <1>1, <1>2, <1>3, <1>5, <1>6, <1>7, <1>8, <2>3, <2>4, <2>5 DEF Flow
  <1>11. OwnStamp'
    BY <1>1, <1>6, <1>9 DEF OwnStamp, Late
  <1>12. Together'
    <2>1. SUFFICES ASSUME ~met_full' PROVE Together'
      BY DEF Together
    <2>2. a = 1 /\ b = 1 /\ Len(queue) = Len(ts_queue)
      BY <1>1, <1>8, <2>1 DEF Together
    <2>3. ASSUME NEW i \in 1 .. Len(queue') PROVE queue'[i].frame = ts_queue'[i]
      BY <1>1, <1>6, <1>7, <1>8, <1>9, <2>1, <2>2, <2>3 DEF Together
    <2>4. reader' > 0 => unseen'["queue"] < Len(queue') /\ unseen'["ts_queue"] < Len(ts_queue')
      <3>1. /\ unseen["queue"] \in Nat /\ unseen["ts_queue"] \in Nat
            /\ Len(queue) \in Nat /\ Len(ts_queue) \in Nat
        BY <1>1 DEF Flow, Flags
      <3>2. reader > 0 => unseen["queue"] < Len(queue) /\ unseen["ts_queue"] < Len(ts_queue)
        BY <1>1, <1>8, <2>1 DEF Together
      <3>3. QED
        BY <1>2, <1>5, <1>6, <1>7, <2>2, <3>1, <3>2
    <2>5. QED
      BY <1>1, <1>2, <1>6, <1>7, <1>8, <2>1, <2>2, <2>3, <2>4 DEF Together
  <1>13. QED
    BY <1>10, <1>11, <1>12

LEMMA NoWriteKeeps ==
  ASSUME UnitInv, GmiiEdge, ~(EndOfFrame /\ frame \in events)
  PROVE  Flow' /\ OwnStamp' /\ Together'
  <1>1. /\ UNCHANGED <<queue, ts_queue, unseen, met_full, reader, out>>
        /\ unfreed' \in Learned(unfreed)
    BY DEF GmiiEdge
  <1>2. Flow /\ OwnStamp /\ Together
    BY DEF UnitInv
  <1>3. /\ unfreed' \in Flags
        /\ unfreed'["queue"] <= unfreed["queue"] /\ unfreed'["ts_queue"] <= unfreed["ts_queue"]
    BY <1>1, <1>2, LearnedLess DEF Flow
  <1>4. Flow'
    BY <1>1, <1>2, <1>3, TsuAssumption DEF Flow, Flags
  <1>5. QED
    BY <1>1, <1>2, <1>4 DEF OwnStamp, Late, Together

(* An edge without a pop: the reader may learn of entries; when it decides *)
(* to pop it sees one in `queue', and then one in `ts_queue' as well.      *)
LEMMA BusyKeeps ==
  ASSUME UnitInv, Busy \/ Poll, met_full' = met_full
  PROVE  Flow' /\ OwnStamp' /\ Together'
  <1>1. UNCHANGED <<queue, ts_queue, unfreed, out>> /\ unseen' \in Learned(unseen)
    BY DEF Busy, Poll
  <1>2. Flow /\ OwnStamp /\ Together
    BY DEF UnitInv
  <1>3. /\ unseen' \in Flags
        /\ unseen'["queue"] <= unseen["queue"] /\ unseen'["ts_queue"] <= unseen["ts_queue"]
        /\ unseen'["queue"] <= unseen["ts_queue"] /\ unseen'["ts_queue"] <= unseen["queue"]
    BY <1>1, <1>2, LearnedLess DEF Flow
  <1>4. /\ reader' \in 0 .. BusTime
        /\ reader' > 0 => reader > 0 \/ (Poll /\ Visible("queue", queue) # 0)
    <2>1. CASE Busy
      BY <1>2, <2>1, TsuAssumption DEF Busy, Flow
    <2>2. CASE Poll
      <3>1. 0 % Depth = 0
        BY TsuAssumption
      <3>2. QED
        BY <2>2, <3>1, TsuAssumption DEF Poll
    <2>3. QED
      BY <2>1, <2>2
  <1>5. Flow'
    BY <1>1, <1>2, <1>3, <1>4, TsuAssumption DEF Flow, Flags
  <1>6. Together'
    <2>1. SUFFICES ASSUME ~met_full, reader' > 0
                   PROVE  unseen'["queue"] < Len(queue) /\ unseen'["ts_queue"] < Len(ts_queue)
      BY <1>1, <1>2 DEF Together
    <2>2. CASE reader > 0
      BY <1>2, <1>3, <2>1, <2>2 DEF Together, Flow, Flags
    <2>3. CASE Visible("queue", queue) # 0
      BY <1>2, <1>3, <2>1, <2>3 DEF Together, Flow, Flags, Visible
    <2>4. QED
      BY <1>4, <2>1, <2>2, <2>3
  <1>7. QED
    BY <1>1, <1>2, <1>5, <1>6 DEF OwnStamp, Late

LEMMA PopKeeps ==
  ASSUME UnitInv, Pop, met_full' = met_full
  PROVE  Flow' /\ OwnStamp' /\ Together'
  <1> DEFINE q == Visible("queue", queue) # 0
             t == Visible("ts_queue", ts_queue) # 0
             a == IF q THEN 1 ELSE 0
             b == IF t THEN 1 ELSE 0
  <1>1. Flow /\ OwnStamp /\ Together /\ Depth \in Nat /\ BusTime \in Nat
    BY TsuAssumption DEF UnitInv
  <1>2. reader = 1 /\ reader' = 0 /\ unseen' = unseen
    BY DEF Pop
  <1>3. /\ queue' \in Seq(Entries) /\ Len(queue') = Len(queue) - a
        /\ unseen["queue"] <= Len(queue')
        /\ \A i \in 1 .. Len(queue') : queue'[i] = queue[i + a] /\ i + a \in 1 .. Len(queue)
    <2>1. CASE q
      <3>1. queue' = Tail(queue) /\ queue # << >> /\ unseen["queue"] <= Len(queue) - 1
        BY <1>1, <2>1 DEF Pop, Visible, Flow, Flags
      <3>2. QED
        BY <1>1, <2>1, <3>1, HeadTailProperties DEF Flow
    <2>2. CASE ~q
      BY <1>1, <2>2 DEF Pop, Flow, Flags
    <2>3. QED
      BY <2>1, <2>2
  <1>4. /\ ts_queue' \in Seq(Nat) /\ Len(ts_queue') = Len(ts_queue) - b
        /\ unseen["ts_queue"] <= Len(ts_queue')
        /\ \A i \in 1 .. Len(ts_queue') : ts_queue'[i] = ts_queue[i + b]
    <2>1. CASE t
      <3>1. /\ ts_queue' = Tail(ts_queue) /\ ts_queue # << >>
            /\ unseen["ts_queue"] <= Len(ts_queue) - 1
        BY <1>1, <2>1 DEF Pop, Visible, Flow, Flags
      <3>2. QED
        BY <1>1, <2>1, <3>1, HeadTailProperties DEF Flow
    <2>2. CASE ~t
      BY <1>1, <2>2 DEF Pop, Flow, Flags
    <2>3. QED
      BY <2>1, <2>2
  <1>5. a \in 0 .. 1 /\ b \in 0 .. 1
    OBVIOUS
  <1>6. /\ unfreed' \in Flags
        /\ unfreed'["queue"] = unfreed["queue"] + a
        /\ unfreed'["ts_queue"] = unfreed["ts_queue"] + b
    <2>1. unfreed' = [queue |-> unfreed["queue"] + a, ts_queue |-> unfreed["ts_queue"] + b]
      BY DEF Pop
    <2>2. unfreed["queue"] + a \in Nat /\ unfreed["ts_queue"] + b \in Nat
      BY <1>1, <1>5 DEF Flow, Flags
    <2> HIDE DEF a, b
    <2>3. QED
      BY <2>1, <2>2, TwoFlags
  <1>7. Together'
    <2>1. SUFFICES ASSUME ~met_full PROVE Together'
      BY DEF Together
    <2>2. q /\ t /\ Len(queue) = Len(ts_queue) /\ Len(queue) >= 1
      BY <1>1, <1>2, <2>1 DEF Together, Flow, Flags, Visible
    <2>3. out'.queue = queue[1].frame /\ out'.ts_queue = ts_queue[1]
      BY <2>2 DEF Pop
    <2>4. queue[1].frame = ts_queue[1]
      BY <1>1, <2>1, <2>2 DEF Together, Flow
    <2>5. a = 1 /\ b = 1
      BY <2>2
    <2> HIDE DEF q, t, a, b
    <2>6. Len(queue') = Len(ts_queue')
      BY <1>3, <1>4, <2>2, <2>5
    <2>7. ASSUME NEW i \in 1 .. Len(queue') PROVE queue'[i].frame = ts_queue'[i]
      BY <1>1, <1>3, <1>4, <2>1, <2>2, <2>5, <2>6, <2>7 DEF Together
    <2>8. QED
      BY <1>2, <2>3, <2>4, <2>6, <2>7 DEF Together
  <1> HIDE DEF q, t, a, b
  <1>8. Flow'
    <2>1. /\ unfreed["queue"] \in Nat /\ unfreed["ts_queue"] \in Nat
          /\ Len(queue) \in Nat /\ Len(ts_queue) \in Nat
          /\ Len(queue) + unfreed["queue"] <= Depth
          /\ Len(ts_queue) + unfreed["ts_queue"] <= Depth
      BY <1>1 DEF Flow, Flags
    <2>2. /\ Len(queue') + unfreed'["queue"] <= Depth
          /\ Len(ts_queue') + unfreed'["ts_queue"] <= Depth
      <3>1. Len(queue') = Len(queue) - a /\ Len(ts_queue') = Len(ts_queue) - b
        BY <1>3, <1>4
      <3>2. QED
        BY <1>1, <1>5, <1>6, <2>1, <3>1
    <2>3. reader' \in 0 .. BusTime /\ met_full' \in BOOLEAN
      BY <1>1, <1>2 DEF Flow
    <2>4. QED
      BY <1>1, <1>2, <1>3, <1>4, <1>6, <2>2, <2>3 DEF Flow
  <1>9. OwnStamp'
    BY <1>1, <1>3 DEF OwnStamp, Late
  <1>10. QED
    BY <1>7, <1>8, <1>9

LEMMA ResetKeeps ==
  ASSUME UnitInv, Reset, met_full' = met_full
  PROVE  Flow' /\ OwnStamp' /\ Together'
  <1>1. queue' = << >> /\ ts_queue' = << >> /\ reader = 0 /\ UNCHANGED <<reader, out>>
    BY DEF Reset
  <1>2. /\ unseen' \in Flags /\ unseen'["queue"] = 0 /\ unseen'["ts_queue"] = 0
        /\ unfreed' \in Flags /\ unfreed'["queue"] = 0 /\ unfreed'["ts_queue"] = 0
    BY TwoFlags DEF Reset, Both
  <1>3. Flow'
    BY <1>1, <1>2, TsuAssumption DEF UnitInv, Flow
  <1>4. OwnStamp' /\ Together'
    BY <1>1 DEF OwnStamp, UnitInv, Together
  <1>5. QED
    BY <1>3, <1>4

LEMMA UnitKeeps ==
  ASSUME Margins, UnitInv, [Next]_vars
  PROVE  UnitInv'
  <1>1. CASE UNCHANGED vars
    BY <1>1 DEF vars, line, UnitInv, Handshake, LineInv, InFrame, InGap, Running, Clearing,
       Resting, Captured, Latched, AtMost, AtLeast, Late, Down, RisingOne, RisingTwo, Up,
       FallingOne, FallingTwo, SyncTypes, Flow, OwnStamp, Together
  <1>2. CASE GmiiEdge
    <2>1. Handshake' /\ SyncTypes'
      BY <1>2, GmiiHandshake, SyncKeeps DEF UnitInv, Handshake, Next
    <2>2. QED
      BY <1>2, <2>1, WriteKeeps, NoWriteKeeps DEF UnitInv
  <1>3. CASE RtcEdge
    <2>1. Handshake' /\ SyncTypes'
      BY <1>3, RtcHandshake, SyncKeeps DEF UnitInv, Handshake, Next
    <2>2. met_full' = met_full /\ (Busy \/ Poll \/ Pop \/ Reset)
      BY <1>3 DEF RtcEdge
    <2>3. QED
      BY <2>1, <2>2, BusyKeeps, PopKeeps, ResetKeeps DEF UnitInv
  <1>4. QED
    BY <1>1, <1>2, <1>3 DEF Next

(* The invariant of the unit: the handshake, the flow through the queues   *)
(* and the pairing of their entries.                                       *)
THEOREM UnitInvariant == ASSUME Margins PROVE Spec => []UnitInv
  <1>1. Init => UnitInv
    BY InitUnit
  <1>2. UnitInv /\ [Next]_vars => UnitInv'
    BY UnitKeeps
  <1>3. QED
    BY <1>1, <1>2, PTL DEF Spec

(* Neither queue ever holds more than its depth, and neither side knows of *)
(* more entries than there are (tsu.v:335-400).                            *)
THEOREM TypeCorrect == ASSUME Margins PROVE Spec => []TypeOK
  <1>1. UnitInv => TypeOK
    <2>1. SUFFICES ASSUME UnitInv PROVE TypeOK
      OBVIOUS
    <2>2. /\ frame \in 0 .. MaxFrames /\ ctrl \in BOOLEAN /\ n \in Nat
          /\ reader \in 0 .. BusTime /\ skew \in -MaxSkew .. MaxSkew
      BY <2>1 DEF UnitInv, Handshake, LineInv, Flow
    <2>3. /\ req \in [1 .. 3 -> BOOLEAN] /\ ack \in [1 .. 3 -> BOOLEAN]
          /\ ts_ack \in BOOLEAN /\ ts_ack_clr \in BOOLEAN
          /\ rtc_time_stamp.frame \in 0 .. frame /\ tsu_time_stamp.frame \in 0 .. frame
      BY <2>1 DEF UnitInv, SyncTypes
    <2>4. /\ unseen["queue"] \in Nat /\ unseen["ts_queue"] \in Nat
          /\ unfreed["queue"] \in Nat /\ unfreed["ts_queue"] \in Nat
          /\ Len(queue) \in Nat /\ Len(ts_queue) \in Nat /\ Depth \in Nat
          /\ unfreed \in Flags
          /\ unseen["queue"] <= Len(queue) /\ unseen["ts_queue"] <= Len(ts_queue)
          /\ Len(queue) + unfreed["queue"] <= Depth
          /\ Len(ts_queue) + unfreed["ts_queue"] <= Depth
      BY <2>1, TsuAssumption DEF UnitInv, Flow, Flags
    <2>5. /\ Len(queue) <= Depth /\ Len(ts_queue) <= Depth
          /\ unfreed["queue"] \in 0 .. Depth /\ unfreed["ts_queue"] \in 0 .. Depth
          /\ unseen["queue"] \in 0 .. Len(queue) /\ unseen["ts_queue"] \in 0 .. Len(ts_queue)
      BY <2>4
    <2>6. unfreed \in [{"queue", "ts_queue"} -> 0 .. Depth]
      BY <2>4, <2>5 DEF Flags
    <2>7. QED
      BY <2>2, <2>3, <2>5, <2>6 DEF TypeOK
  <1>2. QED
    BY <1>1, UnitInvariant, PTL

(* Every entry bears the stamp of its own frame, taken at its start        *)
(* (tsu.v:190-251), although the time is captured in another clock domain  *)
(* and the entry is written after the frame.                               *)
THEOREM StampsItsOwn == ASSUME Margins PROVE Spec => []OwnStamp
  <1>1. UnitInv => OwnStamp
    BY DEF UnitInv
  <1>2. QED
    BY <1>1, UnitInvariant, PTL

(* As long as no write has met a full queue, a stamp and an origin time    *)
(* stamp that are read together are of one frame (tsu.v:353-400).          *)
THEOREM ReadsPairs == ASSUME Margins PROVE Spec => []Paired
  <1>1. UnitInv => Paired
    <2>1. SUFFICES ASSUME UnitInv, ~met_full
                   PROVE  /\ [i \in 1 .. Len(queue) |-> queue[i].frame] = ts_queue
                          /\ out.queue = out.ts_queue
      BY DEF Paired
    <2>2. /\ queue \in Seq(Entries) /\ ts_queue \in Seq(Nat) /\ Len(queue) = Len(ts_queue)
          /\ \A i \in 1 .. Len(queue) : queue[i].frame = ts_queue[i]
          /\ out.queue = out.ts_queue
      BY <2>1 DEF UnitInv, Flow, Together
    <2>3. QED
      BY <2>2
  <1>2. QED
    BY <1>1, UnitInvariant, PTL
-----------------------------------------------------------------------------
(* The entries as the abstract queue has them.                             *)
Brief == [frame : Nat, stamp : Nat]
Briefs(s) ==
  [i \in 1 .. Len(s) |-> [frame |-> s[i].frame, stamp |-> s[i].stamp.frame]]

LEMMA BriefsAreEntries ==
  ASSUME NEW s \in Seq(Entries)
  PROVE  Briefs(s) \in Seq(Brief) /\ Len(Briefs(s)) = Len(s)
  <1>1. Len(s) \in Nat
    OBVIOUS
  <1>2. ASSUME NEW i \in 1 .. Len(s)
        PROVE  [frame |-> s[i].frame, stamp |-> s[i].stamp.frame] \in Brief
    <2>1. s[i] \in Entries
      BY ElementOfSeq
    <2>2. QED
      BY <2>1 DEF Brief, Entries
  <1>3. Briefs(s) \in [1 .. Len(s) -> Brief]
    BY <1>2 DEF Briefs
  <1>4. QED
    BY <1>1, <1>3, LenProperties, SeqDef

LEMMA BriefsAppend ==
  ASSUME NEW s \in Seq(Entries), NEW e \in Entries
  PROVE  Briefs(Append(s, e)) = Append(Briefs(s), [frame |-> e.frame, stamp |-> e.stamp.frame])
  <1> DEFINE b == [frame |-> e.frame, stamp |-> e.stamp.frame]
  <1>1. Briefs(s) \in Seq(Brief) /\ Len(Briefs(s)) = Len(s) /\ b \in Brief
    BY BriefsAreEntries DEF Brief, Entries
  <1>2. Append(s, e) \in Seq(Entries) /\ Len(Append(s, e)) = Len(s) + 1
    OBVIOUS
  <1>3. Briefs(Append(s, e)) \in Seq(Brief) /\ Len(Briefs(Append(s, e))) = Len(s) + 1
    BY <1>2, BriefsAreEntries
  <1>4. Append(Briefs(s), b) \in Seq(Brief) /\ Len(Append(Briefs(s), b)) = Len(s) + 1
    BY <1>1
  <1>5. ASSUME NEW i \in 1 .. Len(s) + 1
        PROVE  Briefs(Append(s, e))[i] = Append(Briefs(s), b)[i]
    BY <1>1, <1>2 DEF Briefs
  <1> HIDE DEF b
  <1>6. QED
    BY <1>3, <1>4, <1>5, SeqEqual DEF b

LEMMA BriefsTail ==
  ASSUME NEW s \in Seq(Entries), s # << >>
  PROVE  Briefs(Tail(s)) = Tail(Briefs(s)) /\ Briefs(s) # << >>
  <1>1. Briefs(s) \in Seq(Brief) /\ Len(Briefs(s)) = Len(s) /\ Len(s) > 0
    BY BriefsAreEntries
  <1>2. Tail(s) \in Seq(Entries) /\ Len(Tail(s)) = Len(s) - 1
    OBVIOUS
  <1>3. Briefs(Tail(s)) \in Seq(Brief) /\ Len(Briefs(Tail(s))) = Len(s) - 1
    BY <1>2, BriefsAreEntries
  <1>4. /\ Briefs(s) # << >> /\ Tail(Briefs(s)) \in Seq(Brief)
        /\ Len(Tail(Briefs(s))) = Len(s) - 1
    BY <1>1
  <1>5. ASSUME NEW i \in 1 .. Len(s) - 1 PROVE Briefs(Tail(s))[i] = Tail(Briefs(s))[i]
    BY <1>1, <1>2 DEF Briefs
  <1>6. QED
    BY <1>3, <1>4, <1>5, SeqEqual

LEMMA WriteClockRange == ASSUME NEW l \in Nat, len = l PROVE WriteClock \in 4 .. 6
  BY DEF WriteClock

(* A frame is dealt with on the edge of its write, and on no other.        *)
LEMMA DealtOnWrite ==
  ASSUME Margins, LineInv, GmiiEdge
  PROVE  /\ EndOfFrame => Dealt = frame - 1 /\ Dealt' = frame
         /\ ~EndOfFrame => Dealt' = Dealt
  <1>1. /\ frame \in Nat /\ n \in Nat /\ len \in Nat /\ WriteClock \in 4 .. 6
        /\ MinGap \in Nat /\ MinGap >= 6 /\ (ctrl => frame > 0)
    BY TsuAssumption, WriteClockRange DEF LineInv, Margins
  <1>2. len' = len => WriteClock' = WriteClock
    BY DEF WriteClock
  <1>3. CASE Goes
    BY <1>1, <1>3 DEF Goes, EndOfFrame, Dealt
  <1>4. CASE Ends
    BY <1>1, <1>2, <1>4 DEF Ends, EndOfFrame, Dealt
  <1>5. CASE Waits
    BY <1>1, <1>2, <1>5 DEF Waits, EndOfFrame, Dealt
  <1>6. CASE Starts
    BY <1>1, <1>6 DEF Starts, EndOfFrame, Dealt
  <1>7. QED
    BY <1>3, <1>4, <1>5, <1>6, LineCases

(* The writer never sees more free entries than there are.                 *)
CreditOK ==
  /\ queue \in Seq(Entries) /\ Len(queue) \in Nat
  /\ unfreed.queue \in Nat /\ unfreed \in Flags
  /\ FreeSeen \in 0 .. Depth - Len(queue)
  /\ FreeSeen = Depth - Len(queue) - unfreed.queue
  /\ Full("queue", queue) <=> FreeSeen = 0

LEMMA CreditCounts == UnitInv => CreditOK
  <1> SUFFICES ASSUME UnitInv PROVE CreditOK
    OBVIOUS
  <1>1. /\ queue \in Seq(Entries) /\ Len(queue) \in Nat /\ Depth \in Nat
        /\ unfreed["queue"] \in Nat /\ unfreed \in Flags
        /\ Len(queue) + unfreed["queue"] <= Depth
    BY TsuAssumption DEF UnitInv, Flow, Flags
  <1>2. QED
    BY <1>1 DEF CreditOK, FreeSeen, Full

(* An edge of the GMII clock: an event is reported, or left out because    *)
(* no entry is free, or there is none; pops may become known.              *)
LEMMA GmiiImplements ==
  ASSUME Margins, UnitInv, CreditOK, CreditOK', GmiiEdge
  PROVE  [Promise!QueueNext]_(Promise!queueVars)
  <1>1. Depth \in Nat /\ MaxFrames \in Nat /\ frame \in Nat /\ frame <= MaxFrames
    BY TsuAssumption DEF UnitInv, Handshake, LineInv
  <1>2. unfreed' \in Learned(unfreed)
    BY DEF GmiiEdge
  <1>3. unfreed'.queue <= unfreed.queue
    BY <1>2, LearnedLess DEF CreditOK
  <1>4. /\ EndOfFrame => Dealt = frame - 1 /\ Dealt' = frame
        /\ ~EndOfFrame => Dealt' = Dealt
        /\ events' = events
    BY DealtOnWrite, LineCases DEF UnitInv, Handshake
  <1>5. Reported = Briefs(queue) /\ Reported' = Briefs(queue')
    BY DEF Reported, Briefs
  <1>6. Len(Reported') = Len(queue')
    BY <1>5, BriefsAreEntries DEF CreditOK
  <1>7. CASE EndOfFrame /\ frame \in events /\ ~Full("queue", queue)
    <2> DEFINE e == [frame |-> frame, stamp |-> tsu_time_stamp]
    <2>1. queue' = Append(queue, e)
      BY <1>7 DEF GmiiEdge, WriteQueues
    <2>2. e \in Entries /\ e.frame = frame /\ e.stamp.frame = frame
      BY <1>1, <1>7
      DEF UnitInv, SyncTypes, Handshake, LineInv, InGap, Latched, EndOfFrame, Entries
    <2>3. Reported' = Append(Reported, [frame |-> frame, stamp |-> frame])
      BY <1>5, <2>1, <2>2, BriefsAppend DEF CreditOK
    <2>4. FreeSeen > 0 /\ FreeSeen' \in FreeSeen - 1 .. Depth - Len(queue')
      BY <1>1, <1>3, <1>7, <2>1 DEF CreditOK
    <2>5. Promise!Report
      BY <1>1, <1>4, <1>6, <1>7, <2>3, <2>4
      DEF Promise!Report, Promise!Frame, Promise!Credit
    <2>6. QED
      BY <2>5 DEF Promise!QueueNext
  <1>8. CASE EndOfFrame /\ frame \in events /\ Full("queue", queue)
    <2>1. queue' = queue
      BY <1>8 DEF GmiiEdge, WriteQueues
    <2>2. Reported' = Reported /\ FreeSeen = 0 /\ FreeSeen' \in 0 .. Depth - Len(Reported')
      BY <1>1, <1>5, <1>6, <1>8, <2>1 DEF CreditOK
    <2>3. Promise!Overflow
      BY <1>1, <1>4, <1>8, <2>2 DEF Promise!Overflow, Promise!Frame, Promise!Credit
    <2>4. QED
      BY <2>3 DEF Promise!QueueNext
  <1>9. CASE EndOfFrame /\ frame \notin events
    <2>1. queue' = queue
      BY <1>9 DEF GmiiEdge
    <2>2. Reported' = Reported /\ FreeSeen' \in FreeSeen .. Depth - Len(Reported')
      BY <1>1, <1>3, <1>5, <1>6, <2>1 DEF CreditOK
    <2>3. Promise!Ignore
      BY <1>1, <1>4, <1>9, <2>2 DEF Promise!Ignore, Promise!Frame, Promise!Credit
    <2>4. QED
      BY <2>3 DEF Promise!QueueNext
  <1>10. CASE ~EndOfFrame
    <2>1. queue' = queue
      BY <1>10 DEF GmiiEdge
    <2>2. /\ Reported' = Reported
          /\ FreeSeen' = FreeSeen \/ FreeSeen' \in FreeSeen + 1 .. Depth - Len(Reported')
      BY <1>1, <1>3, <1>5, <1>6, <2>1 DEF CreditOK
    <2>3. CASE FreeSeen' = FreeSeen
      BY <1>4, <1>10, <2>2, <2>3 DEF Promise!queueVars
    <2>4. CASE FreeSeen' \in FreeSeen + 1 .. Depth - Len(Reported')
      <3>1. Promise!Reclaim
        BY <1>4, <1>10, <2>2, <2>4 DEF Promise!Reclaim, Promise!Credit
      <3>2. QED
        BY <3>1 DEF Promise!QueueNext
    <2>5. QED
      BY <2>2, <2>3, <2>4
  <1>11. QED
    BY <1>7, <1>8, <1>9, <1>10

(* An edge of the RTC clock: a pop takes an entry, and a reset takes all.  *)
LEMMA RtcImplements ==
  ASSUME UnitInv, CreditOK, CreditOK', RtcEdge
  PROVE  [Promise!QueueNext]_(Promise!queueVars)
  <1>1. Dealt' = Dealt /\ events' = events
    BY DEF RtcEdge, line, Dealt, WriteClock
  <1>2. Reported = Briefs(queue) /\ Reported' = Briefs(queue') /\ Depth \in Nat
    BY TsuAssumption DEF Reported, Briefs
  <1>3. CASE Busy \/ Poll
    BY <1>1, <1>3 DEF Busy, Poll, Reported, FreeSeen, Promise!queueVars
  <1>4. CASE Pop /\ Visible("queue", queue) = 0
    <2>1. queue' = queue /\ unfreed'.queue = unfreed.queue
      BY <1>4 DEF Pop, CreditOK
    <2>2. QED
      BY <1>1, <2>1 DEF Reported, FreeSeen, Promise!queueVars
  <1>5. CASE Pop /\ Visible("queue", queue) # 0
    <2>1. queue # << >>
      BY <1>5 DEF Visible, UnitInv, Flow, Flags
    <2>2. queue' = Tail(queue) /\ unfreed'.queue = unfreed.queue + 1
      BY <1>5 DEF Pop, CreditOK
    <2>3. Reported # << >> /\ Reported' = Tail(Reported)
      BY <1>2, <2>1, <2>2, BriefsTail DEF CreditOK
    <2>4. FreeSeen' = FreeSeen
      BY <1>2, <2>1, <2>2 DEF CreditOK
    <2>5. Promise!Take
      BY <1>1, <2>3, <2>4 DEF Promise!Take
    <2>6. QED
      BY <2>5 DEF Promise!QueueNext
  <1>6. CASE Reset
    <2>1. queue' = << >> /\ unfreed'.queue = 0
      BY <1>6 DEF Reset, Both
    <2>2. Reported' = << >> /\ FreeSeen' = Depth
      BY <1>2, <2>1 DEF Reported, FreeSeen
    <2>3. Promise!Reset
      BY <1>1, <2>2 DEF Promise!Reset
    <2>4. QED
      BY <2>3 DEF Promise!QueueNext
  <1>7. QED
    BY <1>3, <1>4, <1>5, <1>6 DEF RtcEdge

(* The unit implements the queue it promises: every event frame appears    *)
(* once, in order and with its own stamp, unless the writer sees no free   *)
(* entry (tsu.v:190-400).                                                  *)
THEOREM ImplementsPromise == ASSUME Margins PROVE Spec => KeepsPromise
  <1>1. Init => Promise!QueueInit
    <2>1. SUFFICES ASSUME Init PROVE Promise!QueueInit
      OBVIOUS
    <2>2. Dealt = 0 /\ Reported = << >> /\ FreeSeen = Depth
      BY <2>1, TsuAssumption DEF Init, Dealt, Reported, FreeSeen, Both
    <2>3. QED
      BY <2>1, <2>2 DEF Init, Promise!QueueInit
  <1>2. UnitInv /\ CreditOK /\ CreditOK' /\ [Next]_vars
        => [Promise!QueueNext]_(Promise!queueVars)
    <2>1. SUFFICES ASSUME UnitInv, CreditOK, CreditOK', [Next]_vars
                   PROVE  [Promise!QueueNext]_(Promise!queueVars)
      OBVIOUS
    <2>2. CASE UNCHANGED vars
      BY <2>2 DEF vars, line, Promise!queueVars, Dealt, WriteClock, Reported, FreeSeen
    <2>3. QED
      BY <2>1, <2>2, GmiiImplements, RtcImplements DEF Next
  <1>3. QED
    BY <1>1, <1>2, UnitInvariant, CreditCounts, PTL DEF Spec, KeepsPromise, Promise!QueueSpec
=============================================================================
