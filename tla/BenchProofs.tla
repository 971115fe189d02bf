---------------------------- MODULE BenchProofs ------------------------------
(***************************************************************************)
(* XgmiiEp: however many frames follow each other, on whatever link, the   *)
(* gaps of no run of frames are together more than three lanes shorter     *)
(* than Ifg each.  PtpTd: the sink shows the time of the source, and the   *)
(* alternate offset is right in the second it names.  WbBus and AxilBus:   *)
(* an idle master leaves the RAM, and has read, what its calls were for.   *)
(***************************************************************************)
EXTENDS XgmiiEp, PtpTd, WbBus, AxilBus, SequenceTheorems, TLAPS

LaneSet == [c : BOOLEAN, v : Int]

(* The history and the counters between two words: what the gaps so far    *)
(* fell short of is owed by the deficit while a frame is sent, and by the  *)
(* deficit, the gap so far and what is left of it between two frames.      *)
GapInv ==
  /\ link \in {"xgmii32", "xgmii64", "myhdl", "cocotb"}
  /\ enable_dic \in BOOLEAN /\ force_offset_start \in BOOLEAN
  /\ dl \in Seq(LaneSet) /\ number \in {0, 1}
  /\ ifg_cnt \in Nat /\ deficit_idle_cnt \in 0 .. 3 /\ slack \in -3 .. 0 /\ gap_lanes \in Nat
  /\ link = "cocotb" /\ ~enable_dic => deficit_idle_cnt = 0
  /\ dl # << >> => ifg_cnt = 0 /\ slack + deficit_idle_cnt >= 0
  /\ dl = << >> /\ link # "cocotb" => slack + gap_lanes + ifg_cnt >= Ifg
  /\ dl = << >> /\ link = "cocotb" => slack + gap_lanes + ifg_cnt + deficit_idle_cnt >= Ifg

(* The smaller of two integers, as the model takes it.                     *)
LEMMA MinOfTwo == ASSUME NEW a \in Int, NEW b \in Int
             PROVE /\ Min({a, b}) \in Int
                   /\ Min({a, b}) <= a /\ Min({a, b}) <= b
                   /\ Min({a, b}) = a \/ Min({a, b}) = b
<1>1. PICK m \in {a, b} : \A y \in {a, b} : m <= y
  OBVIOUS
<1> QED
  BY <1>1 DEF Min

(* A function on 1 .. n is a sequence of length n.                         *)
LEMMA SeqOfFunction == ASSUME NEW S, NEW n \in Nat, NEW g \in [1 .. n -> S]
             PROVE g \in Seq(S) /\ Len(g) = n
<1>1. g \in Seq(S)
  BY SeqDef, Zenon
<1>2. DOMAIN g = 1 .. Len(g) /\ Len(g) \in Nat
  BY <1>1, LenProperties, Zenon
<1>3. DOMAIN g = 1 .. n
  OBVIOUS
<1> QED BY <1>1, <1>2, <1>3

(* A frame is sent as its lanes between a start and a terminate character. *)
LEMMA SentLanes == ASSUME NEW f \in Frames, number \in {0, 1}
             PROVE /\ Built(f) \in Seq(LaneSet) /\ Len(Built(f)) = f.len
                   /\ f.len \in Nat /\ f.len >= 8 /\ f.err \in Nat
                   /\ Tail(Built(f)) \in Seq(LaneSet) /\ Len(Tail(Built(f))) = f.len - 1
                   /\ Sent(f) \in Seq(LaneSet) /\ Len(Sent(f)) = f.len + 1
<1>1. f.len \in Nat /\ f.len >= 8 /\ f.err \in Nat /\ f.no \in {0, 1}
  BY XgmiiAssumption DEF Frames
<1>2. \A i \in 1 .. f.len : Built(f)[i] \in LaneSet
  BY <1>1 DEF Built, Ctrl, Byte8, LaneSet, ERROR, ETH_PRE
<1>3. /\ Built(f) \in Seq(LaneSet) /\ Len(Built(f)) = f.len
  <2>1. Built(f) = [i \in 1 .. f.len |-> Built(f)[i]]
    BY DEF Built
  <2>2. Built(f) \in [1 .. f.len -> LaneSet]
    <3> HIDE DEF Built
    <3> QED BY <1>2, <2>1
  <2>3. f.len \in Nat
    BY <1>1
  <2> HIDE DEF Built
  <2> QED BY <2>2, <2>3, SeqOfFunction, Zenon
<1>4. /\ Tail(Built(f)) \in Seq(LaneSet) /\ Len(Tail(Built(f))) = f.len - 1
  <2>1. \A q \in Seq(LaneSet) : Len(q) >= 8 => Tail(q) \in Seq(LaneSet) /\ Len(Tail(q)) = Len(q) - 1
    OBVIOUS
  <2>2. Len(Built(f)) >= 8
    BY <1>1, <1>3, Zenon
  <2> HIDE DEF Built
  <2> QED BY <1>3, <2>1, <2>2, Zenon
<1>5. << Ctrl(START) >> \in Seq(LaneSet) /\ Len(<< Ctrl(START) >>) = 1
  BY DEF Ctrl, START, LaneSet
<1>6. << Ctrl(TERM) >> \in Seq(LaneSet) /\ Len(<< Ctrl(TERM) >>) = 1
  BY DEF Ctrl, TERM, LaneSet
<1> DEFINE front == << Ctrl(START) >> \o Tail(Built(f))
<1>7. front \in Seq(LaneSet) /\ Len(front) = Len(<< Ctrl(START) >>) + Len(Tail(Built(f)))
  BY <1>4, <1>5, ConcatProperties, Zenon
<1>8. /\ Sent(f) \in Seq(LaneSet)
      /\ Len(Sent(f)) = Len(front) + Len(<< Ctrl(TERM) >>)
  <2>1. Sent(f) = front \o << Ctrl(TERM) >>
    BY Zenon DEF Sent
  <2> HIDE DEF front
  <2>2. front \o << Ctrl(TERM) >> \in Seq(LaneSet)
        /\ Len(front \o << Ctrl(TERM) >>) = Len(front) + Len(<< Ctrl(TERM) >>)
    BY <1>6, <1>7, ConcatProperties, Zenon
  <2> QED BY <2>1, <2>2, Zenon
<1>9. Len(Sent(f)) = (1 + (f.len - 1)) + 1
  BY <1>4, <1>5, <1>6, <1>7, <1>8, Zenon
<1>10. (1 + (f.len - 1)) + 1 = f.len + 1
  BY <1>1
<1> QED BY <1>1, <1>3, <1>4, <1>8, <1>9, <1>10, Zenon

(* The lanes of the first word of a frame.                                 *)
StartLane(f) == (IF Offset4 THEN [i \in 1 .. 4 |-> Ctrl(IDLE)] ELSE << >>) \o Sent(f)

(* The first word does not hold a whole frame.                             *)
LEMMA StartLaneLanes == ASSUME NEW f \in Frames, number \in {0, 1}
             PROVE /\ StartLane(f) \in Seq(LaneSet) /\ Len(StartLane(f)) >= 9
<1> DEFINE four == [i \in 1 .. 4 |-> Ctrl(IDLE)]
<1>1. four \in Seq(LaneSet) /\ Len(four) = 4
  <2>1. \A i \in 1 .. 4 : Ctrl(IDLE) \in LaneSet
    BY DEF Ctrl, IDLE, LaneSet
  <2> QED BY <2>1
<1>2. Sent(f) \in Seq(LaneSet) /\ Len(Sent(f)) = f.len + 1
      /\ f.len \in Nat /\ f.len >= 8
  BY SentLanes
<1> HIDE DEF four
<1>3. four \o Sent(f) \in Seq(LaneSet) /\ Len(four \o Sent(f)) = Len(four) + Len(Sent(f))
  BY <1>1, <1>2, ConcatProperties, Zenon
<1>4. << >> \o Sent(f) \in Seq(LaneSet) /\ Len(<< >> \o Sent(f)) = Len(Sent(f))
  BY <1>2
<1>5. StartLane(f) = four \o Sent(f) \/ StartLane(f) = << >> \o Sent(f)
  BY DEF StartLane, four
<1>6. 4 + (f.len + 1) >= 9 /\ f.len + 1 >= 9
  BY <1>2
<1>7. Len(four \o Sent(f)) = 4 + (f.len + 1)
  BY <1>1, <1>2, <1>3, Zenon
<1> QED BY <1>2, <1>3, <1>4, <1>5, <1>6, <1>7, Zenon

(* What is left of a sequence of lanes after a word.                       *)
LEMMA LeftLanes == ASSUME NEW s \in Seq(LaneSet)
             PROVE /\ Left(s) \in Seq(LaneSet) /\ bw \in {4, 8}
                   /\ Len(s) > bw => Left(s) # << >> /\ Len(Left(s)) = Len(s) - bw
                   /\ Len(s) <= bw => Left(s) = << >>
<1>1. bw \in {4, 8}
  BY DEF bw
<1>2. CASE Len(s) <= bw
  BY <1>1, <1>2 DEF Left
<1>3. CASE Len(s) > bw
  <2>1. Left(s) = SubSeq(s, bw + 1, Len(s))
    BY <1>1, <1>3 DEF Left
  <2>2. SubSeq(s, bw + 1, Len(s)) \in Seq(LaneSet)
        /\ Len(SubSeq(s, bw + 1, Len(s))) = Len(s) - bw
    BY <1>1, <1>3, SMT
  <2>3. Left(s) \in Seq(LaneSet) /\ Len(Left(s)) = Len(s) - bw /\ Len(s) \in Nat
    BY <2>1, <2>2
  <2>4. Left(s) # << >>
    <3> SUFFICES ASSUME Left(s) = << >> PROVE FALSE
      OBVIOUS
    <3>1. Len(Left(s)) = 0
      OBVIOUS
    <3> HIDE DEF bw
    <3> QED BY <1>1, <1>3, <2>3, <3>1
  <2> HIDE DEF bw
  <2> QED BY <1>1, <1>3, <2>3, <2>4
<1> QED BY <1>1, <1>2, <1>3

(* At the end of a frame the gap begun and what is left of it make a whole *)
(* gap, with the deficit in the MyHDL models.                              *)
LEMMA GapAtEnd == ASSUME NEW s \in Seq(LaneSet), s # << >>, NEW deficit \in 0 .. 3
             PROVE /\ GapLeft(s, deficit) \in Nat /\ GapFrom(s) \in Nat
                   /\ Len(s) > bw => GapLeft(s, deficit) = 0
                   /\ Len(s) <= bw => GapLeft(s, deficit) + GapFrom(s)
                                        >= Ifg + (IF link = "cocotb" THEN 0 ELSE deficit)
<1>1. bw \in {4, 8} /\ Ifg \in Nat /\ Ifg >= 8 /\ Len(s) \in Nat /\ Len(s) >= 1
  BY XgmiiAssumption DEF bw
<1>2. Len(s) > bw => GapLeft(s, deficit) = 0
  BY Zenon DEF GapLeft
<1>3. ~(Len(s) > bw) /\ link = "cocotb"
        => GapLeft(s, deficit) = AtLeast0(Ifg - (bw - Len(s) + 1))
  BY Zenon DEF GapLeft
<1>4. ~(Len(s) > bw) /\ link # "cocotb"
        => \/ GapLeft(s, deficit) = Ifg + deficit
           \/ GapLeft(s, deficit) = Ifg - (bw - Len(s) + 1) + deficit
  BY Zenon DEF GapLeft
<1> HIDE DEF bw
<1>5. Ifg - (bw - Len(s) + 1) \in Nat /\ deficit \in Nat
  BY <1>1
<1>6. /\ Len(s) > bw => GapFrom(s) = 0
      /\ ~(Len(s) > bw) => GapFrom(s) = bw - Len(s) + 1
  BY <1>1 DEF GapFrom
<1>7. CASE Len(s) > bw
  BY <1>1, <1>2, <1>6, <1>7
<1>8. CASE ~(Len(s) > bw) /\ link = "cocotb"
  BY <1>1, <1>3, <1>5, <1>6, <1>8 DEF AtLeast0
<1>9. CASE ~(Len(s) > bw) /\ link # "cocotb"
  BY <1>1, <1>4, <1>5, <1>6, <1>9
<1> QED BY <1>7, <1>8, <1>9

(* A gap that grows by a word makes up for what is left of it.             *)
LEMMA GapGrows ==
  ASSUME NEW s \in Int, NEW g \in Int, NEW c \in Int, NEW g2 \in Int, NEW c2 \in Int,
         NEW w \in Int, s + g + c >= Ifg, c2 >= c - w, g2 >= g + w
  PROVE  s + g2 + c2 >= Ifg
  BY XgmiiAssumption

(* So it does with a deficit still to be made up.                          *)
LEMMA GapGrowsOwing ==
  ASSUME NEW s \in Int, NEW g \in Int, NEW c \in Int, NEW g2 \in Int, NEW c2 \in Int,
         NEW o \in Int, NEW o2 \in Int,
         NEW w \in Int, s + g + c + o >= Ifg, c2 + o2 >= c + o - w, g2 >= g + w
  PROVE  s + g2 + c2 + o2 >= Ifg
  BY XgmiiAssumption

(* A gap cut at its bound makes up for all.                                *)
LEMMA GapLong ==
  ASSUME NEW s \in Int, NEW g2 \in Int, NEW c2 \in Nat, s + 3 >= 0, g2 >= 2 * Ifg
  PROVE  s + g2 + c2 >= Ifg /\ \A o2 \in Nat : s + g2 + c2 + o2 >= Ifg
  BY XgmiiAssumption

(* A word of idles keeps what the gap makes up for, if the counters lose   *)
(* no more than a word.                                                    *)
LEMMA IdleWordCount ==
  ASSUME NEW w \in {4, 8}
  PROVE  /\ GapInv /\ dl = << >>
         /\ gap_lanes' = Min({gap_lanes + w, 2 * Ifg})
         /\ ifg_cnt' \in Nat /\ deficit_idle_cnt' \in 0 .. 3
         /\ link # "cocotb" => ifg_cnt' >= ifg_cnt - w
         /\ link = "cocotb" => ifg_cnt' + deficit_idle_cnt' >= ifg_cnt + deficit_idle_cnt - w
         => /\ gap_lanes' \in Nat
            /\ link # "cocotb" => slack + gap_lanes' + ifg_cnt' >= Ifg
            /\ link = "cocotb" => slack + gap_lanes' + ifg_cnt' + deficit_idle_cnt' >= Ifg
<1>0. SUFFICES
        ASSUME GapInv, dl = << >>,
               gap_lanes' = Min({gap_lanes + w, 2 * Ifg}),
               ifg_cnt' \in Nat, deficit_idle_cnt' \in 0 .. 3,
               link # "cocotb" => ifg_cnt' >= ifg_cnt - w,
               link = "cocotb" => ifg_cnt' + deficit_idle_cnt' >= ifg_cnt + deficit_idle_cnt - w
        PROVE  /\ gap_lanes' \in Nat
               /\ link # "cocotb" => slack + gap_lanes' + ifg_cnt' >= Ifg
               /\ link = "cocotb" => slack + gap_lanes' + ifg_cnt' + deficit_idle_cnt' >= Ifg
  OBVIOUS
<1>1. /\ ifg_cnt \in Nat /\ deficit_idle_cnt \in 0 .. 3 /\ slack \in -3 .. 0 /\ gap_lanes \in Nat
      /\ dl = << >> /\ link # "cocotb" => slack + gap_lanes + ifg_cnt >= Ifg
      /\ dl = << >> /\ link = "cocotb" => slack + gap_lanes + ifg_cnt + deficit_idle_cnt >= Ifg
  BY <1>0, Zenon DEF GapInv
<1>2. Ifg \in Nat /\ Ifg >= 8
  BY XgmiiAssumption
<1>3. /\ gap_lanes' \in Int
      /\ gap_lanes' = gap_lanes + w \/ gap_lanes' = 2 * Ifg
  <2>1. gap_lanes + w \in Int /\ 2 * Ifg \in Int
    BY <1>1, <1>2
  <2> QED BY <1>0, <2>1, MinOfTwo, Zenon
<1>4. gap_lanes' >= gap_lanes + w \/ gap_lanes' >= 2 * Ifg
  BY <1>1, <1>2, <1>3
<1>5. /\ ifg_cnt' \in Nat /\ slack \in Int /\ slack + 3 >= 0
      /\ gap_lanes \in Int /\ ifg_cnt \in Int /\ w \in Int
  BY <1>0, <1>1
<1>6. /\ ifg_cnt' \in Int /\ deficit_idle_cnt' \in Int /\ deficit_idle_cnt \in Int
      /\ deficit_idle_cnt' \in Nat
  BY <1>0, <1>1
<1>7. ASSUME link # "cocotb"
      PROVE  slack + gap_lanes' + ifg_cnt' >= Ifg
  <2>1. slack + gap_lanes + ifg_cnt >= Ifg /\ ifg_cnt' >= ifg_cnt - w
    BY <1>0, <1>1, <1>7, Zenon
  <2> QED BY <1>3, <1>4, <1>5, <1>6, <2>1, GapGrows, GapLong, Zenon
<1>8. ASSUME link = "cocotb"
      PROVE  slack + gap_lanes' + ifg_cnt' + deficit_idle_cnt' >= Ifg
  <2>1. /\ slack + gap_lanes + ifg_cnt + deficit_idle_cnt >= Ifg
        /\ ifg_cnt' + deficit_idle_cnt' >= ifg_cnt + deficit_idle_cnt - w
    BY <1>0, <1>1, <1>8, Zenon
  <2>2. CASE gap_lanes' >= gap_lanes + w
    BY <1>3, <1>5, <1>6, <2>1, <2>2, GapGrowsOwing, Zenon
  <2>3. CASE gap_lanes' >= 2 * Ifg
    BY <1>3, <1>5, <1>6, <2>1, <2>3, GapLong, Zenon
  <2> QED BY <1>4, <2>2, <2>3
<1>9. gap_lanes' \in Nat
  BY <1>1, <1>2, <1>3
<1> QED BY <1>7, <1>8, <1>9

(* What a word of the gap does to the counters.                            *)
LEMMA GapWordCount ==
  ASSUME GapInv, NEW hit, IfgWord(hit)
  PROVE  /\ dl = << >> /\ dl' = dl /\ number' = number /\ slack' = slack
         /\ ifg_cnt' \in Nat /\ deficit_idle_cnt' \in 0 .. 3 /\ gap_lanes' \in Nat
         /\ link = "cocotb" /\ ~enable_dic => deficit_idle_cnt' = 0
         /\ link # "cocotb" => slack + gap_lanes' + ifg_cnt' >= Ifg
         /\ link = "cocotb" => slack + gap_lanes' + ifg_cnt' + deficit_idle_cnt' >= Ifg
<1>1. PICK w \in {4, 8} : w = bw /\ (link = "cocotb" => w = 8)
  BY DEF bw
<1>2. /\ ifg_cnt \in Nat /\ deficit_idle_cnt \in 0 .. 3
      /\ link = "cocotb" /\ ~enable_dic => deficit_idle_cnt = 0
      /\ dl # << >> => ifg_cnt = 0
  BY DEF GapInv
<1> HIDE DEF bw
<1>3. /\ InGap /\ ifg_cnt' = AtLeast0(ifg_cnt - w)
      /\ deficit_idle_cnt' =
           IF link = "cocotb" /\ enable_dic /\ ifg_cnt < w
           THEN AtLeast0(deficit_idle_cnt + ifg_cnt - w) ELSE deficit_idle_cnt
      /\ gap_lanes' = Min({gap_lanes + w, 2 * Ifg})
      /\ dl' = dl /\ number' = number /\ slack' = slack
  BY <1>1, Zenon DEF IfgWord
<1>4. dl = << >>
  BY <1>1, <1>2, <1>3 DEF InGap
<1>5. /\ ifg_cnt' \in Nat /\ ifg_cnt' >= ifg_cnt - w
      /\ deficit_idle_cnt' \in 0 .. 3
      /\ link = "cocotb" /\ ~enable_dic => deficit_idle_cnt' = 0
      /\ link = "cocotb" => ifg_cnt' + deficit_idle_cnt' >= ifg_cnt + deficit_idle_cnt - w
  BY <1>1, <1>2, <1>3 DEF AtLeast0
<1> QED BY <1>3, <1>4, <1>5, IdleWordCount

(* What a word of idles without a frame to send does to them.              *)
LEMMA NoFrameCount ==
  ASSUME GapInv, NEW hit, NoFrame(hit)
  PROVE  /\ dl = << >> /\ dl' = dl /\ number' = number /\ slack' = slack
         /\ ifg_cnt' = 0 /\ deficit_idle_cnt' = 0 /\ gap_lanes' \in Nat
         /\ link # "cocotb" => slack + gap_lanes' + ifg_cnt' >= Ifg
         /\ link = "cocotb" => slack + gap_lanes' + ifg_cnt' + deficit_idle_cnt' >= Ifg
<1>1. PICK w \in {4, 8} : w = bw /\ (link = "cocotb" => w = 8)
  BY DEF bw
<1>2. /\ ifg_cnt \in Nat /\ deficit_idle_cnt \in 0 .. 3
      /\ link = "cocotb" /\ ~enable_dic => deficit_idle_cnt = 0
      /\ enable_dic \in BOOLEAN
  BY DEF GapInv
<1> HIDE DEF bw
<1>3. /\ ~InGap /\ dl = << >> /\ ifg_cnt' = 0 /\ deficit_idle_cnt' = 0
      /\ gap_lanes' = Min({gap_lanes + w, 2 * Ifg})
      /\ dl' = dl /\ number' = number /\ slack' = slack
  BY <1>1, Zenon DEF NoFrame
<1>4. /\ link # "cocotb" => 0 >= ifg_cnt - w
      /\ link = "cocotb" => 0 + 0 >= ifg_cnt + deficit_idle_cnt - w
  BY <1>1, <1>2, <1>3 DEF InGap
<1>5. ifg_cnt' \in Nat /\ deficit_idle_cnt' \in 0 .. 3
  BY <1>3
<1>6. /\ link # "cocotb" => ifg_cnt' >= ifg_cnt - w
      /\ link = "cocotb" => ifg_cnt' + deficit_idle_cnt' >= ifg_cnt + deficit_idle_cnt - w
  BY <1>3, <1>4, Zenon
<1> QED BY <1>3, <1>5, <1>6, IdleWordCount

(* What a further word of a frame does to them.                            *)
LEMMA FrameWordCount ==
  ASSUME GapInv, NEW hit, FrameWord(hit)
  PROVE  /\ dl # << >> /\ dl' = Left(dl) /\ dl' \in Seq(LaneSet)
         /\ number' = number /\ slack' = slack
         /\ ifg_cnt' \in Nat /\ deficit_idle_cnt' = deficit_idle_cnt /\ gap_lanes' \in Nat
         /\ dl' # << >> => ifg_cnt' = 0
         /\ dl' = << >> /\ link # "cocotb" => slack + gap_lanes' + ifg_cnt' >= Ifg
         /\ dl' = << >> /\ link = "cocotb"
              => slack + gap_lanes' + ifg_cnt' + deficit_idle_cnt' >= Ifg
<1>1. /\ dl \in Seq(LaneSet) /\ deficit_idle_cnt \in 0 .. 3 /\ slack \in -3 .. 0
      /\ dl # << >> => slack + deficit_idle_cnt >= 0
  BY DEF GapInv
<1>2. /\ dl # << >> /\ dl' = Left(dl) /\ ifg_cnt' = GapLeft(dl, deficit_idle_cnt)
      /\ gap_lanes' = GapFrom(dl)
      /\ deficit_idle_cnt' = deficit_idle_cnt /\ number' = number /\ slack' = slack
  BY Zenon DEF FrameWord
<1>3. Left(dl) \in Seq(LaneSet) /\ bw \in {4, 8}
      /\ (Len(dl) > bw => Left(dl) # << >>) /\ (Len(dl) <= bw => Left(dl) = << >>)
  BY <1>1, LeftLanes, Zenon
<1>4. Len(dl) > bw \/ Len(dl) <= bw
  BY <1>1, <1>3
<1>5. /\ ifg_cnt' \in Nat /\ gap_lanes' \in Nat
      /\ Len(dl) > bw => ifg_cnt' = 0
      /\ Len(dl) <= bw => ifg_cnt' + gap_lanes'
                            >= Ifg + (IF link = "cocotb" THEN 0 ELSE deficit_idle_cnt)
  BY <1>1, <1>2, GapAtEnd, Zenon
<1>6. ASSUME Len(dl) <= bw
      PROVE  /\ link # "cocotb" => slack + gap_lanes' + ifg_cnt' >= Ifg
             /\ link = "cocotb" => slack + gap_lanes' + ifg_cnt' + deficit_idle_cnt' >= Ifg
  <2>1. \A s, c, g, d \in Int : s + d >= 0 /\ c + g >= Ifg + d => s + g + c >= Ifg
    BY XgmiiAssumption
  <2>2. \A s, c, g, d \in Int : s + d >= 0 /\ c + g >= Ifg + 0 => s + g + c + d >= Ifg
    BY XgmiiAssumption
  <2>3. /\ slack \in Int /\ ifg_cnt' \in Int /\ gap_lanes' \in Int /\ deficit_idle_cnt \in Int
        /\ slack + deficit_idle_cnt >= 0
    BY <1>1, <1>2, <1>5
  <2>4. link # "cocotb" => ifg_cnt' + gap_lanes' >= Ifg + deficit_idle_cnt
    BY <1>5, <1>6, Zenon
  <2>5. link = "cocotb" => ifg_cnt' + gap_lanes' >= Ifg + 0
    BY <1>5, <1>6, Zenon
  <2> QED BY <1>2, <2>1, <2>2, <2>3, <2>4, <2>5, Zenon
<1> QED BY <1>1, <1>2, <1>3, <1>4, <1>5, <1>6

(* What the first word of a frame does to them: what the gap lacks is what *)
(* the deficit then owes, three bytes at most.                             *)
LEMMA StartWordCount ==
  ASSUME GapInv, NEW hit, StartWord(hit)
  PROVE  /\ dl' \in Seq(LaneSet) /\ dl' # << >> /\ number' \in {0, 1}
         /\ ifg_cnt' = 0 /\ deficit_idle_cnt' \in 0 .. 3 /\ gap_lanes' \in Nat
         /\ link = "cocotb" /\ ~enable_dic => deficit_idle_cnt' = 0
         /\ slack' \in -3 .. 0 /\ slack' + deficit_idle_cnt' >= 0
<1>1. bw \in {4, 8} /\ (link = "cocotb" => bw = 8) /\ Ifg \in Nat /\ Ifg >= 8
  BY XgmiiAssumption DEF bw
<1> HIDE DEF bw
<1>2. /\ ifg_cnt \in Nat /\ deficit_idle_cnt \in 0 .. 3 /\ slack \in -3 .. 0 /\ gap_lanes \in Nat
      /\ link = "cocotb" /\ ~enable_dic => deficit_idle_cnt = 0
      /\ dl = << >> /\ link # "cocotb" => slack + gap_lanes + ifg_cnt >= Ifg
      /\ dl = << >> /\ link = "cocotb" => slack + gap_lanes + ifg_cnt + deficit_idle_cnt >= Ifg
      /\ enable_dic \in BOOLEAN /\ number \in {0, 1}
  BY DEF GapInv
<1> DEFINE short == slack + gap_lanes + (IF Offset4 THEN 4 ELSE 0) - Ifg
<1>3. PICK f \in Frames :
        /\ ~InGap /\ dl = << >>
        /\ dl' = Left(StartLane(f)) /\ ifg_cnt' = GapLeft(StartLane(f), Deficit(Offset4))
        /\ gap_lanes' = GapFrom(StartLane(f))
        /\ deficit_idle_cnt' = Deficit(Offset4)
        /\ slack' = Min({0, short})
        /\ number' = 1 - number
  BY DEF StartWord, StartLane
<1>4. ifg_cnt <= 7 /\ (link # "cocotb" => ifg_cnt <= bw - 1 /\ (~enable_dic => ifg_cnt = 0))
      /\ (link = "cocotb" => ifg_cnt + deficit_idle_cnt <= 7 /\ (~enable_dic => ifg_cnt <= 4))
  BY <1>1, <1>2, <1>3 DEF InGap
<1>5. /\ Deficit(Offset4) \in 0 .. 3
      /\ link = "cocotb" /\ ~enable_dic => Deficit(Offset4) = 0
      /\ short + Deficit(Offset4) >= 0
  BY <1>1, <1>2, <1>3, <1>4 DEF Offset4, Deficit, AtLeast0
<1>6. short \in Int
  BY <1>1, <1>2
<1> HIDE DEF short
<1>7. slack' \in Int /\ slack' <= 0 /\ (slack' = 0 \/ slack' = short)
  <2>1. 0 \in Int
    OBVIOUS
  <2> QED BY <1>3, <1>6, <2>1, MinOfTwo, Zenon
<1>8. slack' \in -3 .. 0 /\ slack' + deficit_idle_cnt' >= 0
  BY <1>3, <1>5, <1>6, <1>7
<1>9. StartLane(f) \in Seq(LaneSet) /\ Len(StartLane(f)) >= 9 /\ StartLane(f) # << >>
  BY <1>2, StartLaneLanes
<1>10. Len(StartLane(f)) > bw
  BY <1>1, <1>9
<1>11. dl' \in Seq(LaneSet) /\ dl' # << >> /\ ifg_cnt' = 0 /\ gap_lanes' \in Nat
  BY <1>3, <1>5, <1>9, <1>10, LeftLanes, GapAtEnd
<1> QED BY <1>2, <1>3, <1>5, <1>8, <1>11

(* What a reset does to them.                                              *)
LEMMA ResetCount == ASSUME GapInv, XgmiiReset PROVE GapInv'
<1>1. Ifg \in Nat /\ Ifg >= 8
  BY XgmiiAssumption
<1> QED BY <1>1 DEF GapInv, XgmiiReset, xgmiiConf, LaneSet

(* Every step keeps the invariant of the gaps.                             *)
LEMMA GapStep == ASSUME GapInv, [XgmiiNext]_xgmiiVars PROVE GapInv'
<1>1. CASE XgmiiEdge
  <2>1. /\ link' = link /\ enable_dic' = enable_dic /\ force_offset_start' = force_offset_start
        /\ link \in {"xgmii32", "xgmii64", "myhdl", "cocotb"}
        /\ enable_dic \in BOOLEAN /\ force_offset_start \in BOOLEAN
    BY <1>1 DEF XgmiiEdge, xgmiiConf, GapInv
  <2>2. /\ dl \in Seq(LaneSet) /\ number \in {0, 1} /\ slack \in -3 .. 0
        /\ deficit_idle_cnt \in 0 .. 3
        /\ link = "cocotb" /\ ~enable_dic => deficit_idle_cnt = 0
        /\ dl # << >> => slack + deficit_idle_cnt >= 0
    BY DEF GapInv
  <2>3. PICK hit : IfgWord(hit) \/ FrameWord(hit) \/ StartWord(hit) \/ NoFrame(hit)
    BY <1>1 DEF XgmiiEdge, XgmiiSource
  <2>4. CASE IfgWord(hit)
    BY <2>1, <2>2, <2>4, GapWordCount, Zenon DEF GapInv
  <2>5. CASE FrameWord(hit)
    BY <2>1, <2>2, <2>5, FrameWordCount, Zenon DEF GapInv
  <2>6. CASE StartWord(hit)
    <3>1. ifg_cnt' \in Nat
      BY <2>6, StartWordCount
    <3> QED BY <2>1, <2>6, <3>1, StartWordCount, Zenon DEF GapInv
  <2>7. CASE NoFrame(hit)
    <3>1. ifg_cnt' \in Nat /\ deficit_idle_cnt' \in 0 .. 3
      BY <2>7, NoFrameCount
    <3> QED BY <2>1, <2>2, <2>7, <3>1, NoFrameCount, Zenon DEF GapInv
  <2> QED BY <2>3, <2>4, <2>5, <2>6, <2>7
<1>2. CASE XgmiiReset
  BY <1>2, ResetCount
<1>3. CASE UNCHANGED xgmiiVars
  BY <1>3 DEF GapInv, xgmiiVars, xgmiiConf
<1> QED BY <1>1, <1>2, <1>3 DEF XgmiiNext

(* The links start with no gap to make up for.                             *)
LEMMA GapStart == XgmiiInit => GapInv
<1>1. Ifg \in Nat /\ Ifg >= 8 /\ Links \subseteq {"xgmii32", "xgmii64", "myhdl", "cocotb"}
  BY XgmiiAssumption
<1> QED BY <1>1 DEF GapInv, XgmiiInit, LaneSet

(* For every gap length, every set of frame lengths, and with or without   *)
(* the deficit counter, the gaps of no run of frames are together more     *)
(* than three bytes short (xgmii_ep.py:178,191,211-227,                    *)
(* baser_serdes_ep.py:145-336, baser.py:154-322).                          *)
THEOREM GapsHold == XgmiiSpec => []MeanGap
<1>1. GapInv /\ [XgmiiNext]_xgmiiVars => GapInv'
  BY GapStep
<1>2. GapInv => MeanGap
  BY DEF GapInv, MeanGap
<1> QED BY <1>1, <1>2, GapStart, PTL DEF XgmiiSpec
-----------------------------------------------------------------------------
(* A time and a rate as the source has them; the sink's may be any.        *)
Past == [s : Nat, ns : 0 .. Sec - 1, rel : 0 .. RelMod - 1, fns : 0 .. Fns - 1,
         period : Nat, num : Nat, denom : Nat, cnt : Nat]
Loose == [s : Nat, ns : Int, rel : Int, fns : Int,
          period : Int, num : Int, denom : Int, cnt : Int]
Msgs  == { Message(k, c) : k \in 0 .. 2, c \in Past }
Facts == {"time", "tod", "drift", "alt"}

(* Offsets are told modulo OffMod.                                         *)
Congruent(a, b) == \E q \in Int : a = b + OffMod * q

(* What leads from the relative time to the time of day, all seconds       *)
(* counted, and whether an alternate offset is that for the second alt_s.  *)
Across(c) == c.ns + Sec * c.s - c.rel
Leads(alt_s, alt, c) ==
  \E k \in Int : alt_s = k % SecMod /\ Congruent(alt + Sec * k, Across(c))

(* The values of the constants.                                            *)
LEMMA TdConstants ==
  /\ Words \in Nat \ {0} /\ Bits \in Nat \ {0} /\ Gap \in Nat \ {0} /\ TdDelay \in Nat \ {0}
  /\ Fns \in Nat \ {0} /\ Sec \in Nat \ {0} /\ OffMod \in Nat \ {0} /\ SecMod \in Nat \ {0}
  /\ RelMod \in Nat \ {0} /\ Sec < OffMod /\ TdDelay <= Gap
  /\ Length \in Nat \ {0} /\ Length < Gap
BY TdAssumption DEF Length

(* Division with remainder.                                                *)
LEMMA Remainder ==
  ASSUME NEW a \in Int, NEW m \in Nat \ {0}
  PROVE  /\ a \div m \in Int /\ a % m \in 0 .. m - 1
         /\ a = m * (a \div m) + (a % m)
OBVIOUS

(* A remainder is determined by its range.                                 *)
LEMMA Remains ==
  ASSUME NEW m \in Nat \ {0}, NEW q \in Int, NEW r \in 0 .. m - 1
  PROVE  (m * q + r) % m = r
<1> DEFINE a == m * q + r
           p == a \div m
           t == a % m
<1>1. a \in Int /\ p \in Int /\ t \in 0 .. m - 1 /\ a = m * p + t
  <2>1. a \in Int
    OBVIOUS
  <2> HIDE DEF a
  <2> QED BY <2>1, Remainder
<1>2. PICK d \in Int : d = q - p
  BY <1>1
<1>3. m * d = t - r
  <2>1. \A x, y \in Int : m * (x - y) = m * x - m * y
    OBVIOUS
  <2>2. m * (q - p) = m * q - m * p
    BY <1>1, <2>1
  <2>3. m * q \in Int /\ m * p \in Int
    BY <1>1
  <2> HIDE DEF p, t
  <2> QED BY <1>1, <1>2, <2>2, <2>3 DEF a
<1>4. d = 0
  <2>1. m * d < m /\ m * d > -m
    BY <1>1, <1>3
  <2>2. d >= 1 => m * d >= m
    BY <1>2
  <2>3. d <= -1 => m * d <= -m
    BY <1>2
  <2> QED BY <1>2, <2>1, <2>2, <2>3
<1>5. t = r
  <2>1. m * d = 0
    BY <1>4
  <2> QED BY <1>1, <1>3, <2>1
<1> QED BY <1>5

(* Congruence is an equivalence, and one of sums.                          *)
LEMMA CongruentRules ==
  ASSUME NEW a \in Int, NEW b \in Int, NEW c \in Int
  PROVE  /\ Congruent(a, a)
         /\ Congruent(a, b) => Congruent(b, a) /\ Congruent(a + c, b + c)
         /\ Congruent(a, b) /\ Congruent(b, c) => Congruent(a, c)
         /\ Congruent(a % OffMod, a)
<1>0. OffMod \in Nat \ {0}
  BY TdConstants
<1>1. Congruent(a, a)
  <2>1. a = a + OffMod * 0
    BY <1>0
  <2> QED BY <2>1 DEF Congruent
<1>2. ASSUME Congruent(a, b) PROVE Congruent(b, a) /\ Congruent(a + c, b + c)
  <2>1. PICK q \in Int : a = b + OffMod * q
    BY <1>2 DEF Congruent
  <2>2. b = a + OffMod * (-q) /\ -q \in Int
    <3>1. OffMod * (-q) = -(OffMod * q) /\ OffMod * q \in Int
      BY <1>0
    <3> QED BY <2>1, <3>1
  <2>3. a + c = (b + c) + OffMod * q
    <3>1. OffMod * q \in Int
      BY <1>0
    <3> QED BY <2>1, <3>1
  <2> QED BY <2>2, <2>3 DEF Congruent
<1>3. ASSUME Congruent(a, b), Congruent(b, c) PROVE Congruent(a, c)
  <2>1. PICK q \in Int : a = b + OffMod * q
    BY <1>3 DEF Congruent
  <2>2. PICK r \in Int : b = c + OffMod * r
    BY <1>3 DEF Congruent
  <2>3. OffMod * (q + r) = OffMod * q + OffMod * r /\ OffMod * q \in Int /\ OffMod * r \in Int
    BY <1>0
  <2>4. a = c + OffMod * (q + r) /\ q + r \in Int
    BY <2>1, <2>2, <2>3
  <2> QED BY <2>4 DEF Congruent
<1>4. Congruent(a % OffMod, a)
  <2>1. /\ a \div OffMod \in Int /\ a % OffMod \in Int
        /\ a = OffMod * (a \div OffMod) + (a % OffMod)
    BY <1>0, Remainder
  <2>2. PICK q \in Int : q = a \div OffMod
    BY <2>1
  <2>3. PICK r \in Int : r = a % OffMod
    BY <2>1
  <2>4. a = OffMod * q + r
    BY <2>1, <2>2, <2>3
  <2>5. OffMod * (-q) = -(OffMod * q) /\ OffMod * q \in Int
    BY <1>0
  <2>6. r = a + OffMod * (-q) /\ -q \in Int
    BY <2>4, <2>5
  <2> QED BY <2>3, <2>6 DEF Congruent
<1> QED BY <1>1, <1>2, <1>3, <1>4

LEMMA CongruentSum ==
  ASSUME NEW a \in Int, NEW b \in Int, NEW c \in Int, Congruent(a, b)
  PROVE  Congruent(a + c, b + c)
BY CongruentRules, Zenon

(* An edge, field by field.                                                *)
Extra(c) == c.denom > 0 /\ c.cnt = 0
Parts(c) == c.fns + c.period + IF Extra(c) THEN c.num ELSE 0
Nanos(c) == Parts(c) \div Fns
Rolls(c) == c.ns + Nanos(c) >= Sec

LEMMA TickFields ==
  ASSUME NEW c
  PROVE  /\ Tick(c).s = IF Rolls(c) THEN c.s + 1 ELSE c.s
         /\ Tick(c).ns = IF Rolls(c) THEN (c.ns + Nanos(c)) - Sec ELSE c.ns + Nanos(c)
         /\ Tick(c).rel = (c.rel + Nanos(c)) % RelMod
         /\ Tick(c).fns = Parts(c) % Fns
         /\ Tick(c).period = c.period /\ Tick(c).num = c.num /\ Tick(c).denom = c.denom
         /\ Tick(c).cnt = IF c.denom = 0 THEN c.cnt
                          ELSE IF Extra(c) THEN c.denom - 1 ELSE c.cnt - 1
<1> DEFINE p == Parts(c)
           z == c.ns + Nanos(c)
<1>1. Tick(c) = [s   |-> IF Rolls(c) THEN c.s + 1 ELSE c.s,
                 ns  |-> IF Rolls(c) THEN z - Sec ELSE z,
                 rel |-> (c.rel + Nanos(c)) % RelMod,
                 fns |-> p % Fns,
                 period |-> c.period, num |-> c.num, denom |-> c.denom,
                 cnt |-> IF c.denom = 0 THEN c.cnt
                         ELSE IF Extra(c) THEN c.denom - 1 ELSE c.cnt - 1]
  BY DEF Tick, Extra, Parts, Nanos, Rolls
<1> QED BY <1>1

(* A record of the fields of a clock, in a set of such records.            *)
LEMMA TickRecord ==
  ASSUME NEW c, NEW S, NEW N, NEW R, NEW U, NEW P, NEW B, NEW D, NEW T,
         Tick(c).s \in S, Tick(c).ns \in N, Tick(c).rel \in R, Tick(c).fns \in U,
         c.period \in P, c.num \in B, c.denom \in D, Tick(c).cnt \in T
  PROVE  Tick(c) \in [s : S, ns : N, rel : R, fns : U,
                      period : P, num : B, denom : D, cnt : T]
<1>1. Tick(c) = [s |-> Tick(c).s, ns |-> Tick(c).ns, rel |-> Tick(c).rel,
                 fns |-> Tick(c).fns, period |-> c.period, num |-> c.num,
                 denom |-> c.denom, cnt |-> Tick(c).cnt]
  BY DEF Tick
<1> QED BY <1>1

LEMMA PastIsLoose == Past \subseteq Loose
BY TdConstants DEF Past, Loose

(* The sink's time stays a record of integers.                             *)
LEMMA TickLoose ==
  ASSUME NEW c \in Loose
  PROVE  Tick(c) \in Loose
<1>1. /\ c.s \in Nat /\ c.ns \in Int /\ c.rel \in Int /\ c.fns \in Int
      /\ c.period \in Int /\ c.num \in Int /\ c.denom \in Int /\ c.cnt \in Int
  BY DEF Loose
<1>2. Parts(c) \in Int
  BY <1>1 DEF Parts
<1>3. Nanos(c) \in Int /\ Parts(c) % Fns \in Int
  BY <1>2, TdConstants, Remainder DEF Nanos
<1>4. (c.rel + Nanos(c)) % RelMod \in Int
  <2>1. c.rel + Nanos(c) \in Int
    BY <1>1, <1>3
  <2>2. PICK y \in Int : y = c.rel + Nanos(c)
    BY <2>1
  <2>3. y % RelMod \in 0 .. RelMod - 1 /\ RelMod \in Nat
    BY TdConstants, Remainder
  <2>4. y % RelMod \in Int
    BY <2>3
  <2> QED BY <2>2, <2>4
<1>5. /\ c.ns + Nanos(c) \in Int /\ (c.ns + Nanos(c)) - Sec \in Int /\ c.s + 1 \in Nat
      /\ c.denom - 1 \in Int /\ c.cnt - 1 \in Int
  BY <1>1, <1>3, TdConstants
<1>6. /\ Tick(c).s \in Nat /\ Tick(c).ns \in Int /\ Tick(c).rel \in Int /\ Tick(c).fns \in Int
      /\ Tick(c).cnt \in Int
  BY <1>1, <1>3, <1>4, <1>5, TickFields, Zenon
<1> QED BY <1>1, <1>6, TickRecord DEF Loose

(* An edge adds less than a second, and what leads from the relative time  *)
(* to the time of day stays, whether a second begins or not.               *)
LEMMA TickPast ==
  ASSUME NEW c \in Past, c.period + c.num <= (Sec - 1) * Fns
  PROVE  Tick(c) \in Past /\ Congruent(Across(Tick(c)), Across(c))
<1>0. /\ c \in Loose
      /\ Fns \in Nat \ {0} /\ Sec \in Nat \ {0} /\ RelMod \in Nat \ {0} /\ OffMod \in Nat \ {0}
  BY PastIsLoose, TdConstants
<1>1. /\ c.s \in Nat /\ c.ns \in 0 .. Sec - 1 /\ c.rel \in 0 .. RelMod - 1
      /\ c.fns \in 0 .. Fns - 1 /\ c.period \in Nat /\ c.num \in Nat /\ c.denom \in Nat
      /\ c.cnt \in Nat
  BY DEF Past
<1>2. Parts(c) \in Nat /\ Parts(c) <= c.fns + (Sec - 1) * Fns
  <2>1. (Sec - 1) * Fns \in Int
    BY <1>0
  <2> QED BY <1>1, <2>1 DEF Parts
<1>3. PICK x \in Nat : x = Parts(c)
  BY <1>2
<1>4. /\ Nanos(c) \in Int /\ Parts(c) % Fns \in 0 .. Fns - 1
      /\ Parts(c) = Fns * Nanos(c) + (Parts(c) % Fns)
  <2>1. x \div Fns \in Int /\ x % Fns \in 0 .. Fns - 1 /\ x = Fns * (x \div Fns) + (x % Fns)
    BY <1>0, Remainder
  <2> QED BY <1>3, <2>1, Zenon DEF Nanos
<1>5. PICK p \in Int : p = Nanos(c)
  BY <1>4
<1>6. p \in 0 .. Sec - 1
  <2>1. /\ Fns * p \in Int /\ (Sec - 1) * Fns \in Int
        /\ Fns * p < (Sec - 1) * Fns + Fns /\ Fns * p > -Fns
    <3>1. Fns * p \in Int /\ (Sec - 1) * Fns \in Int
      BY <1>0
    <3>2. x = Fns * p + (Parts(c) % Fns) /\ x <= c.fns + (Sec - 1) * Fns
      BY <1>2, <1>3, <1>4, <1>5
    <3> QED BY <1>0, <1>1, <1>4, <3>1, <3>2
  <2>2. p <= -1 => Fns * p <= -Fns
    BY <1>0
  <2>3. p >= Sec => Fns * p >= (Sec - 1) * Fns + Fns
    <3>1. (Sec - 1) * Fns + Fns = Fns * Sec
      BY <1>0
    <3>2. p >= Sec => Fns * p >= Fns * Sec
      BY <1>0
    <3> QED BY <3>1, <3>2
  <2> QED BY <1>0, <2>1, <2>2, <2>3
<1>7. PICK q \in Int : /\ c.rel + p = RelMod * q + ((c.rel + p) % RelMod)
                       /\ (c.rel + p) % RelMod \in 0 .. RelMod - 1
  <2>1. c.rel + p \in Int
    BY <1>1
  <2> QED BY <1>0, <2>1, Remainder
<1>8. Tick(c) \in Past
  <2>1. Rolls(c) => (c.ns + p) - Sec \in 0 .. Sec - 1
    BY <1>0, <1>1, <1>5, <1>6 DEF Rolls
  <2>2. ~Rolls(c) => c.ns + p \in 0 .. Sec - 1
    BY <1>0, <1>1, <1>5, <1>6 DEF Rolls
  <2>3. c.s + 1 \in Nat
    BY <1>1
  <2>4. (IF c.denom = 0 THEN c.cnt ELSE IF Extra(c) THEN c.denom - 1 ELSE c.cnt - 1) \in Nat
    BY <1>1 DEF Extra
  <2>5. /\ Tick(c).s \in Nat /\ Tick(c).ns \in 0 .. Sec - 1 /\ Tick(c).rel \in 0 .. RelMod - 1
        /\ Tick(c).fns \in 0 .. Fns - 1 /\ Tick(c).cnt \in Nat
    BY <1>0, <1>1, <1>4, <1>5, <1>7, <2>1, <2>2, <2>3, <2>4, TickFields, Zenon
  <2>6. Tick(c) = [s |-> Tick(c).s, ns |-> Tick(c).ns, rel |-> Tick(c).rel,
                   fns |-> Tick(c).fns, period |-> c.period, num |-> c.num,
                   denom |-> c.denom, cnt |-> Tick(c).cnt]
    BY DEF Tick
  <2> QED BY <1>1, <2>5, <2>6 DEF Past
<1>9. Congruent(Across(Tick(c)), Across(c))
  <2>1. PICK r \in Int : r = (c.rel + p) % RelMod
    BY <1>7
  <2>2. PICK w \in Int : RelMod = OffMod * w
    <3>1. RelMod % OffMod = 0
      BY TdAssumption
    <3>2. RelMod \div OffMod \in Int /\ RelMod = OffMod * (RelMod \div OffMod) + 0
      BY <1>0, <3>1, Remainder
    <3> QED BY <1>0, <3>2
  <2>3. RelMod * q = OffMod * (w * q) /\ w * q \in Int
    BY <1>0, <2>2
  <2>4. PICK e \in Int : e = w * q
    BY <2>3
  <2>5. Sec * (c.s + 1) = Sec * c.s + Sec /\ Sec * c.s \in Int
    <3>1. \A a \in Nat : Sec * (a + 1) = Sec * a + Sec /\ Sec * a \in Int
      BY <1>0
    <3> QED BY <1>1, <3>1
  <2>6. PICK b \in Int : b = Sec * c.s
    BY <2>5
  <2>7. /\ Tick(c).rel = r
        /\ Rolls(c) => Tick(c).ns = (c.ns + p) - Sec /\ Tick(c).s = c.s + 1
        /\ ~Rolls(c) => Tick(c).ns = c.ns + p /\ Tick(c).s = c.s
    BY <1>0, <1>5, <2>1, TickFields
  <2>8. Across(Tick(c)) = c.ns + p + b - r
    <3>1. CASE Rolls(c)
      BY <1>0, <1>1, <2>5, <2>6, <2>7, <3>1 DEF Across
    <3>2. CASE ~Rolls(c)
      BY <1>0, <1>1, <2>6, <2>7, <3>2 DEF Across
    <3> QED BY <3>1, <3>2
  <2>9. Across(c) = c.ns + b - c.rel
    BY <2>6 DEF Across
  <2>10. p - r = OffMod * e - c.rel
    <3>1. c.rel + p = OffMod * e + r
      BY <1>7, <2>1, <2>3, <2>4
    <3>2. OffMod * e \in Int
      BY <1>0
    <3> QED BY <1>1, <3>1, <3>2
  <2>11. Across(Tick(c)) = Across(c) + OffMod * e
    <3>1. OffMod * e \in Int
      BY <1>0
    <3> QED BY <1>1, <2>8, <2>9, <2>10, <3>1
  <2> QED BY <2>11 DEF Congruent
<1> QED BY <1>8, <1>9

SameTime(c, d)  == c.rel = d.rel /\ c.fns = d.fns /\ c.period = d.period
SameDrift(c, d) == c.num = d.num /\ c.denom = d.denom /\ c.cnt = d.cnt
SameDay(c, d)   == c.ns = d.ns /\ c.s % SecMod = d.s % SecMod

(* Two clocks that agree agree after an edge.                              *)
LEMMA TicksAgree ==
  ASSUME NEW c \in Loose, NEW d \in Loose
  PROVE  /\ SameDrift(c, d) => SameDrift(Tick(c), Tick(d))
         /\ SameDrift(c, d) /\ SameTime(c, d) => SameTime(Tick(c), Tick(d))
         /\ SameDrift(c, d) /\ SameTime(c, d) /\ SameDay(c, d) => SameDay(Tick(c), Tick(d))
<1>1. SameDrift(c, d) => SameDrift(Tick(c), Tick(d))
  BY TickFields DEF SameDrift, Extra
<1>2. SameDrift(c, d) /\ SameTime(c, d) => Parts(c) = Parts(d) /\ Nanos(c) = Nanos(d)
  BY DEF SameDrift, SameTime, Parts, Extra, Nanos
<1>3. SameDrift(c, d) /\ SameTime(c, d) => SameTime(Tick(c), Tick(d))
  BY <1>2, TickFields DEF SameTime
<1>4. ASSUME SameDrift(c, d), SameTime(c, d), SameDay(c, d) PROVE SameDay(Tick(c), Tick(d))
  <2>1. c.s \in Nat /\ d.s \in Nat /\ c.s % SecMod = d.s % SecMod /\ SecMod \in Nat \ {0}
    BY <1>4, TdConstants DEF Loose, SameDay
  <2>2. \A a, r \in Nat : a % SecMod = r =>
           (a + 1) % SecMod = IF r + 1 < SecMod THEN r + 1 ELSE 0
    <3> TAKE a, r \in Nat
    <3> HAVE a % SecMod = r
    <3>1. a \div SecMod \in Int /\ r \in 0 .. SecMod - 1 /\ a = SecMod * (a \div SecMod) + r
      <4>1. a \in Int
        OBVIOUS
      <4>2. SecMod \in Nat \ {0}
        BY <2>1
      <4> QED BY <4>1, <4>2, Remainder, Zenon
    <3>2. PICK q \in Int : q = a \div SecMod
      BY <3>1
    <3>3. CASE r + 1 < SecMod
      <4>1. a + 1 = SecMod * q + (r + 1) /\ r + 1 \in 0 .. SecMod - 1
        <5>1. SecMod * q \in Int
          BY <2>1
        <5> QED BY <2>1, <3>1, <3>2, <3>3, <5>1
      <4> QED BY <2>1, <3>3, <4>1, Remains
    <3>4. CASE ~(r + 1 < SecMod)
      <4>1. a + 1 = SecMod * (q + 1) + 0
        <5>1. SecMod * q \in Int /\ SecMod * (q + 1) = SecMod * q + SecMod
          BY <2>1
        <5>2. r + 1 = SecMod
          BY <2>1, <3>1, <3>4
        <5> QED BY <2>1, <3>1, <3>2, <5>1, <5>2
      <4>2. q + 1 \in Int /\ 0 \in 0 .. SecMod - 1
        BY <2>1
      <4>3. (SecMod * (q + 1) + 0) % SecMod = 0
        BY <2>1, <4>2, Remains, Zenon
      <4> QED BY <3>4, <4>1, <4>3
    <3> QED BY <3>3, <3>4
  <2>3. c.s % SecMod \in Nat
    <3>1. c.s \in Int /\ SecMod \in Nat \ {0}
      BY <2>1
    <3>2. c.s % SecMod \in 0 .. SecMod - 1
      BY <3>1, Remainder, Zenon
    <3> QED BY <2>1, <3>2
  <2>4. (c.s + 1) % SecMod = (d.s + 1) % SecMod
    BY <2>1, <2>2, <2>3, Zenon
  <2>5. c.ns = d.ns /\ Nanos(c) = Nanos(d) /\ (Rolls(c) <=> Rolls(d))
    BY <1>2, <1>4 DEF SameDay, Rolls
  <2> QED BY <2>1, <2>4, <2>5, TickFields DEF SameDay
<1> QED BY <1>1, <1>3, <1>4

LEMMA AcrossInt == ASSUME NEW c \in Past PROVE Across(c) \in Int /\ Sec * c.s \in Int
BY TdConstants DEF Past, Across

(* The alternate offset leads from the relative time to the time of day.   *)
LEMMA AlternateLeads ==
  ASSUME NEW c \in Past
  PROVE  /\ Leads(Alternate(c).alt_s, Alternate(c).alt, c)
         /\ Alternate(c).alt_s \in Int /\ Alternate(c).alt \in Int
<1>0. /\ Sec \in Nat /\ OffMod \in Nat \ {0} /\ SecMod \in Nat \ {0}
      /\ c.ns \in Int /\ c.rel \in Int /\ c.s \in Int
  BY TdConstants DEF Past
<1>1. PICK b \in Int : b = Sec * c.s
  BY AcrossInt
<1>2. Sec * (c.s + 1) = b + Sec /\ Sec * (c.s - 1) = b - Sec
  BY <1>0, <1>1
<1>3. PICK a \in Int : a = c.ns - c.rel
  BY <1>0
<1>4. Offset(c) \in Int /\ Congruent(Offset(c), a)
  <2>1. a % OffMod \in 0 .. OffMod - 1
    BY <1>0, Remainder
  <2>2. a % OffMod \in Int
    BY <1>0, <2>1
  <2>3. Congruent(a % OffMod, a)
    BY CongruentRules
  <2> QED BY <1>3, <2>2, <2>3 DEF Offset
<1>5. ASSUME NEW x \in Int, NEW k \in Int, Sec * k = b - x
      PROVE  LET t == (Offset(c) + x) % OffMod
             IN  t \in Int /\ Congruent(t + Sec * k, Across(c))
  <2>1. PICK o \in Int : o = Offset(c)
    BY <1>4
  <2>2. PICK t \in Int : t = (o + x) % OffMod
    <3>1. o + x \in Int
      OBVIOUS
    <3>2. (o + x) % OffMod \in 0 .. OffMod - 1
      BY <1>0, <3>1, Remainder
    <3> QED BY <1>0, <3>2
  <2>3. Congruent(t, o + x)
    <3>1. o + x \in Int
      OBVIOUS
    <3> QED BY <2>2, <3>1, CongruentRules
  <2>4. Congruent(t + (b - x), (o + x) + (b - x))
    <3>1. PICK y \in Int : y = b - x
      OBVIOUS
    <3>2. PICK z \in Int : z = o + x
      OBVIOUS
    <3>3. Congruent(t + y, z + y)
      BY <2>3, <3>2, CongruentSum
    <3> QED BY <3>1, <3>2, <3>3
  <2>5. Congruent(o + b, a + b)
    BY <1>4, <2>1, CongruentRules
  <2>6. (o + x) + (b - x) = o + b /\ a + b = Across(c)
    BY <1>0, <1>1, <1>3 DEF Across
  <2>7. Congruent(t + (b - x), Across(c))
    <3>1. t + (b - x) \in Int /\ o + b \in Int /\ a + b \in Int
      OBVIOUS
    <3>2. Congruent(t + (b - x), o + b)
      BY <2>4, <2>6
    <3> QED BY <2>5, <2>6, <3>1, <3>2, CongruentRules
  <2> QED BY <1>5, <2>1, <2>2, <2>7
<1>6. CASE c.ns >= Late
  <2>1. /\ Alternate(c).alt_s = (c.s + 1) % SecMod
        /\ Alternate(c).alt = (Offset(c) - Sec) % OffMod
    BY <1>6 DEF Alternate
  <2>2. Offset(c) - Sec = Offset(c) + (-Sec) /\ -Sec \in Int /\ Sec * (c.s + 1) = b - (-Sec)
    BY <1>0, <1>2, <1>4
  <2>3. c.s + 1 \in Int
    BY <1>0
  <2>4. (c.s + 1) % SecMod \in Int
    <3>1. (c.s + 1) % SecMod \in 0 .. SecMod - 1
      BY <1>0, <2>3, Remainder
    <3> QED BY <1>0, <3>1
  <2>5. Alternate(c).alt \in Int /\ Congruent(Alternate(c).alt + Sec * (c.s + 1), Across(c))
    BY <1>5, <2>1, <2>2, <2>3
  <2> QED BY <2>1, <2>3, <2>4, <2>5 DEF Leads
<1>7. CASE ~(c.ns >= Late)
  <2>1. /\ Alternate(c).alt_s = (c.s - 1) % SecMod
        /\ Alternate(c).alt = (Offset(c) + Sec) % OffMod
    BY <1>7 DEF Alternate
  <2>2. Sec * (c.s - 1) = b - Sec /\ Sec \in Int
    BY <1>0, <1>2
  <2>3. c.s - 1 \in Int
    BY <1>0
  <2>4. (c.s - 1) % SecMod \in Int
    <3>1. (c.s - 1) % SecMod \in 0 .. SecMod - 1
      BY <1>0, <2>3, Remainder
    <3> QED BY <1>0, <3>1
  <2>5. Alternate(c).alt \in Int /\ Congruent(Alternate(c).alt + Sec * (c.s - 1), Across(c))
    BY <1>5, <2>1, <2>2, <2>3
  <2> QED BY <2>1, <2>3, <2>4, <2>5 DEF Leads
<1> QED BY <1>6, <1>7

(* It goes on leading there,                                               *)
LEMMA LeadsOn ==
  ASSUME NEW c \in Past, NEW d \in Past, NEW alt_s, NEW alt \in Int,
         Congruent(Across(d), Across(c)), Leads(alt_s, alt, c)
  PROVE  Leads(alt_s, alt, d)
<1>1. PICK k \in Int : alt_s = k % SecMod /\ Congruent(alt + Sec * k, Across(c))
  BY DEF Leads
<1>2. Congruent(Across(c), Across(d))
  BY AcrossInt, CongruentRules
<1>3. alt + Sec * k \in Int
  BY TdConstants
<1>4. Congruent(alt + Sec * k, Across(d))
  BY <1>1, <1>2, <1>3, AcrossInt, CongruentRules
<1> QED BY <1>1, <1>4 DEF Leads

(* and in the second it is for it leads to the time of day.                *)
LEMMA LeadsRight ==
  ASSUME NEW c \in Past, NEW alt \in Int, Leads(c.s % SecMod, alt, c)
  PROVE  (c.rel + alt) % OffMod = c.ns
<1>0. /\ Sec \in Nat \ {0} /\ OffMod \in Nat \ {0} /\ SecMod \in Nat \ {0} /\ Sec < OffMod
      /\ c.ns \in 0 .. Sec - 1 /\ c.rel \in Int /\ c.s \in Int
  BY TdConstants DEF Past
<1>1. PICK k \in Int : c.s % SecMod = k % SecMod /\ Congruent(alt + Sec * k, Across(c))
  BY DEF Leads
<1>2. PICK q \in Int : alt + Sec * k = Across(c) + OffMod * q
  BY <1>1 DEF Congruent
<1>3. PICK t \in Int : c.s = k + SecMod * t
  <2>1. /\ c.s \div SecMod \in Int /\ c.s % SecMod \in Int
        /\ c.s = SecMod * (c.s \div SecMod) + (c.s % SecMod)
    <3>1. SecMod \in Nat \ {0} /\ c.s \in Int
      BY <1>0
    <3>2. /\ c.s \div SecMod \in Int /\ c.s % SecMod \in 0 .. SecMod - 1
          /\ c.s = SecMod * (c.s \div SecMod) + (c.s % SecMod)
      BY <3>1, Remainder, Zenon
    <3> QED BY <3>1, <3>2
  <2>2. /\ k \div SecMod \in Int /\ k = SecMod * (k \div SecMod) + (k % SecMod)
    BY <1>0, Remainder
  <2>3. PICK x \in Int : x = c.s \div SecMod
    BY <2>1
  <2>4. PICK y \in Int : y = k \div SecMod
    BY <2>2
  <2>5. PICK r \in Int : r = c.s % SecMod
    BY <2>1
  <2>6. c.s = SecMod * x + r /\ k = SecMod * y + r
    BY <1>1, <2>1, <2>2, <2>3, <2>4, <2>5
  <2>7. SecMod * (x - y) = SecMod * x - SecMod * y /\ SecMod * x \in Int /\ SecMod * y \in Int
    BY <1>0
  <2>8. c.s = k + SecMod * (x - y) /\ x - y \in Int
    BY <2>6, <2>7
  <2> QED BY <2>8
<1>4. PICK u \in Int : SecMod * Sec = OffMod * u
  <2>1. (SecMod * Sec) % OffMod = 0
    BY TdAssumption
  <2>2. PICK v \in Int : v = SecMod * Sec
    BY <1>0
  <2>3. v \div OffMod \in Int /\ v = OffMod * (v \div OffMod) + (v % OffMod)
    BY <1>0, Remainder
  <2>4. v = OffMod * (v \div OffMod)
    <3>1. PICK w \in Int : w = v \div OffMod
      BY <2>3
    <3>2. OffMod * w \in Int
      BY <1>0
    <3> QED BY <2>1, <2>2, <2>3, <3>1, <3>2
  <2> QED BY <2>2, <2>3, <2>4
<1>5. Sec * c.s = Sec * k + OffMod * (u * t)
  <2>1. Sec * (k + SecMod * t) = Sec * k + (SecMod * Sec) * t
    BY <1>0
  <2>2. (OffMod * u) * t = OffMod * (u * t)
    BY <1>0
  <2> QED BY <1>3, <1>4, <2>1, <2>2
<1>6. c.rel + alt = OffMod * (u * t + q) + c.ns
  <2>1. PICK e \in Int : e = u * t
    OBVIOUS
  <2>2. PICK f \in Int : f = OffMod * e
    BY <1>0
  <2>3. PICK g \in Int : g = OffMod * q
    BY <1>0
  <2>4. OffMod * (e + q) = f + g
    BY <1>0, <2>2, <2>3
  <2>5. PICK a \in Int : a = Sec * k
    BY <1>0
  <2>6. Sec * c.s = a + f
    BY <1>5, <2>1, <2>2, <2>5
  <2>7. Across(c) = (c.ns + (a + f)) - c.rel
    <3>1. Across(c) = (c.ns + (Sec * c.s)) - c.rel
      BY <1>0, AcrossInt DEF Across
    <3> QED BY <2>6, <3>1
  <2>8. alt + a = ((c.ns + (a + f)) - c.rel) + g
    BY <1>2, <2>3, <2>5, <2>7
  <2>9. c.rel + alt = (f + g) + c.ns
    <3>1. c.ns \in Int /\ c.rel \in Int
      BY <1>0
    <3>2. PICK x \in Int : x = c.ns
      BY <3>1
    <3>3. PICK y \in Int : y = c.rel
      BY <3>1
    <3>4. alt + a = ((x + (a + f)) - y) + g
      BY <2>8, <3>2, <3>3
    <3> QED BY <3>2, <3>3, <3>4
  <2> QED BY <2>1, <2>4, <2>9
<1>7. c.ns \in 0 .. OffMod - 1 /\ u * t + q \in Int
  BY <1>0
<1>8. PICK v \in Int : v = u * t + q
  BY <1>7
<1>9. (OffMod * v + c.ns) % OffMod = c.ns
  BY <1>0, <1>7, Remains
<1> QED BY <1>6, <1>8, <1>9

(* The framing: how old the last message is, the message on the wire with  *)
(* the words and bits of it in the sink, the silent wire, the age of the   *)
(* message that waits in the sink.                                         *)
Span   == Length + TdDelay
Age    == Gap - gap
Waited == (Span + 1) - wait

Sending ==
  /\ words_in \in Seq({out}) /\ bit_in \in 0 .. Bits
  /\ Len(words_in) * (Bits + 1) + bit_in = Age
  /\ Len(words_in) <= Words
  /\ Len(words_in) < Words =>
       /\ left = (Words - 1) - Len(words_in)
       /\ bit_out = IF bit_in = Bits THEN 0 ELSE bit_in + 1
       /\ data = IF bit_in = 0 THEN StartBit ELSE [bit |-> 1, of |-> out]
  /\ Len(words_in) = Words => bit_in = 0 /\ left = 0 /\ bit_out = 0 /\ data = IdleBit

Silent == words_in = << >> /\ bit_in = 0 /\ left = 0 /\ bit_out = 0 /\ data = IdleBit

Wire == IF out # NoMsg /\ Age <= Length THEN Sending ELSE Silent

(* A message waits from the end of its last word until it is Span old,     *)
(* perhaps while the next one is sent already, but not until that ends.    *)
Timely == IF out = NoMsg THEN wait <= Length
          ELSE IF Age <= Length THEN wait + Age <= Length ELSE wait + Age <= Span + 1

Framing ==
  /\ gap \in 0 .. Gap /\ kind \in 0 .. 2 /\ wait \in 0 .. TdDelay
  /\ out \in Msgs \cup {NoMsg} /\ msg \in Msgs \cup {NoMsg}
  /\ out = NoMsg => gap = 0
  /\ msg = NoMsg <=> wait = 0
  /\ msg # NoMsg => Timely

(* The message on its way that is j edges old.                             *)
At(j) == IF out # NoMsg /\ Age = j /\ j <= Length THEN out
         ELSE IF msg # NoMsg /\ Waited = j THEN msg ELSE NoMsg

(* Words and bits of a message, counted.                                   *)
LEMMA Counted ==
  ASSUME NEW n \in 0 .. Words, NEW b \in 0 .. Bits
  PROVE  /\ n * (Bits + 1) + b \in Nat
         /\ n < Words => n * (Bits + 1) + b < Length
         /\ n = Words => n * (Bits + 1) + b = Length + b
         /\ (n + 1) * (Bits + 1) = (n * (Bits + 1) + Bits) + 1
<1>0. Words \in Nat \ {0} /\ Bits \in Nat \ {0}
  BY TdConstants
<1>1. PICK B \in Nat \ {0} : B = Bits + 1
  BY <1>0
<1>2. n \in Nat /\ n * B \in Nat /\ (n + 1) * B = n * B + B
  BY <1>0, <1>1
<1>3. PICK t \in Nat : t = n * B
  BY <1>2
<1>4. n < Words => (n + 1) * B <= Words * B
  <2>1. \A x, y \in Nat : x <= y => x * B <= y * B
    BY <1>1
  <2> QED BY <1>0, <2>1
<1>5. PICK L \in Nat : L = Length /\ L = Words * B
  BY <1>0, <1>1, TdConstants DEF Length
<1>6. n = Words => t = L
  BY <1>3, <1>5
<1>7. n < Words => t + b < L
  BY <1>0, <1>1, <1>2, <1>3, <1>4, <1>5
<1> QED BY <1>0, <1>1, <1>2, <1>3, <1>5, <1>6, <1>7

LEMMA SameWords ==
  ASSUME NEW m, NEW w \in Seq({m})
  PROVE  /\ Append(w, m) \in Seq({m}) /\ Len(Append(w, m)) = Len(w) + 1
         /\ w # << >> => Head(w) = m
         /\ (w = << >> <=> Len(w) = 0) /\ Len(w) \in Nat
<1>1. m \in {m}
  OBVIOUS
<1>2. Append(w, m) \in Seq({m}) /\ Len(Append(w, m)) = Len(w) + 1
  BY <1>1, AppendProperties, Zenon
<1>3. w # << >> => Head(w) = m
  BY HeadTailProperties
<1> QED BY <1>2, <1>3, LenProperties, EmptySeq

(* A message is none of NoMsg.                                             *)
LEMMA MessageIsOne == NoMsg \notin Msgs /\ \A k \in 0 .. 2, c \in Past : Message(k, c) \in Msgs
<1>1. \A k \in 0 .. 2, c \in Past : Message(k, c).kind = k
  BY DEF Message
<1>2. NoMsg.kind = -1
  BY DEF NoMsg
<1> QED BY <1>1, <1>2 DEF Msgs

(* A message ends Length edges after it was built, in the sink.            *)
LEMMA EndsWhen ==
  ASSUME Framing, Wire
  PROVE  /\ Ends <=> out # NoMsg /\ Age = Length
         /\ Ends => Head(words_in) = out /\ msg = NoMsg
<1>0. /\ Gap \in Nat \ {0} /\ TdDelay \in Nat \ {0} /\ TdDelay <= Gap /\ Words \in Nat \ {0}
      /\ Length \in Nat \ {0} /\ Length < Gap /\ Bits \in Nat \ {0}
  BY TdConstants
<1>1. CASE ~(out # NoMsg /\ Age <= Length)
  BY <1>0, <1>1 DEF Wire, Silent, Ends, Age
<1>2. CASE out # NoMsg /\ Age <= Length
  <2>1. Sending
    BY <1>2 DEF Wire
  <2>2. PICK n \in 0 .. Words : n = Len(words_in)
    BY <1>0, <2>1, SameWords DEF Sending
  <2>3. PICK b \in 0 .. Bits : b = bit_in
    BY <2>1 DEF Sending
  <2>4. n * (Bits + 1) + b = Age
    BY <2>1, <2>2, <2>3 DEF Sending
  <2>5. CASE n < Words
    <3>1. Age < Length
      BY <2>4, <2>5, Counted
    <3>2. b = 0 => data.bit = 0
      BY <2>1, <2>2, <2>3, <2>5 DEF Sending, StartBit
    <3>3. ~Ends
      BY <2>3, <3>2 DEF Ends
    <3>4. Age # Length
      BY <1>0, <3>1
    <3> QED BY <3>3, <3>4
  <2>6. CASE n = Words
    <3>1. b = 0 /\ data = IdleBit /\ words_in # << >> /\ Head(words_in) = out
      BY <1>0, <2>1, <2>2, <2>3, <2>6, SameWords DEF Sending
    <3>2. Ends
      BY <2>3, <3>1 DEF Ends, IdleBit
    <3>3. Age = Length
      <4>1. n * (Bits + 1) + b = Length + b
        BY <2>6, Counted
      <4> QED BY <1>0, <2>4, <3>1, <4>1
    <3>4. msg = NoMsg
      <4>1. SUFFICES ASSUME msg # NoMsg PROVE FALSE
        OBVIOUS
      <4>2. wait + Age <= Length
        BY <1>0, <1>2, <4>1 DEF Framing, Timely
      <4>3. wait \in 1 .. TdDelay
        BY <1>0, <4>1 DEF Framing
      <4> QED BY <1>0, <3>3, <4>2, <4>3
    <3> QED BY <1>2, <3>1, <3>2, <3>3, <3>4
  <2> QED BY <1>0, <2>2, <2>5, <2>6
<1> QED BY <1>1, <1>2

(* The parts of an edge.                                                   *)
LEMMA EdgeParts ==
  ASSUME TdClock
  PROVE  /\ source' = Tick(source) /\ Delay(source) /\ Serialize /\ Process /\ Deserialize
         /\ gap <= 0 => /\ out' = Message(kind, Tick(source)) /\ kind' = (kind + 1) % 3
                        /\ gap' = Gap /\ told' = Tells(kind)
         /\ ~(gap <= 0) => gap' = gap - 1 /\ out' = out /\ kind' = kind /\ told' = told
BY DEF TdClock, Source, Sink, Build

(* An edge keeps the wire and the sink in step,                            *)
LEMMA WireStep ==
  ASSUME Framing, Wire, TdClock, Tick(source) \in Past
  PROVE  Wire'
<1>0. /\ Gap \in Nat \ {0} /\ Words \in Nat \ {0} /\ Bits \in Nat \ {0}
      /\ Length \in Nat \ {0} /\ Length < Gap /\ gap \in 0 .. Gap /\ kind \in 0 .. 2
  BY TdConstants DEF Framing
<1>1. Serialize /\ Deserialize
  BY EdgeParts
<1>2. CASE gap <= 0
  <2>1. out' \in Msgs /\ out' # NoMsg /\ gap' = Gap /\ Age' = 0
    <3>1. out' \in Msgs /\ gap' = Gap
      BY <1>0, <1>2, EdgeParts, MessageIsOne
    <3> QED BY <1>0, <3>1, MessageIsOne DEF Age
  <2>2. Silent
    BY <1>0, <1>2 DEF Wire, Age
  <2>3. data' = StartBit /\ left' = Words - 1 /\ bit_out' = 1
    BY <1>0, <1>1, <1>2, <2>2 DEF Serialize, Silent
  <2>4. bit_in' = 0 /\ words_in' = << >>
    BY <1>0, <1>1, <2>2 DEF Deserialize, Silent, Ends, IdleBit
  <2>5. Len(<< >>) = 0 /\ << >> \in Seq({out'}) /\ 0 * (Bits + 1) + 0 = 0
    BY <1>0
  <2>6. Sending'
    BY <1>0, <2>1, <2>3, <2>4, <2>5 DEF Sending
  <2> QED BY <1>0, <2>1, <2>6 DEF Wire
<1>3. ASSUME ~(gap <= 0)
      PROVE  gap' = gap - 1 /\ out' = out /\ Age' = Age + 1 /\ Age \in 0 .. Gap - 1
  BY <1>0, <1>3, EdgeParts DEF Age
<1>4. CASE ~(gap <= 0) /\ ~(out # NoMsg /\ Age <= Length)
  <2>1. Silent
    BY <1>4 DEF Wire
  <2>2. data' = IdleBit /\ left' = 0 /\ bit_out' = 0
    BY <1>1, <1>4, <2>1 DEF Serialize, Silent
  <2>3. bit_in' = 0 /\ words_in' = << >>
    BY <1>0, <1>1, <2>1 DEF Deserialize, Silent, Ends, IdleBit
  <2>4. Silent'
    BY <2>2, <2>3 DEF Silent
  <2>5. ~(out' # NoMsg /\ Age' <= Length)
    BY <1>0, <1>3, <1>4
  <2> QED BY <2>4, <2>5 DEF Wire
<1>5. CASE ~(gap <= 0) /\ out # NoMsg /\ Age <= Length
  <2>0. Sending
    BY <1>5 DEF Wire
  <2>1. PICK n \in 0 .. Words : n = Len(words_in)
    BY <1>0, <2>0, SameWords DEF Sending
  <2>2. PICK b \in 0 .. Bits : b = bit_in
    BY <2>0 DEF Sending
  <2>3. n * (Bits + 1) + b = Age
    BY <2>0, <2>1, <2>2 DEF Sending
  <2>4. PICK t \in Nat : t = n * (Bits + 1)
    <3>1. n * (Bits + 1) \in Nat
      BY <1>0
    <3> QED BY <3>1
  <2>5. CASE n < Words /\ b # Bits
    <3>1. /\ left = (Words - 1) - n /\ bit_out = b + 1
          /\ data = IF b = 0 THEN StartBit ELSE [bit |-> 1, of |-> out]
      BY <2>0, <2>1, <2>2, <2>5 DEF Sending
    <3>2. ~Ends
      BY <2>2, <3>1 DEF Ends, StartBit
    <3>3. words_in' = words_in
      BY <1>1, <2>2, <2>5, <3>2 DEF Deserialize
    <3>4. bit_in' = b + 1
      BY <1>0, <1>1, <2>2, <2>5, <3>1 DEF Deserialize, StartBit
    <3>5. /\ data' = [bit |-> 1, of |-> out'] /\ left' = left
          /\ bit_out' = IF b + 1 = Bits THEN 0 ELSE (b + 1) + 1
      BY <1>0, <1>1, <1>5, <2>2, <3>1 DEF Serialize
    <3>6. Age' = t + (b + 1) /\ Age' <= Length
      <4>1. Age < Length
        BY <2>3, <2>5, Counted
      <4> QED BY <1>0, <1>3, <1>5, <2>3, <2>4, <4>1
    <3>7. b + 1 \in 0 .. Bits /\ b + 1 # 0
      BY <1>0, <2>5
    <3>8. Sending'
      BY <1>3, <1>5, <2>0, <2>1, <2>4, <2>5, <3>1, <3>3, <3>4, <3>5, <3>6, <3>7 DEF Sending
    <3> QED BY <1>3, <1>5, <3>6, <3>8 DEF Wire
  <2>6. CASE n < Words /\ b = Bits
    <3>1. left = (Words - 1) - n /\ bit_out = 0 /\ data = [bit |-> 1, of |-> out]
      BY <1>0, <2>0, <2>1, <2>2, <2>6 DEF Sending
    <3>2. words_in' = Append(words_in, out) /\ bit_in' = 0
      <4>1. data.of = out /\ bit_in = Bits /\ bit_in # 0
        BY <1>0, <2>2, <2>6, <3>1
      <4>2. words_in' = Append(words_in, data.of) /\ bit_in' = 0
        BY <1>1, <4>1 DEF Deserialize, Ends
      <4> QED BY <4>1, <4>2
    <3>3. words_in' \in Seq({out'}) /\ Len(words_in') = n + 1
      BY <1>3, <1>5, <2>0, <2>1, <3>2, SameWords DEF Sending
    <3>4. Age' = (n + 1) * (Bits + 1) + 0 /\ Age' <= Length
      <4>1. Age < Length /\ (n + 1) * (Bits + 1) = (n * (Bits + 1) + Bits) + 1
        BY <2>3, <2>6, Counted
      <4>2. Age = t + Bits /\ (n + 1) * (Bits + 1) = (t + Bits) + 1
        BY <2>3, <2>4, <2>6, <4>1
      <4> QED BY <1>0, <1>3, <1>5, <4>1, <4>2
    <3>5. CASE n + 1 < Words
      <4>1. data' = StartBit /\ left' = (Words - 1) - (n + 1) /\ bit_out' = 1
        BY <1>0, <1>1, <1>5, <3>1, <3>5 DEF Serialize
      <4>2. Sending'
        BY <1>0, <3>2, <3>3, <3>4, <3>5, <4>1 DEF Sending
      <4> QED BY <1>3, <1>5, <3>4, <4>2 DEF Wire
    <3>6. CASE n + 1 = Words
      <4>1. data' = IdleBit /\ left' = 0 /\ bit_out' = 0
        BY <1>0, <1>1, <1>5, <3>1, <3>6 DEF Serialize
      <4>2. Sending'
        BY <1>0, <3>2, <3>3, <3>4, <3>6, <4>1 DEF Sending
      <4> QED BY <1>3, <1>5, <3>4, <4>2 DEF Wire
    <3> QED BY <1>0, <2>6, <3>5, <3>6
  <2>7. CASE n = Words
    <3>1. b = 0 /\ left = 0 /\ bit_out = 0 /\ data = IdleBit /\ words_in # << >>
      BY <1>0, <2>0, <2>1, <2>2, <2>7, SameWords DEF Sending
    <3>2. Ends
      BY <2>2, <3>1 DEF Ends, IdleBit
    <3>3. words_in' = << >> /\ bit_in' = 0
      BY <1>0, <1>1, <2>2, <3>1, <3>2 DEF Deserialize, IdleBit
    <3>4. data' = IdleBit /\ left' = 0 /\ bit_out' = 0
      BY <1>0, <1>1, <1>5, <3>1 DEF Serialize
    <3>5. ~(Age' <= Length)
      BY <1>0, <1>3, <1>5, <3>2, EndsWhen
    <3> QED BY <1>0, <3>3, <3>4, <3>5 DEF Wire, Silent
  <2> QED BY <1>0, <2>5, <2>6, <2>7
<1> QED BY <1>2, <1>4, <1>5

(* the wait of the message in the sink,                                    *)
LEMMA WaitParts ==
  ASSUME Framing, Wire, TdClock
  PROVE  /\ Now <=> wait = 1
         /\ Ends => out # NoMsg /\ Age = Length /\ msg = NoMsg /\ msg' = out /\ wait' = TdDelay
         /\ ~Ends /\ wait = 0 => msg = NoMsg /\ msg' = NoMsg /\ wait' = 0
         /\ ~Ends /\ wait = 1 => msg # NoMsg /\ msg' = NoMsg /\ wait' = 0
         /\ ~Ends /\ wait \notin {0, 1} => msg # NoMsg /\ msg' = msg /\ wait' = wait - 1
<1>1. Deserialize
  BY EdgeParts
<1>2. wait \in 0 .. TdDelay /\ TdDelay \in Nat \ {0} /\ (msg = NoMsg <=> wait = 0)
  BY TdConstants DEF Framing
<1>3. Now <=> wait = 1
  BY <1>2 DEF Now
<1>4. Ends => out # NoMsg /\ Age = Length /\ msg = NoMsg /\ msg' = out /\ wait' = TdDelay
  BY <1>1, EndsWhen DEF Deserialize
<1>5. ~Ends => msg' = (IF Now THEN NoMsg ELSE msg) /\ wait' = (IF wait > 0 THEN wait - 1 ELSE 0)
  BY <1>1 DEF Deserialize
<1> QED BY <1>2, <1>3, <1>4, <1>5

(* and the ages of both messages.                                          *)
LEMMA FramingStep ==
  ASSUME Framing, Wire, TdClock, Tick(source) \in Past
  PROVE  Framing'
<1>0. /\ Gap \in Nat \ {0} /\ TdDelay \in Nat \ {0} /\ TdDelay <= Gap
      /\ Length \in Nat \ {0} /\ Length < Gap /\ gap \in 0 .. Gap /\ kind \in 0 .. 2
      /\ wait \in 0 .. TdDelay /\ Span = Length + TdDelay
  BY TdConstants DEF Framing, Span
<1>1. PICK a \in Int : a = Age
  BY <1>0 DEF Age
<1>2. a = Gap - gap
  BY <1>1 DEF Age
<1>3. /\ gap' \in 0 .. Gap /\ kind' \in 0 .. 2 /\ out' \in Msgs \cup {NoMsg}
      /\ out' = NoMsg => ~(gap <= 0) /\ out = NoMsg
  <2>1. CASE gap <= 0
    <3>1. out' \in Msgs /\ gap' = Gap /\ kind' = (kind + 1) % 3
      BY <1>0, <2>1, EdgeParts, MessageIsOne
    <3>2. (kind + 1) % 3 \in 0 .. 2
      BY <1>0
    <3> QED BY <1>0, <3>1, <3>2, MessageIsOne
  <2>2. CASE ~(gap <= 0)
    <3>1. gap' = gap - 1 /\ out' = out /\ kind' = kind
      BY <2>2, EdgeParts
    <3> QED BY <1>0, <2>2, <3>1 DEF Framing
  <2> QED BY <2>1, <2>2
<1>4. out' # NoMsg /\ (out # NoMsg \/ gap <= 0)
  <2>1. out = NoMsg => gap <= 0
    BY <1>0 DEF Framing
  <2> QED BY <1>3, <2>1
<1>5. CASE Ends
  <2>1. /\ out # NoMsg /\ a = Length /\ msg = NoMsg /\ msg' = out /\ wait' = TdDelay
    BY <1>1, <1>5, WaitParts
  <2>2. ~(gap <= 0)
    BY <1>0, <1>2, <2>1
  <2>3. gap' = gap - 1 /\ out' = out
    BY <2>2, EdgeParts
  <2>4. Age' = Length + 1
    BY <1>0, <1>2, <2>1, <2>3 DEF Age
  <2>5. Timely'
    <3>1. Timely' <=> wait' + (Length + 1) <= Span + 1
      BY <1>0, <1>4, <2>4 DEF Timely, Span
    <3> QED BY <1>0, <2>1, <3>1
  <2> QED BY <1>0, <1>3, <1>4, <2>1, <2>3, <2>5 DEF Framing
<1>6. CASE ~Ends
  <2>1. /\ wait' \in 0 .. TdDelay /\ msg' \in Msgs \cup {NoMsg} /\ (msg' = NoMsg <=> wait' = 0)
        /\ wait' # 0 => wait' = wait - 1 /\ msg' = msg /\ msg # NoMsg
        /\ wait' = 0 => wait \in {0, 1}
    <3>1. CASE wait = 0
      BY <1>0, <1>6, <3>1, WaitParts
    <3>2. CASE wait = 1
      BY <1>0, <1>6, <3>2, WaitParts
    <3>3. CASE wait \notin {0, 1}
      <4>1. msg # NoMsg /\ msg' = msg /\ wait' = wait - 1
        BY <1>6, <3>3, WaitParts
      <4> QED BY <1>0, <3>3, <4>1 DEF Framing
    <3> QED BY <3>1, <3>2, <3>3
  <2>2. wait' # 0 => IF out = NoMsg THEN wait <= Length
                     ELSE IF a <= Length THEN wait + a <= Length ELSE wait + a <= Span + 1
    BY <1>1, <2>1 DEF Framing, Timely
  <2>3. wait' # 0 => Timely'
    <3>1. CASE gap <= 0
      <4>1. Age' = 0
        <5>1. gap' = Gap
          BY <3>1, EdgeParts
        <5> QED BY <1>0, <5>1 DEF Age
      <4>2. a = Gap
        BY <1>0, <1>2, <3>1
      <4>3. wait' # 0 => wait' + 0 <= Length
        BY <1>0, <2>1, <2>2, <4>2
      <4>4. Timely' <=> wait' + 0 <= Length
        BY <1>0, <1>4, <4>1 DEF Timely, Span
      <4> QED BY <4>3, <4>4
    <3>2. CASE ~(gap <= 0)
      <4>1. gap' = gap - 1 /\ out' = out /\ out # NoMsg
        BY <1>4, <3>2, EdgeParts
      <4>2. Age' = a + 1
        BY <1>0, <1>2, <4>1 DEF Age
      <4>3. a # Length
        BY <1>1, <1>6, <4>1, EndsWhen
      <4>4. Timely' <=> IF a + 1 <= Length THEN wait' + (a + 1) <= Length
                        ELSE wait' + (a + 1) <= Span + 1
        BY <1>4, <4>2 DEF Timely, Span
      <4> QED BY <1>0, <2>1, <2>2, <4>1, <4>3, <4>4
    <3> QED BY <3>1, <3>2
  <2>4. out' = NoMsg => gap' = 0
    BY <1>4
  <2> QED BY <1>0, <1>3, <2>1, <2>3, <2>4 DEF Framing
<1> QED BY <1>5, <1>6

(* The messages on their way grow older by one,                            *)
LEMMA AtShift ==
  ASSUME Framing, Wire, TdClock, NEW j \in Nat, j + 1 <= Span
  PROVE  At(j + 1)' = At(j)
<1>0. /\ Gap \in Nat \ {0} /\ TdDelay \in Nat \ {0} /\ TdDelay <= Gap
      /\ Length \in Nat \ {0} /\ Length < Gap /\ gap \in 0 .. Gap
      /\ wait \in 0 .. TdDelay /\ Span = Length + TdDelay
      /\ out = NoMsg => gap <= 0
      /\ msg = NoMsg <=> wait = 0
  BY TdConstants DEF Framing, Span
<1>1. PICK a \in Int : a = Age /\ a = Gap - gap
  BY <1>0 DEF Age
<1>2. PICK w \in Int : w = Waited /\ w = (Span + 1) - wait
  BY <1>0 DEF Waited
<1>3. out # NoMsg /\ a = Length => Ends
  BY <1>1, EndsWhen
<1>4. At(j) = IF out # NoMsg /\ a = j /\ j <= Length THEN out
              ELSE IF msg # NoMsg /\ w = j THEN msg ELSE NoMsg
  BY <1>1, <1>2 DEF At
<1>5. At(j + 1)' = IF out' # NoMsg /\ Age' = j + 1 /\ j + 1 <= Length THEN out'
                   ELSE IF msg' # NoMsg /\ Waited' = j + 1 THEN msg' ELSE NoMsg
  BY DEF At, Length
<1>6. Waited' = (Span + 1) - wait'
  BY DEF Waited, Span
<1>7. gap <= 0 => Age' = 0 /\ a = Gap
  BY <1>0, <1>1, EdgeParts DEF Age
<1>8. ~(gap <= 0) => out' = out /\ out # NoMsg /\ Age' = a + 1
  BY <1>0, <1>1, EdgeParts DEF Age
<1>9. CASE Ends
  <2>1. out # NoMsg /\ a = Length /\ msg = NoMsg /\ msg' = out /\ wait' = TdDelay
    BY <1>1, <1>9, WaitParts
  <2>2. ~(gap <= 0) /\ Waited' = Length + 1
    BY <1>0, <1>1, <1>6, <2>1
  <2> QED BY <1>0, <1>4, <1>5, <1>8, <2>1, <2>2
<1>10. CASE ~Ends
  <2>1. wait \in {0, 1} => msg' = NoMsg
    BY <1>10, WaitParts
  <2>2. wait \notin {0, 1} => msg' = msg /\ msg # NoMsg /\ Waited' = w + 1
    <3>1. wait \notin {0, 1} => msg' = msg /\ msg # NoMsg /\ wait' = wait - 1
      BY <1>10, WaitParts
    <3> QED BY <1>0, <1>2, <1>6, <3>1
  <2>3. wait \in {0, 1} => ~(msg # NoMsg /\ w = j)
    BY <1>0, <1>2
  <2>4. (IF msg' # NoMsg /\ Waited' = j + 1 THEN msg' ELSE NoMsg)
          = (IF msg # NoMsg /\ w = j THEN msg ELSE NoMsg)
    BY <1>2, <2>1, <2>2, <2>3
  <2>5. CASE gap <= 0
    <3>1. ~(Age' = j + 1)
      BY <1>7, <2>5
    <3>2. ~(a = j /\ j <= Length)
      BY <1>0, <1>7, <2>5
    <3> QED BY <1>4, <1>5, <2>4, <3>1, <3>2
  <2>6. CASE ~(gap <= 0)
    <3>1. Age' = j + 1 /\ j + 1 <= Length <=> a = j /\ j <= Length
      BY <1>0, <1>3, <1>8, <1>10, <2>6
    <3> QED BY <1>4, <1>5, <1>8, <2>4, <2>6, <3>1
  <2> QED BY <2>5, <2>6
<1> QED BY <1>9, <1>10

(* a new one starts at 0, and the sink takes the one that is Span old.     *)
LEMMA AtEnds ==
  ASSUME Framing, Wire, TdClock
  PROVE  /\ At(Span) = IF Now THEN msg ELSE NoMsg
         /\ At(0)' = IF gap <= 0 THEN out' ELSE NoMsg
         /\ Now => msg # NoMsg
<1>0. /\ Gap \in Nat \ {0} /\ TdDelay \in Nat \ {0} /\ TdDelay <= Gap
      /\ Length \in Nat \ {0} /\ Length < Gap /\ gap \in 0 .. Gap
      /\ wait \in 0 .. TdDelay /\ Span = Length + TdDelay
      /\ out = NoMsg => gap <= 0
      /\ msg = NoMsg <=> wait = 0
  BY TdConstants DEF Framing, Span
<1>1. PICK a \in Int : a = Age /\ a = Gap - gap
  BY <1>0 DEF Age
<1>2. PICK w \in Int : w = Waited /\ w = (Span + 1) - wait
  BY <1>0 DEF Waited
<1>4. (Now <=> wait = 1) /\ (wait = 1 <=> w = Span) /\ (Now => msg # NoMsg)
  BY <1>0, <1>2, WaitParts
<1>5. At(Span) = IF msg # NoMsg /\ w = Span THEN msg ELSE NoMsg
  BY <1>0, <1>1, <1>2 DEF At
<1>6. At(Span) = IF Now THEN msg ELSE NoMsg
  BY <1>0, <1>4, <1>5
<1>7. Waited' = (Span + 1) - wait'
  BY DEF Waited, Span
<1>8. ~(msg' # NoMsg /\ Waited' = 0)
  <2>1. wait' \in 0 .. TdDelay \/ msg' = NoMsg
    <3>1. CASE Ends
      BY <1>0, <3>1, WaitParts
    <3>2. CASE ~Ends
      BY <1>0, <3>2, WaitParts
    <3> QED BY <3>1, <3>2
  <2> QED BY <1>0, <1>7, <2>1
<1>9. At(0)' = IF out' # NoMsg /\ Age' = 0 THEN out' ELSE NoMsg
  BY <1>0, <1>8 DEF At
<1>10. Age' = 0 <=> gap <= 0
  <2>1. gap <= 0 => Age' = 0
    BY <1>0, EdgeParts DEF Age
  <2>2. ~(gap <= 0) => Age' = a + 1
    BY <1>0, <1>1, EdgeParts DEF Age
  <2> QED BY <1>0, <1>1, <2>1, <2>2
<1>11. At(0)' = IF gap <= 0 THEN out' ELSE NoMsg
  BY <1>9, <1>10
<1> QED BY <1>4, <1>6, <1>11

(* What has been told of a time: a time of day only with the relative time *)
(* and the drift.                                                          *)
Known(t) == t \subseteq Facts /\ ("tod" \in t => "drift" \in t /\ "time" \in t)
Items == { i \in [now : Past, told : SUBSET Facts] : Known(i.told) }

(* y is the time one edge after x, as far as it has been told,             *)
Follows(x, y) ==
  /\ "time" \in y.told => y.now = Tick(x.now)
  /\ "drift" \in y.told => SameDrift(y.now, Tick(x.now))
  /\ "alt" \in y.told => Congruent(Across(y.now), Across(x.now))

(* a message tells of y what it carries,                                   *)
Fact(k) == {"time"} \cup (IF k = 0 THEN {"tod"} ELSE IF k = 1 THEN {"drift"} ELSE {"alt"})

Carries(m, y) ==
  /\ "time" \in y.told => SameTime(m, y.now)
  /\ "time" \in y.told /\ m.kind = 0 => m.body.ns = y.now.ns /\ m.body.s = y.now.s % SecMod
  /\ "drift" \in y.told /\ m.kind = 1 => SameDrift(m.body, y.now)
  /\ "alt" \in y.told /\ m.kind = 2 => Leads(m.body.alt_s, m.body.alt, y.now)

(* and nothing more has been told of y than of x, but by that message.     *)
Linked(x, y, m) ==
  /\ Follows(x, y)
  /\ IF m = NoMsg THEN y.told \subseteq x.told
     ELSE y.told \subseteq x.told \cup Fact(m.kind) /\ Carries(m, y)

(* What the sink shows of a time.                                          *)
Shows(c, o, x) ==
  /\ {"time", "drift"} \subseteq x.told => SameTime(c, x.now)
  /\ "drift" \in x.told => SameDrift(c, x.now)
  /\ "tod" \in x.told => SameDay(c, x.now)
  /\ "alt" \in x.told => Leads(o.alt_s, o.alt, x.now)

(* Untold, nothing is asked.                                               *)
LEMMA Untold ==
  ASSUME NEW c, NEW o, NEW x, NEW y, NEW m, y.told = {}
  PROVE  Linked(x, y, m) /\ Shows(c, o, y)
BY DEF Linked, Follows, Carries, Shows

(* The fields of a message.                                                *)
LEMMA MessageFields ==
  ASSUME NEW k \in 0 .. 2, NEW c
  PROVE  /\ Message(k, c).kind = k /\ Message(k, c).body = Body(k, c)
         /\ Message(k, c).fns = c.fns /\ Message(k, c).rel = c.rel
         /\ Message(k, c).period = c.period
         /\ k = 0 => Body(k, c).s = c.s % SecMod /\ Body(k, c).ns = c.ns
         /\ k = 1 => /\ Body(k, c).num = c.num /\ Body(k, c).denom = c.denom
                     /\ Body(k, c).cnt = c.cnt
         /\ k = 2 => Body(k, c) = Alternate(c)
<1>1. k = 0 => Body(k, c) = [s |-> c.s % SecMod, ns |-> c.ns]
  BY DEF Body
<1>2. k = 1 => Body(k, c) = [off |-> Offset(c), num |-> c.num, denom |-> c.denom, cnt |-> c.cnt]
  BY DEF Body
<1>3. k = 2 => Body(k, c) = Alternate(c)
  BY DEF Body
<1>4. /\ Message(k, c).kind = k /\ Message(k, c).body = Body(k, c)
      /\ Message(k, c).fns = c.fns /\ Message(k, c).rel = c.rel
      /\ Message(k, c).period = c.period
  BY DEF Message
<1> QED BY <1>1, <1>2, <1>3, <1>4

(* A message carries the time it was built of.                             *)
LEMMA BuiltCarries ==
  ASSUME NEW k \in 0 .. 2, NEW c \in Past, NEW t
  PROVE  Carries(Message(k, c), Item(c, t))
<1>1. Item(c, t).now = c /\ Item(c, t).told = t
  BY DEF Item
<1>2. SameTime(Message(k, c), c)
  BY MessageFields DEF SameTime
<1>3. k = 1 => SameDrift(Message(k, c).body, c)
  BY MessageFields DEF SameDrift
<1>4. k = 2 => Leads(Message(k, c).body.alt_s, Message(k, c).body.alt, c)
  BY MessageFields, AlternateLeads
<1> QED BY <1>1, <1>2, <1>3, <1>4, MessageFields DEF Carries

(* An edge of the source, with a message of kind k or without.             *)
LEMMA LinkNew ==
  ASSUME NEW c \in Past, Tick(c) \in Past, Congruent(Across(Tick(c)), Across(c)),
         NEW t \in SUBSET Facts, NEW u \in SUBSET Facts, NEW m,
         \/ m = NoMsg /\ u = t
         \/ \E k \in 0 .. 2 : m = Message(k, Tick(c)) /\ u \subseteq t \cup Fact(k)
  PROVE  Linked(Item(c, t), Item(Tick(c), u), m)
<1>1. /\ Item(c, t).now = c /\ Item(c, t).told = t
      /\ Item(Tick(c), u).now = Tick(c) /\ Item(Tick(c), u).told = u
  BY DEF Item
<1>2. Follows(Item(c, t), Item(Tick(c), u))
  BY <1>1 DEF Follows, SameDrift
<1>3. CASE m = NoMsg /\ u = t
  BY <1>1, <1>2, <1>3 DEF Linked
<1>4. CASE \E k \in 0 .. 2 : m = Message(k, Tick(c)) /\ u \subseteq t \cup Fact(k)
  <2>1. PICK k \in 0 .. 2 : m = Message(k, Tick(c)) /\ u \subseteq t \cup Fact(k)
    BY <1>4
  <2>2. m # NoMsg /\ m.kind = k
    BY <2>1, MessageFields, MessageIsOne
  <2>3. Carries(m, Item(Tick(c), u))
    BY <2>1, BuiltCarries
  <2> QED BY <1>1, <1>2, <2>1, <2>2, <2>3 DEF Linked
<1> QED BY <1>3, <1>4

(* A call between two edges changes the time and makes untold what it      *)
(* changed.                                                                *)
LEMMA LinkSet ==
  ASSUME NEW x \in Items, NEW c \in Past, NEW d \in Past, NEW t \in SUBSET Facts, NEW m,
         NEW u \in SUBSET t, "time" \notin u,
         "drift" \in u => SameDrift(d, c),
         "alt" \in u => Across(d) = Across(c),
         Linked(x, Item(c, t), m)
  PROVE  Linked(x, Item(d, u), m)
<1>1. /\ Item(c, t).now = c /\ Item(c, t).told = t
      /\ Item(d, u).now = d /\ Item(d, u).told = u
  BY DEF Item
<1>2. Follows(x, Item(d, u))
  BY <1>1 DEF Follows, Linked, SameDrift
<1>3. CASE m = NoMsg
  BY <1>1, <1>2, <1>3 DEF Linked
<1>4. CASE m # NoMsg
  <2>1. t \subseteq x.told \cup Fact(m.kind) /\ Carries(m, Item(c, t))
    BY <1>1, <1>4 DEF Linked
  <2>2. "alt" \in u /\ m.kind = 2 => Leads(m.body.alt_s, m.body.alt, d)
    BY <1>1, <2>1 DEF Carries, Leads
  <2>3. Carries(m, Item(d, u))
    BY <1>1, <2>1, <2>2 DEF Carries, SameDrift
  <2> QED BY <1>1, <1>2, <1>4, <2>1, <2>3 DEF Linked
<1> QED BY <1>3, <1>4

(* What messages bring are integers.                                       *)
LEMMA MessageInts ==
  ASSUME NEW m \in Msgs
  PROVE  /\ m.kind \in 0 .. 2 /\ m.fns \in Int /\ m.rel \in Int /\ m.period \in Int
         /\ m.kind = 0 => m.body.s \in 0 .. SecMod - 1 /\ m.body.ns \in Int
         /\ m.kind = 1 => m.body.num \in Int /\ m.body.denom \in Int /\ m.body.cnt \in Int
         /\ m.kind = 2 => m.body.alt \in Int /\ m.body.alt_s \in 0 .. SecMod - 1
<1>1. PICK k \in 0 .. 2, c \in Past : m = Message(k, c)
  BY DEF Msgs
<1>2. /\ c.s \in Int /\ c.ns \in Int /\ c.rel \in Int /\ c.fns \in Int
      /\ c.period \in Int /\ c.num \in Int /\ c.denom \in Int /\ c.cnt \in Int
  BY TdConstants DEF Past
<1>3. SecMod \in Nat \ {0}
  BY TdConstants
<1>4. c.s % SecMod \in 0 .. SecMod - 1
  BY <1>2, <1>3, Remainder, Zenon
<1>5. Alternate(c).alt \in Int /\ Alternate(c).alt_s \in 0 .. SecMod - 1
  <2>1. Alternate(c).alt \in Int
    BY AlternateLeads
  <2>2. Alternate(c).alt_s = (c.s + 1) % SecMod \/ Alternate(c).alt_s = (c.s - 1) % SecMod
    BY DEF Alternate
  <2>3. c.s + 1 \in Int /\ c.s - 1 \in Int
    BY <1>2
  <2>4. (c.s + 1) % SecMod \in 0 .. SecMod - 1 /\ (c.s - 1) % SecMod \in 0 .. SecMod - 1
    BY <1>3, <2>3, Remainder, Zenon
  <2> QED BY <2>1, <2>2, <2>4
<1>6. m.kind = k /\ m.fns = c.fns /\ m.rel = c.rel /\ m.period = c.period /\ m.body = Body(k, c)
  BY <1>1, MessageFields
<1>7. /\ k = 0 => m.body.s = c.s % SecMod /\ m.body.ns = c.ns
      /\ k = 1 => m.body.num = c.num /\ m.body.denom = c.denom /\ m.body.cnt = c.cnt
      /\ k = 2 => m.body = Alternate(c)
  BY <1>6, MessageFields
<1> QED BY <1>2, <1>4, <1>5, <1>6, <1>7

(* The fields of the sink's time after a message.                          *)
LEMMA TakeFields ==
  ASSUME NEW c, NEW m
  PROVE  /\ Take(c, m).rel = m.rel /\ Take(c, m).fns = m.fns /\ Take(c, m).period = m.period
         /\ m.kind = 0 => Take(c, m).s = m.body.s /\ Take(c, m).ns = m.body.ns
         /\ m.kind # 0 => Take(c, m).s = c.s /\ Take(c, m).ns = c.ns
         /\ m.kind = 1 => /\ Take(c, m).num = m.body.num /\ Take(c, m).denom = m.body.denom
                          /\ Take(c, m).cnt = m.body.cnt
         /\ m.kind # 1 => /\ Take(c, m).num = c.num /\ Take(c, m).denom = c.denom
                          /\ Take(c, m).cnt = c.cnt
BY DEF Take

LEMMA TakeLoose ==
  ASSUME NEW c \in Loose, NEW m \in Msgs
  PROVE  Take(c, m) \in Loose
<1>1. /\ c.s \in Nat /\ c.ns \in Int /\ c.num \in Int /\ c.denom \in Int /\ c.cnt \in Int
  BY DEF Loose
<1>2. /\ m.fns \in Int /\ m.rel \in Int /\ m.period \in Int
      /\ m.kind = 0 => m.body.s \in Nat /\ m.body.ns \in Int
      /\ m.kind = 1 => m.body.num \in Int /\ m.body.denom \in Int /\ m.body.cnt \in Int
  <2>1. SecMod \in Nat
    BY TdConstants
  <2>2. \A a \in 0 .. SecMod - 1 : a \in Nat
    BY <2>1
  <2> QED BY <2>2, MessageInts, Zenon
<1>3. /\ (IF m.kind = 0 THEN m.body.s ELSE c.s) \in Nat
      /\ (IF m.kind = 0 THEN m.body.ns ELSE c.ns) \in Int
      /\ (IF m.kind = 1 THEN m.body.num ELSE c.num) \in Int
      /\ (IF m.kind = 1 THEN m.body.denom ELSE c.denom) \in Int
      /\ (IF m.kind = 1 THEN m.body.cnt ELSE c.cnt) \in Int
  BY <1>1, <1>2
<1> QED BY <1>2, <1>3 DEF Take, Loose

(* The sink after an edge shows the next time, whether a message came or   *)
(* it counted on.                                                          *)
LEMMA ShowsNext ==
  ASSUME NEW s \in Loose, NEW s2, NEW o, o.alt \in Int, NEW o2, NEW m \in Msgs \cup {NoMsg},
         NEW x \in Items, NEW y \in Items, Linked(x, y, m), Shows(s, o, x),
         s2 = IF m = NoMsg THEN Tick(s) ELSE Take(Tick(s), m),
         m = NoMsg => o2 = o,
         m # NoMsg => /\ m.kind = 2 => o2.alt_s = m.body.alt_s /\ o2.alt = m.body.alt
                      /\ m.kind # 2 => o2.alt_s = o.alt_s /\ o2.alt = o.alt
  PROVE  Shows(s2, o2, y)
<1>0. /\ x.now \in Past /\ y.now \in Past /\ x.now \in Loose
      /\ Known(x.told) /\ Known(y.told) /\ Tick(s) \in Loose
  BY PastIsLoose, TickLoose DEF Items
<1>1. Follows(x, y)
  BY DEF Linked
<1>2. m # NoMsg => m \in Msgs /\ Carries(m, y) /\ m.kind \in 0 .. 2
  BY MessageInts DEF Linked
<1>3. "drift" \in x.told /\ "drift" \in y.told => SameDrift(Tick(s), y.now)
  BY <1>0, <1>1, TicksAgree DEF Shows, Follows, SameDrift
<1>4. {"time", "drift"} \subseteq x.told /\ "time" \in y.told => SameTime(Tick(s), y.now)
  BY <1>0, <1>1, TicksAgree DEF Shows, Follows
<1>5. "tod" \in x.told /\ "tod" \in y.told => SameDay(Tick(s), y.now)
  <2>1. SUFFICES ASSUME "tod" \in x.told, "tod" \in y.told PROVE SameDay(Tick(s), y.now)
    OBVIOUS
  <2>2. {"time", "drift"} \subseteq x.told /\ "time" \in y.told
    BY <1>0, <2>1 DEF Known
  <2>3. SameTime(s, x.now) /\ SameDrift(s, x.now) /\ SameDay(s, x.now)
    BY <2>1, <2>2 DEF Shows
  <2>4. SameDay(Tick(s), Tick(x.now))
    BY <1>0, <2>3, TicksAgree
  <2> QED BY <1>1, <2>2, <2>4 DEF Follows
<1>6. "alt" \in x.told /\ "alt" \in y.told => Leads(o.alt_s, o.alt, y.now)
  BY <1>0, <1>1, LeadsOn DEF Shows, Follows
<1>7. CASE m = NoMsg
  <2>1. y.told \subseteq x.told /\ s2 = Tick(s) /\ o2 = o
    BY <1>7 DEF Linked
  <2> QED BY <1>3, <1>4, <1>5, <1>6, <2>1 DEF Shows
<1>8. CASE m # NoMsg
  <2>1. y.told \subseteq x.told \cup Fact(m.kind) /\ s2 = Take(Tick(s), m)
    BY <1>8 DEF Linked
  <2>2. "time" \in y.told => SameTime(s2, y.now)
    BY <1>2, <1>8, <2>1, TakeFields DEF Carries, SameTime
  <2>3. "drift" \in y.told => SameDrift(s2, y.now)
    <3>1. CASE m.kind = 1
      BY <1>2, <1>8, <2>1, <3>1, TakeFields DEF Carries, SameDrift
    <3>2. CASE m.kind # 1
      <4>1. "drift" \in y.told => "drift" \in x.told
        BY <2>1, <3>2 DEF Fact
      <4> QED BY <1>3, <2>1, <3>2, <4>1, TakeFields DEF SameDrift
    <3> QED BY <3>1, <3>2
  <2>4. "tod" \in y.told => SameDay(s2, y.now)
    <3>0. SUFFICES ASSUME "tod" \in y.told PROVE SameDay(s2, y.now)
      OBVIOUS
    <3>1. CASE m.kind = 0
      <4>1. "time" \in y.told
        BY <1>0, <3>0 DEF Known
      <4>2. s2.ns = y.now.ns /\ s2.s = y.now.s % SecMod
        BY <1>2, <1>8, <2>1, <3>1, <4>1, TakeFields DEF Carries
      <4>3. PICK r \in 0 .. SecMod - 1 : r = y.now.s % SecMod
        <5>1. m.body.s \in 0 .. SecMod - 1 /\ s2.s = m.body.s
          BY <1>2, <1>8, <2>1, <3>1, MessageInts, TakeFields
        <5> QED BY <4>2, <5>1
      <4>4. r % SecMod = r
        <5>1. SecMod \in Nat \ {0} /\ SecMod * 0 + r = r /\ 0 \in Int
          BY TdConstants
        <5>2. (SecMod * 0 + r) % SecMod = r
          BY <5>1, Remains, Zenon
        <5> QED BY <5>1, <5>2
      <4> QED BY <4>2, <4>3, <4>4 DEF SameDay
    <3>2. CASE m.kind # 0
      <4>1. "tod" \in x.told
        BY <2>1, <3>0, <3>2 DEF Fact
      <4> QED BY <1>5, <2>1, <3>0, <3>2, <4>1, TakeFields DEF SameDay
    <3> QED BY <3>1, <3>2
  <2>5. "alt" \in y.told => Leads(o2.alt_s, o2.alt, y.now)
    <3>1. CASE m.kind = 2
      BY <1>2, <1>8, <3>1 DEF Carries
    <3>2. CASE m.kind # 2
      <4>1. "alt" \in y.told => "alt" \in x.told
        BY <1>2, <1>8, <2>1, <3>2 DEF Fact
      <4> QED BY <1>6, <1>8, <3>2, <4>1
    <3> QED BY <3>1, <3>2
  <2> QED BY <2>2, <2>3, <2>4, <2>5 DEF Shows
<1> QED BY <1>7, <1>8

(* The time j edges ago: now, of timestamp_delay, or what was shown last.  *)
Aged(j) == IF j = 0 THEN Item(source, told)
           ELSE IF j <= Len(delay) THEN delay[(Len(delay) + 1) - j] ELSE due

TdTypes ==
  /\ source \in Past /\ source.period \in Rates /\ <<source.num, source.denom>> \in Drifts
  /\ Known(told)
  /\ delay \in Seq(Items) /\ Len(delay) \in 1 .. Span /\ due \in Items
  /\ Len(delay) < Span => delay[1].told = {}
  /\ sink \in Loose /\ offsets.alt \in Int

History == \A j \in 0 .. Len(delay) : Linked(Aged(j + 1), Aged(j), At(j))

TdInv == TdTypes /\ Framing /\ Wire /\ History /\ Shows(sink, offsets, due)

(* An edge of the source keeps its time in range.                          *)
LEMMA SourceTicks ==
  ASSUME TdTypes
  PROVE  /\ Tick(source) \in Past /\ Congruent(Across(Tick(source)), Across(source))
         /\ Tick(source).period = source.period /\ Tick(source).num = source.num
         /\ Tick(source).denom = source.denom
<1>1. source.period + source.num <= (Sec - 1) * Fns
  <2>1. \A p \in Rates, d \in Drifts : p + d[1] <= (Sec - 1) * Fns
    BY TdAssumption
  <2>2. source.period \in Rates /\ <<source.num, source.denom>> \in Drifts
    BY DEF TdTypes
  <2>3. <<source.num, source.denom>>[1] = source.num
    OBVIOUS
  <2> QED BY <2>1, <2>2, <2>3
<1>2. source \in Past
  BY DEF TdTypes
<1>3. Tick(source) \in Past /\ Congruent(Across(Tick(source)), Across(source))
  BY <1>1, <1>2, TickPast
<1> QED BY <1>3, TickFields

(* The items of a sequence.                                                *)
LEMMA ItemInts == \A c \in Past : \A t : Known(t) => Item(c, t) \in Items
BY DEF Item, Items, Known

(* timestamp_delay grows older, and what was kept longest is shown.        *)
LEMMA AgedShift ==
  ASSUME TdTypes, TdClock
  PROVE  /\ delay' \in Seq(Items) /\ Len(delay') \in 1 .. Span
         /\ Len(delay') = IF Len(delay) < Span THEN Len(delay) + 1 ELSE Len(delay)
         /\ Len(delay) < Span => delay'[1] = delay[1]
         /\ due' = delay[1] /\ delay[1] \in Items /\ delay[1] = Aged(Len(delay))
         /\ \A j \in 1 .. Len(delay') : Aged(j)' = Aged(j - 1)
         /\ due' = Aged(Len(delay)) /\ \A j : j = Len(delay') + 1 => Aged(j)' = due'
<1>1. PICK n \in Nat : n = Len(delay) /\ n >= 1 /\ n <= Span
  BY TdConstants DEF TdTypes, Span
<1>2. Span \in Nat /\ Span = Length + TdDelay
  BY TdConstants DEF Span
<1>3. PICK i : i = Item(source, told)
  OBVIOUS
<1>4. i \in Items /\ delay \in Seq(Items)
  BY <1>3, ItemInts DEF TdTypes
<1>5. PICK d \in Seq(Items) : d = Append(delay, i)
  BY <1>4, AppendProperties
<1>6. /\ Len(d) = n + 1
      /\ d[n + 1] = i
      /\ \A k \in 1 .. n : d[k] = delay[k]
  BY <1>1, <1>4, <1>5, AppendProperties
<1>7. due' = delay[1] /\ delay' = IF n + 1 > Span THEN Tail(d) ELSE d
  <2>1. Delay(source)
    BY EdgeParts
  <2>2. Head(delay) = delay[1]
    BY <1>4
  <2>3. delay' = IF Len(d) > Length + TdDelay THEN Tail(d) ELSE d
    BY <1>3, <1>5, <2>1 DEF Delay
  <2> QED BY <1>2, <1>6, <2>1, <2>2, <2>3 DEF Delay
<1>8. delay[1] \in Items /\ delay[1] = Aged(n)
  <2>1. delay[1] \in Items
    BY <1>1, <1>4, ElementOfSeq
  <2>2. (n + 1) - n = 1
    BY <1>1
  <2> QED BY <1>1, <2>1, <2>2 DEF Aged
<1>9. PICK l \in Nat : l = IF n < Span THEN n + 1 ELSE n
  BY <1>1, <1>2
<1>10. /\ delay' \in Seq(Items) /\ Len(delay') = l
       /\ \A k \in 1 .. l : delay'[k] = d[k + ((n + 1) - l)]
  <2>1. CASE n < Span
    <3>1. delay' = d /\ l = n + 1
      BY <1>1, <1>2, <1>7, <1>9, <2>1
    <3>2. \A k \in 1 .. l : k + ((n + 1) - l) = k
      BY <3>1
    <3> QED BY <1>5, <1>6, <3>1, <3>2
  <2>2. CASE ~(n < Span)
    <3>1. delay' = Tail(d) /\ l = n
      BY <1>1, <1>2, <1>7, <1>9, <2>2
    <3>2. d # << >>
      BY <1>1, <1>5, <1>6, EmptySeq
    <3>3. Tail(d) \in Seq(Items) /\ Len(Tail(d)) = Len(d) - 1
          /\ \A k \in 1 .. Len(Tail(d)) : Tail(d)[k] = d[k + 1]
      BY <1>5, <3>2, HeadTailProperties
    <3>4. Len(Tail(d)) = n /\ (n + 1) - n = 1
      BY <1>1, <1>6, <3>3
    <3> QED BY <3>1, <3>3, <3>4
  <2> QED BY <2>1, <2>2
<1>11. l \in 1 .. Span
  BY <1>1, <1>2, <1>9
<1>12. n < Span => delay'[1] = delay[1]
  BY <1>1, <1>6, <1>9, <1>10, <1>11
<1>13. ASSUME NEW j \in 1 .. l PROVE Aged(j)' = Aged(j - 1)
  <2>1. Aged(j)' = delay'[(l + 1) - j]
    BY <1>10, <1>13 DEF Aged
  <2>2. delay'[(l + 1) - j] = d[(n + 2) - j]
    <3>1. PICK k \in 1 .. l : k = (l + 1) - j
      BY <1>9, <1>13
    <3>2. k + ((n + 1) - l) = (n + 2) - j
      <4>1. \A a, b, c \in Int : ((a + 1) - c) + ((b + 1) - a) = (b + 2) - c
        OBVIOUS
      <4>2. l \in Int /\ n \in Int /\ j \in Int
        BY <1>1, <1>9, <1>13
      <4> QED BY <3>1, <4>1, <4>2, Zenon
    <3> QED BY <1>10, <3>1, <3>2
  <2>3. CASE j = 1
    <3>1. (n + 2) - j = n + 1 /\ j - 1 = 0
      BY <1>1, <2>3
    <3> QED BY <1>3, <1>6, <2>1, <2>2, <3>1 DEF Aged
  <2>4. CASE j # 1
    <3>0. j \in Int /\ j >= 2 /\ j <= n + 1
      BY <1>1, <1>9, <1>13, <2>4
    <3>1. PICK k \in 1 .. n : k = (n + 2) - j
      <4>1. (n + 2) - j \in 1 .. n
        BY <1>1, <3>0
      <4> QED BY <4>1
    <3>2. j - 1 # 0 /\ j - 1 <= n /\ (n + 1) - (j - 1) = k
      BY <1>1, <1>9, <1>13, <2>4, <3>1
    <3>3. Aged(j - 1) = delay[k]
      BY <1>1, <3>2 DEF Aged
    <3> QED BY <1>6, <2>1, <2>2, <3>1, <3>3
  <2> QED BY <2>3, <2>4
<1>14. Aged(l + 1)' = due'
  <2>1. l + 1 # 0 /\ ~(l + 1 <= l)
    BY <1>9
  <2> QED BY <1>10, <2>1 DEF Aged
<1>15. due' = Aged(Len(delay))
  BY <1>1, <1>7, <1>8
<1>16. due' = delay[1]
  BY <1>7
<1>17. \A j \in 1 .. Len(delay') : Aged(j)' = Aged(j - 1)
  BY <1>10, <1>13
<1>19. \A j : j = Len(delay') + 1 => Aged(j)' = due'
  BY <1>10, <1>14
<1>18. Len(delay') = IF Len(delay) < Span THEN Len(delay) + 1 ELSE Len(delay)
  BY <1>1, <1>9, <1>10
<1> QED BY <1>1, <1>8, <1>10, <1>11, <1>12, <1>15, <1>16, <1>17, <1>18, <1>19, Zenon

(* What a message tells.                                                   *)
LEMMA Told ==
  ASSUME Known(told), NEW k \in 0 .. 2
  PROVE  Known(Tells(k)) /\ Tells(k) \subseteq told \cup Fact(k)
BY DEF Known, Tells, Fact, Facts

(* An edge keeps what each time is linked to the one before by,            *)
LEMMA HistoryStep ==
  ASSUME TdInv, TdClock
  PROVE  History'
<1>0. TdTypes /\ Framing /\ Wire /\ History
  BY DEF TdInv
<1>1. PICK n \in Nat : n = Len(delay) /\ n >= 1 /\ n <= Span
  BY <1>0, TdConstants DEF TdTypes, Span
<1>2. Span \in Nat
  BY TdConstants DEF Span
<1>3. PICK l \in Nat : l = Len(delay') /\ l = IF n < Span THEN n + 1 ELSE n
  BY <1>0, <1>1, <1>2, AgedShift
<1>4. l >= 1 /\ l <= Span
  BY <1>1, <1>2, <1>3
<1>5. SUFFICES ASSUME NEW j \in 0 .. l
               PROVE  Linked(Aged(j + 1)', Aged(j)', At(j)')
  BY <1>3 DEF History
<1>6. CASE j = 0
  <2>1. Aged(j + 1)' = Item(source, told)
    <3>1. Aged(1)' = Aged(0)
      <4>1. Aged(1)' = Aged(1 - 1)
        BY <1>0, <1>3, <1>4, AgedShift
      <4> QED BY <4>1
    <3>2. Aged(0) = Item(source, told)
      BY DEF Aged
    <3> QED BY <1>6, <3>1, <3>2
  <2>2. Aged(j)' = Item(Tick(source), told')
    <3>1. Aged(0)' = Item(source', told')
      BY DEF Aged
    <3> QED BY <1>6, <3>1, EdgeParts
  <2>3. source \in Past /\ Known(told) /\ told \subseteq Facts
    BY <1>0 DEF TdTypes, Known
  <2>4. At(j)' = IF gap <= 0 THEN out' ELSE NoMsg
    BY <1>0, <1>6, AtEnds
  <2>5. CASE gap <= 0
    <3>1. PICK k \in 0 .. 2 : k = kind
      BY <1>0 DEF Framing
    <3>2. out' = Message(k, Tick(source)) /\ told' = Tells(k)
      BY <2>5, <3>1, EdgeParts
    <3>3. told' \subseteq Facts /\ told' \subseteq told \cup Fact(k)
      BY <2>3, <3>2, Told DEF Known
    <3> QED BY <1>0, <2>1, <2>2, <2>3, <2>4, <2>5, <3>2, <3>3, SourceTicks, LinkNew
  <2>6. CASE ~(gap <= 0)
    <3>1. told' = told
      BY <2>6, EdgeParts
    <3> QED BY <1>0, <2>1, <2>2, <2>3, <2>4, <2>6, <3>1, SourceTicks, LinkNew
  <2> QED BY <2>5, <2>6
<1>7. CASE j # 0
  <2>1. PICK i \in Nat : j = i + 1 /\ i <= n /\ i + 1 <= Span /\ i \in 0 .. Len(delay)
    <3>1. j - 1 \in Nat /\ j = (j - 1) + 1 /\ j - 1 <= n /\ (j - 1) + 1 <= Span
      BY <1>1, <1>2, <1>3, <1>4, <1>7
    <3> QED BY <1>1, <3>1
  <2>2. Aged(j)' = Aged(i)
    <3>1. Aged(j)' = Aged(j - 1) /\ j - 1 = i
      BY <1>0, <1>3, <1>7, <2>1, AgedShift
    <3> QED BY <3>1
  <2>3. At(j)' = At(i)
    BY <1>0, <2>1, AtShift
  <2>4. Linked(Aged(i + 1), Aged(i), At(i))
    BY <1>0, <2>1 DEF History
  <2>5. CASE j < l
    <3>1. Aged(j + 1)' = Aged(j)
      <4>1. j + 1 \in 1 .. l /\ (j + 1) - 1 = j
        BY <1>3, <2>5
      <4>2. Aged(j + 1)' = Aged((j + 1) - 1)
        BY <1>0, <1>3, <4>1, AgedShift
      <4> QED BY <4>1, <4>2
    <3> QED BY <2>1, <2>2, <2>3, <2>4, <3>1
  <2>6. CASE j = l
    <3>1. Aged(j + 1)' = Aged(n)
      BY <1>0, <1>1, <1>3, <2>6, AgedShift
    <3>2. CASE n < Span
      <4>1. i = n
        BY <1>1, <1>3, <2>1, <2>6, <3>2
      <4>2. Aged(n).told = {}
        BY <1>0, <1>1, <3>2, AgedShift DEF TdTypes
      <4> QED BY <2>2, <4>1, <4>2, Untold
    <3>3. CASE ~(n < Span)
      <4>1. i + 1 = n
        BY <1>1, <1>3, <2>1, <2>6, <3>3
      <4> QED BY <2>2, <2>3, <2>4, <3>1, <4>1
    <3> QED BY <3>2, <3>3
  <2> QED BY <1>3, <2>5, <2>6
<1> QED BY <1>6, <1>7

(* what the sink shows,                                                    *)
LEMMA ShownStep ==
  ASSUME TdInv, TdClock
  PROVE  Shows(sink', offsets', due') /\ sink' \in Loose /\ offsets'.alt \in Int
<1>0. TdTypes /\ Framing /\ Wire /\ History /\ Shows(sink, offsets, due)
  BY DEF TdInv
<1>1. PICK n \in Nat : n = Len(delay) /\ n >= 1 /\ n <= Span
  BY <1>0, TdConstants DEF TdTypes, Span
<1>2. Span \in Nat
  BY TdConstants DEF Span
<1>3. sink \in Loose /\ Tick(sink) \in Loose /\ offsets.alt \in Int
  BY <1>0, TickLoose DEF TdTypes
<1>4. PICK m : m = IF Now THEN msg ELSE NoMsg
  OBVIOUS
<1>5. m \in Msgs \cup {NoMsg} /\ (Now <=> m # NoMsg) /\ At(Span) = m /\ (Now => msg = m)
  <2>1. msg \in Msgs \cup {NoMsg}
    BY <1>0 DEF Framing
  <2> QED BY <1>0, <1>4, <2>1, AtEnds
<1>6. sink' = IF m = NoMsg THEN Tick(sink) ELSE Take(Tick(sink), m)
  BY <1>5, EdgeParts DEF Process
<1>7. /\ m = NoMsg => offsets' = offsets
      /\ m # NoMsg => /\ m.kind = 2 => /\ offsets'.alt_s = m.body.alt_s
                                       /\ offsets'.alt = m.body.alt
                      /\ m.kind # 2 => /\ offsets'.alt_s = offsets.alt_s
                                       /\ offsets'.alt = offsets.alt
  BY <1>5, EdgeParts DEF Process, TakeOffsets
<1>8. sink' \in Loose
  BY <1>3, <1>5, <1>6, TakeLoose
<1>9. offsets'.alt \in Int
  BY <1>3, <1>5, <1>7, MessageInts
<1>10. CASE n < Span
  <2>1. due'.told = {}
    BY <1>0, <1>1, <1>10, AgedShift DEF TdTypes
  <2> QED BY <1>8, <1>9, <2>1, Untold
<1>11. CASE ~(n < Span)
  <2>1. n = Span
    BY <1>1, <1>2, <1>11
  <2>2. due' = Aged(n) /\ due' \in Items /\ due \in Items
    BY <1>0, <1>1, AgedShift DEF TdTypes
  <2>3. Aged(n + 1) = due
    <3>1. n + 1 # 0 /\ ~(n + 1 <= n)
      BY <1>1
    <3> QED BY <1>1, <3>1 DEF Aged
  <2>4. Linked(due, due', m)
    <3>1. n \in 0 .. Len(delay)
      BY <1>1
    <3>2. Linked(Aged(n + 1), Aged(n), At(n))
      BY <1>0, <3>1 DEF History
    <3> QED BY <1>5, <2>1, <2>2, <2>3, <3>2
  <2>5. Shows(sink', offsets', due')
    BY <1>0, <1>3, <1>5, <1>6, <1>7, <2>2, <2>4, ShowsNext
  <2> QED BY <1>8, <1>9, <2>5
<1> QED BY <1>10, <1>11

(* and all of the invariant.                                               *)
LEMMA ClockStep ==
  ASSUME TdInv, TdClock
  PROVE  TdInv'
<1>0. TdTypes /\ Framing /\ Wire
  BY DEF TdInv
<1>1. Tick(source) \in Past
  BY <1>0, SourceTicks
<1>2. Framing' /\ Wire'
  BY <1>0, <1>1, FramingStep, WireStep
<1>3. Known(told')
  <2>1. Known(told) /\ kind \in 0 .. 2
    BY <1>0 DEF TdTypes, Framing
  <2> QED BY <2>1, Told, EdgeParts
<1>4. source' \in Past /\ source'.period \in Rates /\ <<source'.num, source'.denom>> \in Drifts
  <2>1. source' = Tick(source)
    BY EdgeParts
  <2> QED BY <1>0, <2>1, SourceTicks DEF TdTypes
<1>5. /\ delay' \in Seq(Items) /\ Len(delay') \in 1 .. Span /\ due' \in Items
      /\ Len(delay') < Span => delay'[1].told = {}
  <2>1. /\ delay' \in Seq(Items) /\ Len(delay') \in 1 .. Span /\ due' \in Items
    BY <1>0, AgedShift
  <2>2. Len(delay') < Span => Len(delay) < Span
    <3>1. Len(delay) \in Nat /\ Span \in Nat
      BY <1>0, TdConstants DEF TdTypes, Span
    <3> QED BY <1>0, <3>1, AgedShift
  <2>3. Len(delay) < Span => delay[1].told = {} /\ delay'[1] = delay[1]
    BY <1>0, AgedShift DEF TdTypes
  <2> QED BY <2>1, <2>2, <2>3
<1>6. TdTypes'
  BY <1>3, <1>4, <1>5, ShownStep DEF TdTypes, Span
<1> QED BY <1>2, <1>6, HistoryStep, ShownStep DEF TdInv

(* At the start nothing was told.                                          *)
LEMMA TdStart ==
  ASSUME TdInit
  PROVE  TdInv
<1>0. /\ Gap \in Nat \ {0} /\ TdDelay \in Nat \ {0} /\ Length \in Nat \ {0}
      /\ Sec \in Nat \ {0} /\ RelMod \in Nat \ {0} /\ Fns \in Nat \ {0} /\ Span \in Nat
      /\ Span >= 1
  BY TdConstants DEF Span
<1>1. Clocks0 \in Past
  BY <1>0 DEF Clocks0, Past
<1>2. source \in Past /\ source.period \in Rates /\ <<source.num, source.denom>> \in Drifts
  <2>1. PICK p \in Rates, d \in Drifts :
          source = [Clocks0 EXCEPT !.period = p, !.num = d[1], !.denom = d[2]]
    BY DEF TdInit
  <2>2. source = [s |-> 0, ns |-> 0, rel |-> 0, fns |-> 0,
                  period |-> p, num |-> d[1], denom |-> d[2], cnt |-> 0]
    BY <2>1 DEF Clocks0
  <2>3. p \in Nat /\ d \in Nat \X Nat /\ <<d[1], d[2]>> = d
    BY TdAssumption
  <2>4. d[1] \in Nat /\ d[2] \in Nat
    BY <2>3
  <2>5. source \in Past
    BY <1>0, <2>2, <2>3, <2>4 DEF Past
  <2> QED BY <2>2, <2>3, <2>5
<1>3. Item(Clocks0, {}) \in Items /\ Item(Clocks0, {}).told = {} /\ Known({})
  <2>1. Known({})
    BY DEF Known
  <2> QED BY <1>1, <2>1, ItemInts DEF Item
<1>4. delay \in Seq(Items) /\ Len(delay) = 1 /\ delay[1].told = {}
  BY <1>3 DEF TdInit
<1>5. sink \in Loose /\ offsets.alt \in Int
  BY <1>1, PastIsLoose DEF TdInit
<1>6. TdTypes
  BY <1>0, <1>2, <1>3, <1>4, <1>5 DEF TdInit, TdTypes
<1>7. Framing /\ Wire
  BY <1>0 DEF TdInit, Framing, Wire, Silent
<1>8. History
  <2>1. SUFFICES ASSUME NEW j \in 0 .. Len(delay)
                 PROVE  Linked(Aged(j + 1), Aged(j), At(j))
    BY DEF History
  <2>2. Aged(j).told = {}
    BY <1>3, <1>4 DEF Aged, TdInit, Item
  <2> QED BY <2>2, Untold
<1>9. Shows(sink, offsets, due)
  BY <1>3, Untold DEF TdInit
<1> QED BY <1>6, <1>7, <1>8, <1>9 DEF TdInv

(* A call of the source leaves the messages and the past alone.            *)
LEMMA SetStep ==
  ASSUME TdInv, NEW c \in Past, c.period \in Rates, <<c.num, c.denom>> \in Drifts,
         NEW unsaid, {"time", "tod"} \subseteq unsaid,
         "drift" \notin unsaid => SameDrift(c, source),
         "alt" \notin unsaid => Across(c) = Across(source),
         Set(c, unsaid)
  PROVE  TdInv'
<1>0. TdTypes /\ Framing /\ Wire /\ History /\ Shows(sink, offsets, due)
  BY DEF TdInv
<1>1. source' = c /\ told' = told \ unsaid /\ UNCHANGED <<delay, due, sink, offsets>>
  BY DEF Set, tdSink
<1>2. UNCHANGED <<gap, kind, wait, out, msg, words_in, bit_in, left, bit_out, data>>
  BY DEF Set, tdSink
<1>3. Framing' /\ Wire' /\ \A j : At(j)' = At(j)
  BY <1>0, <1>2 DEF Framing, Timely, Wire, Sending, Silent, Age, Waited, At, Span
<1>4. Known(told') /\ told' \in SUBSET told /\ told \in SUBSET Facts /\ Known(told)
  BY <1>0, <1>1 DEF TdTypes, Known
<1>5. TdTypes'
  BY <1>0, <1>1, <1>4 DEF TdTypes, Span
<1>6. \A j : j # 0 => Aged(j)' = Aged(j)
  BY <1>1 DEF Aged
<1>7. Linked(Aged(1), Item(c, told'), At(0))
  <2>1. Len(delay) \in Nat /\ Len(delay) >= 1 /\ delay \in Seq(Items)
    BY <1>0, TdConstants DEF TdTypes, Span
  <2>2. Aged(1) \in Items
    <3>1. (Len(delay) + 1) - 1 = Len(delay) /\ Len(delay) \in 1 .. Len(delay)
      BY <2>1
    <3>2. Aged(1) = delay[Len(delay)]
      BY <2>1, <3>1 DEF Aged
    <3> QED BY <2>1, <3>1, <3>2, ElementOfSeq
  <2>3. Linked(Aged(1), Item(source, told), At(0))
    <3>1. 0 \in 0 .. Len(delay) /\ 0 + 1 = 1 /\ Aged(0) = Item(source, told)
      BY <2>1 DEF Aged
    <3>2. Linked(Aged(0 + 1), Aged(0), At(0))
      BY <1>0, <3>1 DEF History
    <3> QED BY <3>1, <3>2
  <2>4. source \in Past
    BY <1>0 DEF TdTypes
  <2>5. /\ "time" \notin told' /\ ("drift" \in told' => SameDrift(c, source))
        /\ "alt" \in told' => Across(c) = Across(source)
    BY <1>1
  <2> QED BY <1>4, <2>2, <2>3, <2>4, <2>5, LinkSet
<1>8. History'
  <2>1. SUFFICES ASSUME NEW j \in 0 .. Len(delay)
                 PROVE  Linked(Aged(j + 1)', Aged(j)', At(j)')
    BY <1>1 DEF History
  <2>2. j + 1 # 0 /\ Aged(j + 1)' = Aged(j + 1)
    <3>1. j + 1 # 0
      OBVIOUS
    <3> QED BY <1>6, <3>1
  <2>3. CASE j = 0
    <3>1. Aged(0)' = Item(c, told')
      BY <1>1 DEF Aged
    <3> QED BY <1>3, <1>7, <2>2, <2>3, <3>1
  <2>4. CASE j # 0
    BY <1>0, <1>3, <1>6, <2>2, <2>4 DEF History
  <2> QED BY <2>3, <2>4
<1>9. Shows(sink', offsets', due')
  BY <1>0, <1>1
<1> QED BY <1>3, <1>5, <1>8, <1>9 DEF TdInv

(* The calls, one by one.                                                  *)
LEMMA PeriodStep == ASSUME TdInv, set_period PROVE TdInv'
<1>1. PICK p \in Rates : Set([source EXCEPT !.period = p], {"time", "tod"})
  BY DEF set_period
<1>2. PICK c : c = [source EXCEPT !.period = p]
  OBVIOUS
<1>3. source \in Past /\ <<source.num, source.denom>> \in Drifts /\ p \in Nat
  BY TdAssumption DEF TdInv, TdTypes
<1>4. /\ c \in Past /\ c.period = p /\ c.num = source.num /\ c.denom = source.denom
      /\ c.cnt = source.cnt /\ c.s = source.s /\ c.ns = source.ns /\ c.rel = source.rel
  BY <1>2, <1>3 DEF Past
<1>5. SameDrift(c, source) /\ Across(c) = Across(source)
  BY <1>4 DEF SameDrift, Across
<1>6. Set(c, {"time", "tod"})
  BY <1>1, <1>2
<1> QED BY <1>3, <1>4, <1>5, <1>6, SetStep

LEMMA DriftStep == ASSUME TdInv, set_drift PROVE TdInv'
<1>1. PICK d \in Drifts :
        Set([source EXCEPT !.num = d[1], !.denom = d[2]], {"time", "tod", "drift"})
  BY DEF set_drift
<1>2. PICK c : c = [source EXCEPT !.num = d[1], !.denom = d[2]]
  OBVIOUS
<1>3. source \in Past /\ source.period \in Rates /\ d = <<d[1], d[2]>>
      /\ d[1] \in Nat /\ d[2] \in Nat
  <2>1. Drifts \subseteq Nat \X Nat
    BY TdAssumption
  <2>2. d \in Nat \X Nat
    BY <2>1, Zenon
  <2>3. d = <<d[1], d[2]>> /\ d[1] \in Nat /\ d[2] \in Nat
    BY <2>2
  <2>4. TdTypes
    BY DEF TdInv
  <2>5. source \in Past /\ source.period \in Rates
    BY <2>4 DEF TdTypes
  <2> QED BY <2>3, <2>5
<1>4. d[1] \in Nat /\ d[2] \in Nat
  BY <1>3
<1>5. /\ c \in Past /\ c.num = d[1] /\ c.denom = d[2] /\ c.period = source.period
      /\ c.s = source.s /\ c.ns = source.ns /\ c.rel = source.rel
  BY <1>2, <1>3, <1>4 DEF Past
<1>6. Across(c) = Across(source)
  BY <1>5 DEF Across
<1>7. Set(c, {"time", "tod", "drift"})
  BY <1>1, <1>2
<1> QED BY <1>3, <1>5, <1>6, <1>7, SetStep

LEMMA TodStep == ASSUME TdInv, set_ts_tod PROVE TdInv'
<1>1. PICK t \in Days :
        Set([source EXCEPT !.s = t[1], !.ns = t[2], !.fns = t[3]], {"time", "tod", "alt"})
  BY DEF set_ts_tod
<1>2. PICK c : c = [source EXCEPT !.s = t[1], !.ns = t[2], !.fns = t[3]]
  OBVIOUS
<1>3. /\ source \in Past /\ source.period \in Rates /\ <<source.num, source.denom>> \in Drifts
      /\ t \in Nat \X (0 .. Sec - 1) \X (0 .. Fns - 1)
  BY TdAssumption DEF TdInv, TdTypes
<1>4. t[1] \in Nat /\ t[2] \in 0 .. Sec - 1 /\ t[3] \in 0 .. Fns - 1
  BY <1>3
<1>5. /\ c \in Past /\ c.period = source.period
      /\ c.num = source.num /\ c.denom = source.denom /\ c.cnt = source.cnt
  BY <1>2, <1>3, <1>4 DEF Past
<1>6. SameDrift(c, source)
  BY <1>5 DEF SameDrift
<1>7. Set(c, {"time", "tod", "alt"})
  BY <1>1, <1>2
<1> QED BY <1>3, <1>5, <1>6, <1>7, SetStep

LEMMA RelStep == ASSUME TdInv, set_ts_rel PROVE TdInv'
<1>1. PICK t \in Rels :
        Set([source EXCEPT !.rel = t[1], !.fns = t[2]], {"time", "tod", "alt"})
  BY DEF set_ts_rel
<1>2. PICK c : c = [source EXCEPT !.rel = t[1], !.fns = t[2]]
  OBVIOUS
<1>3. /\ source \in Past /\ source.period \in Rates /\ <<source.num, source.denom>> \in Drifts
      /\ t \in (0 .. RelMod - 1) \X (0 .. Fns - 1)
  BY TdAssumption DEF TdInv, TdTypes
<1>4. t[1] \in 0 .. RelMod - 1 /\ t[2] \in 0 .. Fns - 1
  BY <1>3
<1>5. /\ c \in Past /\ c.period = source.period
      /\ c.num = source.num /\ c.denom = source.denom /\ c.cnt = source.cnt
  BY <1>2, <1>3, <1>4 DEF Past
<1>6. SameDrift(c, source)
  BY <1>5 DEF SameDrift
<1>7. Set(c, {"time", "tod", "alt"})
  BY <1>1, <1>2
<1> QED BY <1>3, <1>5, <1>6, <1>7, SetStep

(* A free wire is one between two messages.                                *)
LEMMA FreeIsSilent ==
  ASSUME Framing, Wire, WireFree
  PROVE  Silent /\ ~(out # NoMsg /\ Age <= Length)
<1>0. Words \in Nat \ {0}
  BY TdConstants
<1>1. Silent
  BY DEF WireFree, Silent
<1>2. SUFFICES ASSUME out # NoMsg, Age <= Length PROVE FALSE
  BY <1>1
<1>3. Sending
  BY <1>2 DEF Wire
<1>4. Len(words_in) = 0 /\ bit_in = 0 /\ data = IdleBit
  BY DEF WireFree
<1>5. data = StartBit
  BY <1>0, <1>3, <1>4 DEF Sending
<1> QED BY <1>4, <1>5 DEF IdleBit, StartBit

(* After a reset the wire is free, and one end may go on as it was.        *)
LEMMA ResetFrames ==
  ASSUME Framing, Wire, TdReset
  PROVE  Framing' /\ Wire'
<1>0. /\ Gap \in Nat \ {0} /\ TdDelay \in Nat \ {0} /\ Length \in Nat \ {0} /\ Length < Gap
  BY TdConstants
<1>1. CASE SourceAnew /\ SinkAnew
  BY <1>0, <1>1 DEF SourceAnew, SinkAnew, Framing, Wire, Silent
<1>2. CASE WireFree /\ wait <= Length /\ SourceAnew /\ UNCHANGED tdSink
  <2>1. /\ kind' = 0 /\ gap' = 0 /\ out' = NoMsg /\ left' = 0 /\ bit_out' = 0
        /\ data' = IdleBit
        /\ UNCHANGED <<words_in, bit_in, msg, wait>> /\ words_in = << >> /\ bit_in = 0
    BY <1>2 DEF SourceAnew, tdSink, WireFree
  <2>2. Timely'
    BY <1>2, <2>1 DEF Timely, Length
  <2> QED BY <1>0, <2>1, <2>2 DEF Framing, Wire, Silent
<1>3. CASE WireFree /\ SinkAnew /\ UNCHANGED <<source, kind, gap, out, left, bit_out, data>>
  <2>1. /\ UNCHANGED <<kind, gap, out, left, bit_out, data>>
        /\ words_in' = << >> /\ bit_in' = 0 /\ msg' = NoMsg /\ wait' = 0
    BY <1>3 DEF SinkAnew
  <2>2. Silent /\ ~(out # NoMsg /\ Age <= Length)
    BY <1>3, FreeIsSilent
  <2>3. Silent' /\ ~(out' # NoMsg /\ Age' <= Length)
    BY <2>1, <2>2 DEF Silent, Age
  <2>4. Wire'
    BY <2>3 DEF Wire, Length
  <2> QED BY <1>0, <2>1, <2>4 DEF Framing
<1> QED BY <1>1, <1>2, <1>3 DEF TdReset

(* A reset makes all untold.                                               *)
LEMMA ResetStep == ASSUME TdInv, TdReset PROVE TdInv'
<1>0. TdTypes /\ Framing
  BY DEF TdInv
<1>1. /\ source' \in {source, Cleared(source)} /\ sink' \in {sink, Cleared(sink)}
      /\ delay' = [i \in DOMAIN delay |-> [delay[i] EXCEPT !.told = {}]]
      /\ due' = [due EXCEPT !.told = {}] /\ told' = {} /\ offsets' = offsets
  BY DEF TdReset, SourceAnew, SinkAnew, tdSink
<1>3. /\ Gap \in Nat \ {0} /\ TdDelay \in Nat \ {0} /\ Sec \in Nat \ {0}
      /\ RelMod \in Nat \ {0} /\ Fns \in Nat \ {0}
  BY TdConstants
<1>4. ASSUME NEW i \in Items
      PROVE  [i EXCEPT !.told = {}] \in Items /\ [i EXCEPT !.told = {}].told = {}
  <2>1. i \in [now : Past, told : SUBSET Facts] /\ Known({}) /\ {} \in SUBSET Facts
    BY DEF Items, Known
  <2>2. /\ [i EXCEPT !.told = {}] \in [now : Past, told : SUBSET Facts]
        /\ [i EXCEPT !.told = {}].told = {}
    BY <2>1
  <2> QED BY <2>1, <2>2 DEF Items
<1>5. PICK n \in Nat : n = Len(delay) /\ n \in 1 .. Span
  BY <1>0, <1>3, TdConstants DEF TdTypes, Span
<1>6. delay \in Seq(Items) /\ DOMAIN delay = 1 .. n /\ \A k \in 1 .. n : delay[k] \in Items
  BY <1>0, <1>5, LenProperties, ElementOfSeq DEF TdTypes
<1>7. /\ delay' \in Seq(Items) /\ Len(delay') = n
      /\ \A k \in 1 .. n : delay'[k].told = {}
  <2>1. PICK f : f = delay'
    OBVIOUS
  <2>2. f = [k \in 1 .. n |-> [delay[k] EXCEPT !.told = {}]]
    BY <1>1, <1>6, <2>1
  <2>3. f \in [1 .. n -> Items] /\ \A k \in 1 .. n : f[k].told = {}
    BY <1>4, <1>6, <2>2
  <2>4. f \in Seq(Items) /\ Len(f) = n
    BY <2>3, SeqOfFunction
  <2> QED BY <2>1, <2>3, <2>4
<1>8. due' \in Items /\ due'.told = {}
  BY <1>0, <1>1, <1>4 DEF TdTypes
<1>9. /\ source' \in Past /\ source'.period \in Rates /\ <<source'.num, source'.denom>> \in Drifts
      /\ sink' \in Loose
  <2>1. source \in Past /\ source.period \in Rates /\ <<source.num, source.denom>> \in Drifts
        /\ sink \in Loose
    BY <1>0 DEF TdTypes
  <2>2. /\ Cleared(source) \in Past /\ Cleared(source).period = source.period
        /\ Cleared(source).num = source.num /\ Cleared(source).denom = source.denom
    BY <1>3, <2>1 DEF Cleared, Past
  <2>3. Cleared(sink) \in Loose
    BY <2>1 DEF Cleared, Loose
  <2> QED BY <1>1, <2>1, <2>2, <2>3
<1>10. TdTypes'
  <2>1. Known(told')
    BY <1>1 DEF Known
  <2>2. Len(delay') \in 1 .. Span /\ delay'[1].told = {}
    BY <1>5, <1>7
  <2> QED BY <1>0, <1>1, <1>7, <1>8, <1>9, <2>1, <2>2 DEF TdTypes, Span
<1>11. Framing' /\ Wire'
  BY ResetFrames DEF TdInv
<1>12. History'
  <2>1. SUFFICES ASSUME NEW j \in 0 .. n
                 PROVE  Linked(Aged(j + 1)', Aged(j)', At(j)')
    BY <1>7 DEF History
  <2>2. Aged(j)'.told = {}
    <3>1. CASE j = 0
      BY <1>1, <3>1 DEF Aged, Item
    <3>2. CASE j # 0
      <4>1. PICK k \in 1 .. n : k = (n + 1) - j
        <5>1. (n + 1) - j \in 1 .. n
          BY <3>2
        <5> QED BY <5>1
      <4>2. Aged(j)' = delay'[k]
        BY <1>7, <3>2, <4>1 DEF Aged
      <4> QED BY <1>7, <4>2
    <3> QED BY <3>1, <3>2
  <2> QED BY <2>2, Untold
<1>13. Shows(sink', offsets', due')
  BY <1>8, Untold
<1> QED BY <1>10, <1>11, <1>12, <1>13 DEF TdInv

(* The invariant is inductive.                                             *)
LEMMA TdInvHolds == TdSpec => []TdInv
<1>1. TdInit => TdInv
  BY TdStart
<1>2. TdInv /\ [TdNext]_tdVars => TdInv'
  <2> SUFFICES ASSUME TdInv, [TdNext]_tdVars PROVE TdInv'
    OBVIOUS
  <2>1. CASE TdClock
    BY <2>1, ClockStep
  <2>2. CASE set_period
    BY <2>2, PeriodStep
  <2>3. CASE set_drift
    BY <2>3, DriftStep
  <2>4. CASE set_ts_tod
    BY <2>4, TodStep
  <2>5. CASE set_ts_rel
    BY <2>5, RelStep
  <2>6. CASE TdReset
    BY <2>6, ResetStep
  <2>7. CASE UNCHANGED tdVars
    <3>1. /\ UNCHANGED <<source, delay, due, told, sink, offsets>>
          /\ UNCHANGED <<gap, kind, wait, out, msg, words_in, bit_in, left, bit_out, data>>
      BY <2>7 DEF tdVars, tdSource, tdSink
    <3> QED
      BY <3>1 DEF TdInv, TdTypes, Framing, Timely, Wire, Sending, Silent, Age, Waited, Span,
                  History, Aged, At
  <2> QED
    BY <2>1, <2>2, <2>3, <2>4, <2>5, <2>6, <2>7 DEF TdNext
<1> QED BY <1>1, <1>2, PTL DEF TdSpec

(* Once the messages have told it, the sink shows the time the source      *)
(* showed one edge before, on every edge, whatever the rates, the drifts,  *)
(* the delay and the length of the messages, and however calls, resets and *)
(* messages under way meet (ptp_td.py:141-143,224-227,410-411,498-603).    *)
THEOREM SinkFollowsHolds == TdSpec => []SinkFollows
<1>1. TdInv => SinkFollows
  BY DEF TdInv, Shows, SinkFollows, SameTime, SameDay
<1> QED BY <1>1, TdInvHolds, PTL

(* In the second it names, the alternate offset leads from the relative    *)
(* time to the time of day (ptp_td.py:257-265,544-557).                    *)
THEOREM AlternateRightHolds == TdSpec => []AlternateRight
<1>1. TdInv => AlternateRight
  <2> SUFFICES ASSUME TdInv, {"time", "drift", "tod", "alt"} \subseteq due.told,
                      sink.s = offsets.alt_s
               PROVE  (sink.rel + offsets.alt) % OffMod = sink.ns
    BY DEF AlternateRight
  <2>1. due.now \in Past /\ offsets.alt \in Int
    BY DEF TdInv, TdTypes, Items
  <2>2. /\ sink.rel = due.now.rel /\ sink.ns = due.now.ns
        /\ sink.s % SecMod = due.now.s % SecMod
        /\ Leads(offsets.alt_s, offsets.alt, due.now)
    BY DEF TdInv, Shows, SameTime, SameDay
  <2>3. offsets.alt_s % SecMod = offsets.alt_s
    <3>1. PICK k \in Int : offsets.alt_s = k % SecMod
      BY <2>2 DEF Leads
    <3>2. SecMod \in Nat \ {0}
      BY TdConstants
    <3>3. k % SecMod \in 0 .. SecMod - 1
      BY <3>2, Remainder, Zenon
    <3>4. PICK r \in 0 .. SecMod - 1 : r = k % SecMod
      BY <3>3
    <3>5. (SecMod * 0 + r) % SecMod = r /\ SecMod * 0 + r = r
      <4>1. 0 \in Int /\ SecMod * 0 + r = r
        BY <3>2
      <4>2. (SecMod * 0 + r) % SecMod = r
        BY <3>2, <4>1, Remains, Zenon
      <4> QED BY <4>1, <4>2
    <3> QED BY <3>1, <3>4, <3>5
  <2>4. Leads(due.now.s % SecMod, offsets.alt, due.now)
    BY <2>2, <2>3
  <2> QED BY <2>1, <2>2, <2>4, LeadsRight
<1> QED BY <1>1, TdInvHolds, PTL
-----------------------------------------------------------------------------
(* WbBus.                                                                  *)
(* As is the quotient.                                                     *)
LEMMA Quotient ==
  ASSUME NEW m \in Nat \ {0}, NEW q \in Int, NEW r \in 0 .. m - 1
  PROVE  (m * q + r) \div m = q
<1> DEFINE a == m * q + r
<1>1. a \in Int /\ a % m = r
  BY Remains
<1>2. PICK p \in Int : p = a \div m
  BY <1>1
<1>3. m * p = m * q
  <2>1. a = m * p + r
    <3> HIDE DEF a
    <3> QED BY <1>1, <1>2, Remainder
  <2>2. m * p \in Int /\ m * q \in Int
    BY <1>2
  <2> QED BY <2>1, <2>2
<1>4. PICK d \in Int : d = p - q
  BY <1>2
<1>5. m * d = 0
  <2>1. \A x, y \in Int : m * (x - y) = m * x - m * y
    OBVIOUS
  <2>2. m * (p - q) = m * p - m * q
    BY <1>2, <2>1
  <2>3. m * q \in Int /\ m * p \in Int
    BY <1>2
  <2> QED BY <1>3, <1>4, <2>2, <2>3
<1>6. d = 0
  <2>2. d >= 1 => m * d >= m
    BY <1>4
  <2>3. d <= -1 => m * d <= -m
    BY <1>4
  <2> QED BY <1>5, <2>2, <2>3
<1> QED BY <1>2, <1>4, <1>6

(* The cycles of a command: cycle k is for what it has in the w bytes      *)
(* from SpanBlock on.                                                      *)
SpanCycles(w, addr, len) == (len + w - 1 + (addr % w)) \div w
SpanBlock(w, addr, k) == w * ((addr \div w) + (k - 1))

LEMMA Spans ==
  ASSUME NEW w \in Nat \ {0}, NEW addr \in Nat, NEW len \in Nat \ {0},
         NEW k \in 1 .. SpanCycles(w, addr, len)
  PROVE  /\ SpanBlock(w, addr, k) \in Nat
         /\ SpanBlock(w, addr, k) < addr + len /\ addr < SpanBlock(w, addr, k) + w
         /\ k = 1 => /\ SpanBlock(w, addr, k) <= addr
                     /\ addr % w = addr - SpanBlock(w, addr, k)
         /\ k # 1 => addr < SpanBlock(w, addr, k)
         /\ k = SpanCycles(w, addr, len) <=> addr + len <= SpanBlock(w, addr, k) + w
         /\ k = SpanCycles(w, addr, len) =>
              (addr + len - 1) % w = addr + len - 1 - SpanBlock(w, addr, k)
<1>a. PICK n : n = SpanCycles(w, addr, len)
  OBVIOUS
<1>b. PICK b : b = SpanBlock(w, addr, k)
  OBVIOUS
<1>0. n = (len + w - 1 + (addr % w)) \div w /\ k \in 1 .. n
      /\ b = w * ((addr \div w) + (k - 1))
  BY <1>a, <1>b DEF SpanCycles, SpanBlock
<1>1. PICK q \in Nat, a \in 0 .. w - 1 : /\ q = addr \div w /\ a = addr % w
                                          /\ addr = w * q + a
  <2>1. addr \div w \in Nat /\ addr % w \in 0 .. w - 1
        /\ addr = w * (addr \div w) + (addr % w)
    OBVIOUS
  <2> QED BY <2>1
<1>2. len + w - 1 + (addr % w) = len + w - 1 + a /\ len + w - 1 + a \in Nat
  <2>1. len + w - 1 + a \in Nat
    BY <1>1
  <2>2. a = addr % w
    BY <1>1
  <2>3. len + w - 1 + (addr % w) = len + w - 1 + a
    BY <2>2, Zenon
  <2> QED BY <2>1, <2>3
<1>3. PICK r \in 0 .. w - 1 : n \in Nat /\ len + w - 1 + a = w * n + r
  <2> DEFINE t == len + w - 1 + a
  <2>1. t \in Nat /\ n = t \div w
    BY <1>0, <1>2
  <2> HIDE DEF t
  <2>2. t = w * (t \div w) + (t % w) /\ t \div w \in Nat /\ t % w \in 0 .. w - 1
    BY <2>1
  <2> QED BY <2>1, <2>2 DEF t
<1>4. n >= 1
  <2>1. n = 0 => w * n = 0
    OBVIOUS
  <2> QED BY <1>1, <1>3, <2>1
<1>5. PICK d \in 0 .. n - 1 : d = k - 1 /\ k \in 1 .. n
  BY <1>0, <1>3, <1>4
<1>6. b = w * q + w * d
  <2>1. \A x, y \in Int : w * (x + y) = w * x + w * y
    OBVIOUS
  <2>2. b = w * (q + d)
    BY <1>0, <1>1, <1>5
  <2>3. q \in Int /\ d \in Int
    BY <1>1, <1>3, <1>5
  <2> QED BY <2>1, <2>2, <2>3, Zenon
<1>7. PICK x \in Nat : x = w * q
  BY <1>1
<1>8. PICK y \in Nat : y = w * d
  BY <1>5
<1>9. PICK z \in Int : z = w * n
  BY <1>3
<1>10. /\ b = x + y /\ addr = x + a /\ len + w - 1 + a = z + r
  BY <1>1, <1>3, <1>6, <1>7, <1>8, <1>9
<1>11. y <= z - w
  <2>1. \A u, v \in Nat : u <= v => w * u <= w * v
    OBVIOUS
  <2>2. w * d <= w * (n - 1)
    BY <1>3, <1>4, <1>5, <2>1
  <2>3. w * (n - 1) = w * n - w
    BY <1>3
  <2> QED BY <1>3, <1>8, <1>9, <2>2, <2>3
<1>12. k = n => y = z - w
  <2>1. k = n => d = n - 1
    BY <1>3, <1>5
  <2>2. w * (n - 1) = w * n - w
    BY <1>3
  <2> QED BY <1>8, <1>9, <2>1, <2>2
<1>13. k # n => y + w <= z - w
  <2>0. SUFFICES ASSUME k # n PROVE y + w <= z - w
    OBVIOUS
  <2>1. \A u, v \in Nat : u <= v => w * u <= w * v
    OBVIOUS
  <2>2. w * (d + 1) <= w * (n - 1)
    <3>1. d + 1 <= n - 1 /\ d + 1 \in Nat /\ n - 1 \in Nat
      BY <1>3, <1>5, <2>0
    <3> QED BY <2>1, <3>1
  <2>3. w * (n - 1) = w * n - w /\ w * (d + 1) = w * d + w
    BY <1>3, <1>5
  <2> QED BY <1>3, <1>5, <1>8, <1>9, <2>2, <2>3
<1>14. IF k = 1 THEN y = 0 ELSE y >= w
  <2>1. k = 1 => d = 0
    BY <1>5
  <2>2. k # 1 => d >= 1
    BY <1>3, <1>5
  <2>3. d >= 1 => w * d >= w
    BY <1>5
  <2>4. w * 0 = 0
    OBVIOUS
  <2> QED BY <1>8, <2>1, <2>2, <2>3, <2>4
<1>15. b \in Nat /\ b < addr + len /\ addr < b + w
  BY <1>10, <1>11, <1>14
<1>16. IF k = 1 THEN b <= addr /\ a = addr - b ELSE addr < b
  BY <1>10, <1>11, <1>14
<1>17. k = n <=> addr + len <= b + w
  <2>1. k = n => addr + len <= b + w
    BY <1>10, <1>12
  <2>2. k # n => ~(addr + len <= b + w)
    BY <1>10, <1>13
  <2> QED BY <2>1, <2>2
<1>18. ASSUME k = n PROVE (addr + len - 1) % w = addr + len - 1 - b
  <2>1. PICK e \in 0 .. w - 1 : e = addr + len - 1 - b
    BY <1>15, <1>17, <1>18
  <2>2. addr + len - 1 = w * (q + d) + e
    <3>1. w * (q + d) = b
      BY <1>0, <1>1, <1>5
    <3> QED BY <1>15, <2>1, <3>1
  <2>3. q + d \in Int
    BY <1>1, <1>5
  <2>4. PICK g \in Int : g = q + d
    BY <2>3
  <2>5. (w * g + e) % w = e
    BY <2>4, Remains
  <2>6. addr + len - 1 = w * g + e
    BY <2>2, <2>4
  <2> QED BY <2>1, <2>5, <2>6
<1> QED BY <1>a, <1>b, <1>1, <1>15, <1>16, <1>17, <1>18

(* A command of a call: its bytes are in the RAM and whole words.          *)
GoodCommand(c) ==
  /\ c \in [rw : {"r", "w"}, addr : Nat, data : Seq(Int), length : Nat \ {0}]
  /\ c.addr + c.length <= WbSize
  /\ Whole(c.addr, c.length)
  /\ c.rw = "w" => Len(c.data) = c.length

(* The first byte of the word of a cycle.                                  *)
BlockOf(c, k) == width * ((c.addr \div width) + (k - 1))

(* The widths, and the RAM is of whole bus words.                          *)
LEMMA WbShape ==
  ASSUME shape \in Shapes
  PROVE  /\ ww \in Nat \ {0} /\ ws \in Nat \ {0} /\ width \in Nat \ {0}
         /\ width = ww * ws /\ WbSize \in Nat /\ WbSize % width = 0
<1>1. ww \in Nat \ {0} /\ ws \in Nat \ {0} /\ WbSize \in Nat
  BY WbAssumption DEF ww, ws
<1>2. width = ww * ws
  BY DEF width
<1>3. WbSize % width = 0
  BY WbAssumption DEF width, ww, ws
<1>4. width \in Nat \ {0}
  <2>1. PICK a \in Nat \ {0} : a = ww
    BY <1>1
  <2>2. PICK b \in Nat \ {0} : b = ws
    BY <1>1
  <2>3. a * b \in Nat \ {0}
    OBVIOUS
  <2> QED BY <1>2, <2>1, <2>2, <2>3
<1> QED BY <1>1, <1>2, <1>3, <1>4

(* A command has a cycle.                                                  *)
LEMMA CyclesCount ==
  ASSUME shape \in Shapes, NEW c, GoodCommand(c)
  PROVE  Cycles(c) \in Nat \ {0}
<1>1. PICK w \in Nat \ {0} : w = width
  BY WbShape
<1>2. c.addr \in Nat /\ c.length \in Nat \ {0}
  BY DEF GoodCommand
<1>3. PICK a \in Nat : a = c.addr % w
  BY <1>1, <1>2
<1>4. PICK l \in Nat \ {0} : l = c.length
  BY <1>2
<1>5. Cycles(c) = (l + w - 1 + a) \div w
  BY <1>1, <1>3, <1>4 DEF Cycles
<1>6. PICK t \in Nat : t = l + w - 1 + a /\ t >= w
  OBVIOUS
<1>7. t \div w \in Nat /\ t < w * (t \div w) + w
  OBVIOUS
<1>8. t \div w # 0
  BY <1>6, <1>7
<1> QED BY <1>5, <1>6, <1>7, <1>8

(* What a cycle is for.                                                    *)
LEMMA CycleSpan ==
  ASSUME shape \in Shapes, NEW c, GoodCommand(c), NEW k \in 1 .. Cycles(c)
  PROVE  /\ BlockOf(c, k) \in Nat
         /\ BlockOf(c, k) < c.addr + c.length /\ c.addr < BlockOf(c, k) + width
         /\ FirstLane(c, k) = IF c.addr > BlockOf(c, k) THEN c.addr - BlockOf(c, k) ELSE 0
         /\ LastLane(c, k) = IF c.addr + c.length < BlockOf(c, k) + width
                             THEN c.addr + c.length - 1 - BlockOf(c, k) ELSE width - 1
         /\ k = Cycles(c) <=> c.addr + c.length <= BlockOf(c, k) + width
         /\ k = 1 => BlockOf(c, k) <= c.addr
         /\ BlockOf(c, k + 1) = BlockOf(c, k) + width
<1>1. PICK w \in Nat \ {0} : w = width
  BY WbShape
<1>2. PICK addr \in Nat, len \in Nat \ {0} : addr = c.addr /\ len = c.length
  BY DEF GoodCommand
<1>3. PICK n \in Nat \ {0} : n = Cycles(c)
  BY CyclesCount
<1>4. n = SpanCycles(w, addr, len)
  BY <1>1, <1>2, <1>3 DEF Cycles, SpanCycles
<1>6. PICK b : b = BlockOf(c, k)
  OBVIOUS
<1>5. b = SpanBlock(w, addr, k)
  BY <1>1, <1>2, <1>6 DEF BlockOf, SpanBlock
<1>7. k \in 1 .. n
  BY <1>3
<1>8. /\ b \in Nat
      /\ b < addr + len /\ addr < b + w
      /\ k = 1 => b <= addr /\ addr % w = addr - b
      /\ k # 1 => addr < b
      /\ k = n <=> addr + len <= b + w
      /\ k = n => (addr + len - 1) % w = addr + len - 1 - b
  <2>1. k \in 1 .. SpanCycles(w, addr, len)
    BY <1>4, <1>7
  <2> QED BY <1>4, <1>5, <2>1, Spans
<1>9. FirstLane(c, k) = IF k = 1 THEN addr % w ELSE 0
  BY <1>1, <1>2 DEF FirstLane
<1>10. LastLane(c, k) = IF k = n THEN (addr + len - 1) % w ELSE w - 1
  BY <1>1, <1>2, <1>3 DEF LastLane
<1>11. FirstLane(c, k) = IF addr > b THEN addr - b ELSE 0
  BY <1>8, <1>9
<1>12. LastLane(c, k) = IF addr + len < b + w THEN addr + len - 1 - b ELSE w - 1
  BY <1>8, <1>10
<1>13. BlockOf(c, k + 1) = b + w
  <2>1. PICK q \in Nat : q = addr \div w
    OBVIOUS
  <2>2. BlockOf(c, k + 1) = w * (q + ((k + 1) - 1))
    BY <1>1, <1>2, <2>1 DEF BlockOf
  <2>3. q + ((k + 1) - 1) = (q + (k - 1)) + 1 /\ q + (k - 1) \in Int
    BY <1>7
  <2>4. PICK p \in Int : p = q + (k - 1)
    BY <2>3
  <2>5. b = w * p /\ BlockOf(c, k + 1) = w * (p + 1)
    BY <1>5, <2>1, <2>2, <2>3, <2>4 DEF SpanBlock
  <2>6. w * (p + 1) = w * p + w
    OBVIOUS
  <2> QED BY <2>5, <2>6
<1>14. k = Cycles(c) <=> k = n
  BY <1>3
<1> QED BY <1>1, <1>2, <1>6, <1>8, <1>11, <1>12, <1>13, <1>14

(* It is a word of the RAM, and the RAM finds it.                          *)
LEMMA BlockInside ==
  ASSUME shape \in Shapes, NEW c, GoodCommand(c), NEW k \in 1 .. Cycles(c),
         adr = ((c.addr \div width) + k - 1) * ww
  PROVE  /\ BlockOf(c, k) + width <= WbSize
         /\ (((adr \div ww) * ww) * ws) % WbSize = BlockOf(c, k)
<1>1. PICK w \in Nat \ {0} : w = width
  BY WbShape
<1>2. PICK x, s \in Nat \ {0} : x = ww /\ s = ws /\ w = x * s
  BY <1>1, WbShape
<1>3. PICK size \in Nat : size = WbSize /\ size % w = 0
  BY <1>1, WbShape
<1>4. PICK b \in Nat : b = BlockOf(c, k) /\ b < size
  <2>1. BlockOf(c, k) \in Nat /\ BlockOf(c, k) < c.addr + c.length
    BY CycleSpan
  <2>2. c.addr \in Nat /\ c.length \in Nat /\ c.addr + c.length <= WbSize
    BY DEF GoodCommand
  <2> QED BY <1>3, <2>1, <2>2
<1>5. PICK q \in Int : q = (c.addr \div w) + (k - 1)
  <2>1. c.addr \in Nat
    BY DEF GoodCommand
  <2>2. c.addr \div w \in Int /\ k - 1 \in Int
    BY <2>1
  <2> QED BY <2>2
<1>6. b = w * q
  BY <1>1, <1>4, <1>5 DEF BlockOf
<1>7. adr = q * x
  <2>1. c.addr \in Nat
    BY DEF GoodCommand
  <2>2. PICK a \in Int : a = c.addr \div w
    BY <2>1
  <2>3. a + k - 1 = a + (k - 1)
    OBVIOUS
  <2>4. (c.addr \div width) + k - 1 = q
    BY <1>1, <1>5, <2>2, <2>3
  <2> QED BY <1>2, <2>4
<1>8. adr \div x = q
  <2>1. \A u \in Int, v \in Nat \ {0} : u * v = v * u + 0 /\ 0 \in 0 .. v - 1
    OBVIOUS
  <2>2. (x * q + 0) \div x = q
    BY <2>1, Quotient, Zenon
  <2> QED BY <1>7, <2>1, <2>2, Zenon
<1>9. ((adr \div ww) * ww) * ws = b
  <2>1. \A u \in Int, v, t \in Nat \ {0} : (u * v) * t = (v * t) * u
    OBVIOUS
  <2>2. (q * x) * s = (x * s) * q
    BY <2>1, Zenon
  <2> QED BY <1>2, <1>6, <1>8, <2>2, Zenon
<1>10. b % size = b
  BY <1>3, <1>4
<1>11. b + w <= size
  <2>1. PICK m \in Int : size = w * m
    <3>1. size \div w \in Int /\ size = w * (size \div w) + (size % w)
      OBVIOUS
    <3>2. PICK m \in Int : m = size \div w
      BY <3>1
    <3>3. size = w * m
      BY <1>3, <3>1, <3>2
    <3> QED BY <3>3
  <2>2. m >= q + 1
    <3>1. \A u, v \in Int : u <= v => w * u <= w * v
      OBVIOUS
    <3>2. ~(m <= q)
      BY <1>4, <1>6, <2>1, <3>1
    <3> QED BY <3>2
  <2>3. w * (q + 1) <= w * m
    <3>1. \A u, v \in Int : u <= v => w * u <= w * v
      OBVIOUS
    <3>2. q + 1 \in Int
      OBVIOUS
    <3> QED BY <2>2, <3>1, <3>2
  <2>4. w * (q + 1) = w * q + w
    OBVIOUS
  <2> QED BY <1>6, <2>1, <2>3, <2>4
<1> QED BY <1>1, <1>3, <1>4, <1>9, <1>10, <1>11

(* Who shares a word with a byte of whole words is one of them.            *)
LEMMA SameWord ==
  ASSUME NEW s \in Nat \ {0}, NEW f \in Int, NEW l \in Nat, NEW m \in Nat,
         l \div s = m \div s
  PROVE  /\ s * f <= m => s * f <= l
         /\ m < s * f => l < s * f
<1>1. PICK p \in Int : p = l \div s /\ p = m \div s
  OBVIOUS
<1>2. /\ s * p <= l /\ l < s * p + s
      /\ s * p <= m /\ m < s * p + s
  <2>1. \A x \in Nat : s * (x \div s) <= x /\ x < s * (x \div s) + s
    OBVIOUS
  <2> QED BY <1>1, <2>1, Zenon
<1>3. \A u, v \in Int : u <= v => s * u <= s * v
  OBVIOUS
<1>4. s * (p + 1) = s * p + s /\ p + 1 \in Int
  OBVIOUS
<1>5. ASSUME s * f <= m PROVE s * f <= l
  <2>1. ~(p + 1 <= f)
    <3>1. p + 1 <= f => s * (p + 1) <= s * f
      BY <1>3, <1>4
    <3> QED BY <1>2, <1>4, <1>5, <3>1
  <2>2. f <= p
    BY <2>1
  <2>3. s * f <= s * p
    BY <1>3, <2>2
  <2> QED BY <1>2, <2>3
<1>6. ASSUME m < s * f PROVE l < s * f
  <2>1. ~(f <= p)
    <3>1. f <= p => s * f <= s * p
      BY <1>3
    <3> QED BY <1>2, <1>6, <3>1
  <2>2. p + 1 <= f
    BY <2>1
  <2>3. s * (p + 1) <= s * f
    BY <1>3, <1>4, <2>2
  <2> QED BY <1>2, <1>4, <2>3
<1> QED BY <1>5, <1>6

(* The lanes of a cycle are whole words.                                   *)
LEMMA LanesWhole ==
  ASSUME shape \in Shapes, NEW c, GoodCommand(c), NEW k \in 1 .. Cycles(c)
  PROVE  /\ \E f \in Int : FirstLane(c, k) = ws * f
         /\ \E f \in Int : LastLane(c, k) + 1 = ws * f
<1>1. PICK w, x, s \in Nat \ {0} : w = width /\ x = ww /\ s = ws /\ w = x * s
  BY WbShape
<1>2. PICK a, l \in Int : c.addr = s * a /\ c.length = s * l
  <2>1. /\ c.addr \in Nat /\ c.length \in Nat
        /\ c.addr % s = 0 /\ c.length % s = 0
    BY <1>1 DEF GoodCommand, Whole
  <2>2. \A y \in Nat : y % s = 0 => y = s * (y \div s) /\ y \div s \in Int
    OBVIOUS
  <2> QED BY <2>1, <2>2
<1>3. PICK b \in Nat : b = BlockOf(c, k)
  BY CycleSpan
<1>4. PICK d \in Int : b = s * d
  <2>1. PICK q \in Int : b = w * q
    <3>1. c.addr \in Nat
      BY DEF GoodCommand
    <3>2. (c.addr \div w) + (k - 1) \in Int
      BY <3>1
    <3> QED BY <1>1, <1>3, <3>2 DEF BlockOf
  <2>2. \A u, v \in Nat \ {0}, t \in Int : (u * v) * t = v * (u * t) /\ u * t \in Int
    OBVIOUS
  <2>3. b = s * (x * q) /\ x * q \in Int
    BY <1>1, <2>1, <2>2
  <2> QED BY <2>3
<1>5. /\ FirstLane(c, k) = IF c.addr > b THEN c.addr - b ELSE 0
      /\ LastLane(c, k) = IF c.addr + c.length < b + w THEN c.addr + c.length - 1 - b ELSE w - 1
  BY <1>1, <1>3, CycleSpan
<1>6. /\ s * (a - d) = c.addr - b
      /\ s * ((a + l) - d) = (c.addr + c.length) - b
      /\ s * 0 = 0 /\ s * x = w
  <2>1. \A u, v \in Int : s * (u - v) = s * u - s * v /\ s * (u + v) = s * u + s * v
    OBVIOUS
  <2>2. s * (a - d) = s * a - s * d
    BY <2>1
  <2>3. s * ((a + l) - d) = s * (a + l) - s * d /\ s * (a + l) = s * a + s * l
    BY <2>1
  <2>4. s * 0 = 0 /\ s * x = x * s
    OBVIOUS
  <2> QED BY <1>1, <1>2, <1>4, <2>2, <2>3, <2>4, Zenon
<1>7. \E f \in Int : FirstLane(c, k) = s * f
  <2>1. a - d \in Int /\ 0 \in Int
    OBVIOUS
  <2> QED BY <1>5, <1>6, <2>1, Zenon
<1>8. \E f \in Int : LastLane(c, k) + 1 = s * f
  <2>1. (a + l) - d \in Int /\ x \in Int
    OBVIOUS
  <2>2. c.addr \in Nat /\ c.length \in Nat
    BY DEF GoodCommand
  <2>3. LastLane(c, k) + 1 = IF c.addr + c.length < b + w
                             THEN (c.addr + c.length) - b ELSE w
    BY <1>5, <2>2
  <2> QED BY <1>6, <2>1, <2>3, Zenon
<1> QED BY <1>1, <1>7, <1>8

(* A cycle selects the bytes of its command and no others.                 *)
LEMMA Selected ==
  ASSUME shape \in Shapes, NEW c, GoodCommand(c), NEW k \in 1 .. Cycles(c), NEW lane \in Nat
  PROVE  (lane \div ws) \in Sel(c, k) <=> lane \in BusLanes(c, k)
<1>1. lane \in BusLanes(c, k) => (lane \div ws) \in Sel(c, k)
  BY DEF Sel
<1>2. ASSUME (lane \div ws) \in Sel(c, k) PROVE lane \in BusLanes(c, k)
  <2>1. PICK s \in Nat \ {0} : s = ws
    BY WbShape
  <2>2. PICK m \in BusLanes(c, k) : lane \div s = m \div s
    BY <1>2, <2>1 DEF Sel
  <2>3. PICK f \in Int : FirstLane(c, k) = s * f
    BY <2>1, LanesWhole
  <2>4. PICK e \in Int : LastLane(c, k) + 1 = s * e
    BY <2>1, LanesWhole
  <2>5. PICK b \in Nat, w \in Nat \ {0} : b = BlockOf(c, k) /\ w = width
    BY CycleSpan, WbShape
  <2>6. c.addr \in Nat /\ c.length \in Nat
    BY DEF GoodCommand
  <2>7. PICK i, j \in Int : i = FirstLane(c, k) /\ j = LastLane(c, k) /\ i >= 0
    BY <2>5, <2>6, CycleSpan
  <2>8. m \in Nat /\ i <= m /\ m <= j
    BY <2>2, <2>7 DEF BusLanes
  <2>9. s * f <= lane /\ lane < s * e
    <3>1. s * f <= m
      BY <2>3, <2>7, <2>8
    <3>2. m < s * e
      BY <2>4, <2>7, <2>8
    <3> QED BY <2>2, <2>8, <3>1, <3>2, SameWord
  <2> QED BY <2>3, <2>4, <2>7, <2>9 DEF BusLanes
<1> QED BY <1>1, <1>2

(* The RAM and the data read, now and when the order under way is done.    *)
WbStates == [ram : [0 .. WbSize - 1 -> Int], reads : Seq(Nat \X Seq(Int))]
Here == [ram |-> wb_ram, reads |-> wb_data]
Soon == IF wb_pc = "idle" THEN Here ELSE Done(Here, order)

WbTypes ==
  /\ shape \in Shapes /\ latency \in WbLatencies
  /\ wb_commands \in Seq([rw : {"r", "w"}, addr : Nat, data : Seq(Int), length : Nat \ {0}])
  /\ \A i \in 1 .. Len(wb_commands) : GoodCommand(wb_commands[i])
  /\ wb_ram \in [0 .. WbSize - 1 -> Int] /\ wb_data \in Seq(Nat \X Seq(Int))

(* The handshake: one cycle is asked for and served at a time.             *)
Hand ==
  /\ wb_pc \in {"idle", "wait", "next"} /\ ack \in BOOLEAN
  /\ cyc = (wb_pc # "idle") /\ stb = (wb_pc = "wait")
  /\ asked \in Nat /\ served \in Nat /\ wb_wait \in Int /\ wb_wait >= NotWaiting
  /\ wb_pc # "wait" => ~ack
  /\ ack \/ wb_pc # "wait" => wb_wait = NotWaiting /\ asked = served
  /\ wb_pc = "wait" /\ ~ack => asked = served + 1

(* The order under way: where the master is, and up to which byte the RAM  *)
(* has been written.                                                       *)
Reached == IF wb_pc = "next" THEN BlockOf(order, nth) + width ELSE BlockOf(order, nth)
Stored  == IF ack THEN BlockOf(order, nth) + width ELSE Reached
Got     == IF Reached > order.addr THEN Reached - order.addr ELSE 0

Signals ==
  /\ we = (order.rw = "w")
  /\ adr = ((order.addr \div width) + nth - 1) * ww
  /\ sel = Sel(order, nth)
  /\ order.rw = "w" =>
       dat_o = [lane \in 0 .. width - 1 |-> IF lane \in BusLanes(order, nth)
                                            THEN order.data[ByteAt(order, nth, lane)] ELSE 0]

Progress ==
  /\ GoodCommand(order) /\ nth \in 1 .. Cycles(order)
  /\ wb_pc = "wait" => Signals
  /\ wb_pc = "next" => nth # Cycles(order)
  /\ order.rw = "w" => \A a \in order.addr .. order.addr + order.length - 1 :
                         a < Stored => wb_ram[a] = order.data[(a - order.addr) + 1]
  /\ order.rw = "r" => so_far = [i \in 1 .. Got |-> wb_ram[(order.addr + i) - 1]]
  /\ order.rw = "r" /\ ack =>
       dat_i = [lane \in 0 .. width - 1 |-> wb_ram[BlockOf(order, nth) + lane]]

(* The states that the commands still to be done lead through.             *)
ToCome ==
  \E s \in [0 .. Len(wb_commands) -> WbStates] :
    /\ s[0] = Soon /\ s[Len(wb_commands)] = wb_wanted
    /\ \A i \in 1 .. Len(wb_commands) : s[i] = Done(s[i - 1], wb_commands[i])

WbInv == WbTypes /\ Hand /\ (wb_pc # "idle" => Progress) /\ ToCome

(* What a command leads to, and that it may be done again.                 *)
LEMMA DoneType ==
  ASSUME NEW s \in WbStates, NEW c, GoodCommand(c) PROVE Done(s, c) \in WbStates
<1>1. /\ s.ram \in [0 .. WbSize - 1 -> Int] /\ s.reads \in Seq(Nat \X Seq(Int))
  BY DEF WbStates
<1>2. /\ c.rw \in {"r", "w"} /\ c.addr \in Nat /\ c.length \in Nat \ {0} /\ c.data \in Seq(Int)
      /\ c.addr + c.length <= WbSize /\ (c.rw = "w" => Len(c.data) = c.length)
  BY DEF GoodCommand
<1>3. WbSize \in Nat
  BY WbAssumption
<1>4. Done(s, c).ram \in [0 .. WbSize - 1 -> Int]
  <2>1. ASSUME NEW a \in 0 .. WbSize - 1
        PROVE (IF c.rw = "w" /\ a \in c.addr .. c.addr + c.length - 1
               THEN c.data[a - c.addr + 1] ELSE s.ram[a]) \in Int
    <3>1. CASE c.rw = "w" /\ a \in c.addr .. c.addr + c.length - 1
      <4>1. a - c.addr + 1 \in 1 .. Len(c.data)
        BY <1>2, <3>1
      <4>2. c.data[a - c.addr + 1] \in Int
        BY <1>2, <4>1
      <4> QED BY <3>1, <4>2
    <3>2. CASE ~(c.rw = "w" /\ a \in c.addr .. c.addr + c.length - 1)
      BY <1>1, <3>2
    <3> QED BY <3>1, <3>2
  <2>2. DOMAIN s.ram = 0 .. WbSize - 1
    BY <1>1
  <2> QED BY <2>1, <2>2 DEF Done
<1>5. Done(s, c).reads \in Seq(Nat \X Seq(Int))
  <2>1. ASSUME NEW i \in 1 .. c.length PROVE s.ram[c.addr + i - 1] \in Int
    <3>1. c.addr + i - 1 \in 0 .. WbSize - 1
      BY <1>2, <1>3
    <3> QED BY <1>1, <3>1
  <2>2. [i \in 1 .. c.length |-> s.ram[c.addr + i - 1]] \in Seq(Int)
    <3>1. [i \in 1 .. c.length |-> s.ram[c.addr + i - 1]] \in [1 .. c.length -> Int]
      BY <2>1
    <3> QED BY <1>2, <3>1, SeqOfFunction
  <2>3. PICK r \in Seq(Int) : r = [i \in 1 .. c.length |-> s.ram[c.addr + i - 1]]
    BY <2>2
  <2>4. <<c.addr, r>> \in Nat \X Seq(Int)
    BY <1>2
  <2>5. Append(s.reads, <<c.addr, r>>) \in Seq(Nat \X Seq(Int))
    BY <1>1, <2>4
  <2>6. Done(s, c).reads = IF c.rw = "w" THEN s.reads ELSE Append(s.reads, <<c.addr, r>>)
    BY <2>3 DEF Done
  <2> QED BY <1>1, <2>5, <2>6
<1>6. Done(s, c) = [ram |-> Done(s, c).ram, reads |-> Done(s, c).reads]
  BY DEF Done
<1> QED BY <1>4, <1>5, <1>6 DEF WbStates

(* An edge: the master goes on, or it waits while the RAM does or serves.  *)
MasterGoes ==
  /\ MasterIdles \/ MasterStarts \/ MasterTakes \/ MasterGoesOn
  /\ wb_pc = "wait" => ack
  /\ ~ack' /\ ack' \in BOOLEAN
  /\ UNCHANGED <<dat_i, wb_wait, wb_ram, served, wbParams, wb_wanted>>
BothWait ==
  /\ wb_pc = "wait" /\ ~ack
  /\ UNCHANGED <<wbMaster, asked, ack, dat_i, wb_ram, served, wbParams, wb_wanted>>
  /\ wb_wait' \in Int /\ wb_wait' >= NotWaiting
RamAnswers ==
  /\ wb_pc = "wait" /\ ~ack /\ Serve
  /\ UNCHANGED <<wbMaster, asked, wbParams, wb_wanted>>

(* There are no other edges.                                               *)
LEMMA EdgeKinds ==
  ASSUME WbTypes, Hand, Edge \/ EdgeOfMaster \/ Answers
  PROVE  MasterGoes \/ BothWait \/ RamAnswers
<1>1. wb_wait \in Int /\ wb_wait >= -1 /\ latency \in Nat
  BY WbAssumption DEF WbTypes, Hand, NotWaiting
<1>2. ack \in BOOLEAN /\ wb_pc \in {"idle", "wait", "next"}
      /\ (cyc <=> wb_pc # "idle") /\ (stb <=> wb_pc = "wait")
  BY DEF Hand
<1>3. Seen <=> wb_pc = "wait" /\ ~ack
  BY <1>2 DEF Seen
<1>4. CASE Answers
  BY <1>3, <1>4 DEF Answers, RamAnswers
<1>5. CASE Edge \/ EdgeOfMaster
  <2>1. Master /\ UNCHANGED <<wbParams, wb_wanted>>
    BY <1>5 DEF Edge, EdgeOfMaster
  <2>2. CASE wb_pc = "wait" /\ ~ack
    <3>1. MasterWaits
      BY <2>1, <2>2 DEF Master, MasterIdles, MasterStarts, MasterTakes, MasterGoesOn
    <3>2. UNCHANGED <<wbMaster, asked>>
      BY <3>1 DEF MasterWaits
    <3>3. CASE EdgeOfMaster
      <4>1. ack' = ack
        BY <1>2, <2>2, <3>3 DEF EdgeOfMaster
      <4> QED BY <1>1, <2>1, <2>2, <3>2, <3>3, <4>1 DEF EdgeOfMaster, BothWait, NotWaiting
    <3>4. CASE Edge
      <4>1. CASE RamSees
        <5>1. ack' = ack
          BY <1>2, <2>2, <4>1 DEF RamSees
        <5>2. wb_wait' \in Int /\ wb_wait' >= -1
          BY <1>1, <4>1 DEF RamSees
        <5> QED BY <2>1, <2>2, <3>2, <4>1, <5>1, <5>2 DEF RamSees, BothWait, NotWaiting
      <4>2. CASE RamWaits
        BY <1>1, <2>1, <2>2, <3>2, <4>2 DEF RamWaits, BothWait, NotWaiting
      <4>3. CASE RamServes
        BY <2>1, <2>2, <3>2, <4>3 DEF RamServes, RamAnswers
      <4>4. ~RamIdles
        BY <1>3, <2>2 DEF RamIdles
      <4> QED BY <3>4, <4>1, <4>2, <4>3, <4>4 DEF Edge
    <3> QED BY <1>5, <3>3, <3>4
  <2>3. CASE ~(wb_pc = "wait" /\ ~ack)
    <3>1. ~Seen /\ wb_wait = NotWaiting
      BY <1>2, <1>3, <2>3 DEF Hand
    <3>2. MasterIdles \/ MasterStarts \/ MasterTakes \/ MasterGoesOn
      BY <2>1, <2>3 DEF Master, MasterWaits
    <3>3. CASE Edge
      <4>1. RamIdles
        BY <3>1, <3>3 DEF Edge, RamSees, RamWaits, RamServes, NotWaiting
      <4>2. ack' = FALSE /\ UNCHANGED <<dat_i, wb_wait, wb_ram, served>>
        BY <4>1 DEF RamIdles
      <4>3. ~ack' /\ ack' \in BOOLEAN
        BY <4>2
      <4>4. wb_pc = "wait" => ack
        BY <2>3
      <4> QED BY <2>1, <3>2, <4>2, <4>3, <4>4 DEF MasterGoes
    <3>4. CASE EdgeOfMaster
      <4>1. ack' = (ack /\ stb') /\ UNCHANGED <<dat_i, wb_wait, wb_ram, served>>
        BY <3>4 DEF EdgeOfMaster
      <4>2. ~ack' /\ ack' \in BOOLEAN
        <5>1. CASE ~ack
          BY <1>2, <4>1, <5>1
        <5>2. CASE ack
          <6>1. wb_pc = "wait"
            BY <5>2 DEF Hand
          <6>2. MasterTakes
            BY <3>2, <6>1 DEF MasterIdles, MasterStarts, MasterGoesOn
          <6>3. stb' = FALSE
            BY <6>2 DEF MasterTakes
          <6> QED BY <4>1, <6>3
        <5> QED BY <5>1, <5>2
      <4> QED BY <2>1, <2>3, <3>2, <4>1, <4>2 DEF MasterGoes
    <3> QED BY <1>5, <3>3, <3>4
  <2> QED BY <2>2, <2>3
<1> QED BY <1>4, <1>5
    DEF Edge, EdgeOfMaster, Answers

(* Nothing new to come.                                                    *)
LEMMA SameFuture ==
  ASSUME ToCome, wb_commands' = wb_commands, wb_wanted' = wb_wanted, Soon' = Soon
  PROVE  ToCome'
BY DEF ToCome

(* A step of each kind keeps the invariant.                                *)
LEMMA WaitStep ==
  ASSUME WbInv, BothWait PROVE WbInv'
<1>1. /\ UNCHANGED <<wb_commands, wb_data, order, nth, wb_pc, so_far, cyc, stb, we, adr,
                     dat_o, sel, asked, ack, dat_i, wb_ram, served, shape, latency, wb_wanted>>
      /\ wb_pc = "wait" /\ ~ack /\ wb_wait' \in Int /\ wb_wait' >= NotWaiting
  BY DEF BothWait, wbMaster, wbParams
<1>2. WbTypes'
  BY <1>1 DEF WbInv, WbTypes, GoodCommand, Whole, ws
<1>3. Hand'
  BY <1>1 DEF WbInv, Hand, NotWaiting
<1>4. Progress'
  <2>1. Progress
    BY <1>1 DEF WbInv
  <2> QED BY <1>1, <2>1
      DEF Progress, Signals, Stored, Reached, Got, BlockOf, Cycles, Sel, BusLanes, FirstLane,
          LastLane, ByteAt, GoodCommand, Whole, width, ww, ws
<1>5. ToCome'
  <2>1. Soon' = Soon
    BY <1>1 DEF Soon, Here
  <2> QED BY <1>1, <2>1, SameFuture DEF WbInv
<1> QED BY <1>2, <1>3, <1>4, <1>5 DEF WbInv

(* The byte of a command that a lane of a cycle carries.                   *)
LEMMA ByteOfLane ==
  ASSUME shape \in Shapes, NEW c, GoodCommand(c), NEW k \in Int, NEW lane \in Int
  PROVE  /\ BlockOf(c, k) \in Int
         /\ ByteAt(c, k, lane) = ((BlockOf(c, k) + lane) - c.addr) + 1
<1>1. PICK w \in Nat \ {0} : w = width
  BY WbShape
<1>2. PICK addr \in Nat : addr = c.addr
  BY DEF GoodCommand
<1>3. PICK q \in Int, r \in Int : /\ q = addr \div w /\ r = addr % w
                                  /\ addr = w * q + r
  <2>1. addr \div w \in Int /\ addr % w \in Int /\ addr = w * (addr \div w) + (addr % w)
    OBVIOUS
  <2> QED BY <2>1
<1>4. PICK b : b = BlockOf(c, k)
  OBVIOUS
<1>5. b = w * q + w * (k - 1)
  <2>1. \A u, v \in Int : w * (u + v) = w * u + w * v
    OBVIOUS
  <2>2. b = w * (q + (k - 1))
    BY <1>1, <1>2, <1>3, <1>4 DEF BlockOf
  <2>3. k - 1 \in Int
    OBVIOUS
  <2> QED BY <2>1, <2>2, <2>3
<1>6. PICK x \in Int : x = w * q
  OBVIOUS
<1>7. PICK y \in Int : y = w * (k - 1) /\ y = (k - 1) * w
  OBVIOUS
<1>8. ByteAt(c, k, lane) = y + lane - r + 1
  BY <1>1, <1>2, <1>3, <1>7 DEF ByteAt
<1>9. b = x + y /\ addr = x + r
  BY <1>3, <1>5, <1>6, <1>7
<1> QED BY <1>2, <1>4, <1>8, <1>9

(* The RAM serves: what it writes is in the command, byte for byte.        *)
LEMMA AnswerStep ==
  ASSUME WbInv, RamAnswers PROVE WbInv'
<1>1. /\ UNCHANGED <<wb_commands, wb_data, order, nth, wb_pc, so_far, cyc, stb, we, adr,
                     dat_o, sel, asked, shape, latency, wb_wanted>>
      /\ wb_pc = "wait" /\ ~ack /\ Serve
  BY DEF RamAnswers, wbMaster, wbParams
<1>2. WbTypes /\ Hand /\ Progress /\ Signals
  BY <1>1 DEF WbInv, Progress
<1>3. /\ shape \in Shapes /\ GoodCommand(order) /\ nth \in 1 .. Cycles(order)
      /\ wb_ram \in [0 .. WbSize - 1 -> Int] /\ WbSize \in Nat
  BY <1>2, WbAssumption DEF WbTypes, Progress
<1>4. PICK addr \in Nat, len \in Nat \ {0}, bytes \in Seq(Int) :
        /\ addr = order.addr /\ len = order.length /\ bytes = order.data
        /\ addr + len <= WbSize /\ (order.rw = "w" => Len(bytes) = len)
        /\ order.rw \in {"r", "w"}
  BY <1>3 DEF GoodCommand
<1>5. PICK w \in Nat \ {0} : w = width
  BY <1>3, WbShape
<1>6. PICK b \in Nat :
        /\ b = BlockOf(order, nth) /\ b + w <= WbSize
        /\ b = (((adr \div ww) * ww) * ws) % WbSize
  BY <1>2, <1>3, <1>5, CycleSpan, BlockInside DEF Signals
<1>7. /\ ack' = TRUE /\ wb_wait' = NotWaiting /\ served' = served + 1
      /\ we => /\ UNCHANGED dat_i
               /\ wb_ram' = [a \in DOMAIN wb_ram |->
                               IF a \in b .. b + w - 1 /\ ((a - b) \div ws) \in sel
                               THEN dat_o[a - b] ELSE wb_ram[a]]
      /\ ~we => UNCHANGED wb_ram /\ dat_i' = [lane \in 0 .. w - 1 |-> wb_ram[b + lane]]
  BY <1>1, <1>5, <1>6 DEF Serve
<1>8. ASSUME order.rw = "w", NEW a \in 0 .. WbSize - 1
      PROVE  wb_ram'[a] = IF a \in addr .. addr + len - 1 /\ a \in b .. b + w - 1
                          THEN bytes[(a - addr) + 1] ELSE wb_ram[a]
  <2>1. wb_ram'[a] = IF a \in b .. b + w - 1 /\ ((a - b) \div ws) \in Sel(order, nth)
                     THEN dat_o[a - b] ELSE wb_ram[a]
    BY <1>2, <1>3, <1>7, <1>8 DEF Signals
  <2>2. CASE a \in b .. b + w - 1
    <3>1. PICK lane \in 0 .. w - 1 : lane = a - b /\ lane \in Nat
      BY <2>2
    <3>2. (lane \div ws) \in Sel(order, nth) <=> lane \in BusLanes(order, nth)
      BY <1>3, <3>1, Selected
    <3>3. /\ FirstLane(order, nth) = IF addr > b THEN addr - b ELSE 0
          /\ LastLane(order, nth) = IF addr + len < b + w THEN addr + len - 1 - b ELSE w - 1
      BY <1>3, <1>4, <1>5, <1>6, CycleSpan
    <3>4. lane \in BusLanes(order, nth) <=> a \in addr .. addr + len - 1
      <4>1. PICK i, j \in Int : i = FirstLane(order, nth) /\ j = LastLane(order, nth)
        <5>1. FirstLane(order, nth) \in Int /\ LastLane(order, nth) \in Int
          BY <3>3
        <5> QED BY <5>1
      <4>2. lane \in BusLanes(order, nth) <=> i <= lane /\ lane <= j
        BY <3>1, <4>1 DEF BusLanes
      <4>3. /\ i = IF addr > b THEN addr - b ELSE 0
            /\ j = IF addr + len < b + w THEN addr + len - 1 - b ELSE w - 1
        BY <3>3, <4>1
      <4>4. i <= lane /\ lane <= j <=> addr <= a /\ a <= addr + len - 1
        BY <2>2, <3>1, <4>3
      <4> QED BY <4>2, <4>4
    <3>5. ASSUME lane \in BusLanes(order, nth) PROVE dat_o[lane] = bytes[(a - addr) + 1]
      <4>1. dat_o[lane] = bytes[ByteAt(order, nth, lane)]
        BY <1>2, <1>4, <1>5, <1>8, <3>1, <3>5 DEF Signals
      <4>2. ByteAt(order, nth, lane) = ((b + lane) - addr) + 1
        <5>1. nth \in Int /\ lane \in Int
          BY <1>3, CyclesCount
        <5>2. ByteAt(order, nth, lane) = ((BlockOf(order, nth) + lane) - order.addr) + 1
          BY <1>3, <5>1, ByteOfLane
        <5> QED BY <1>4, <1>6, <5>2, Zenon
      <4>3. ((b + lane) - addr) + 1 = (a - addr) + 1
        BY <3>1
      <4> QED BY <4>1, <4>2, <4>3
    <3> QED BY <2>1, <2>2, <3>1, <3>2, <3>4, <3>5
  <2>3. CASE ~(a \in b .. b + w - 1)
    BY <2>1, <2>3
  <2> QED BY <2>2, <2>3
<1>9. order.rw = "r" => wb_ram' = wb_ram
  BY <1>2, <1>7 DEF Signals
<1>10. wb_ram' \in [0 .. WbSize - 1 -> Int]
  <2>1. CASE order.rw = "w"
    <3>1. DOMAIN wb_ram = 0 .. WbSize - 1
      BY <1>3
    <3>2. wb_ram' = [a \in 0 .. WbSize - 1 |-> wb_ram'[a]]
      BY <1>2, <1>7, <2>1, <3>1 DEF Signals
    <3>3. ASSUME NEW a \in 0 .. WbSize - 1 PROVE wb_ram'[a] \in Int
      <4>1. a \in addr .. addr + len - 1 => bytes[(a - addr) + 1] \in Int
        <5>1. ASSUME a \in addr .. addr + len - 1 PROVE (a - addr) + 1 \in 1 .. len
          BY <5>1
        <5>2. \A i \in 1 .. len : bytes[i] \in Int
          BY <1>4, <2>1
        <5> QED BY <5>1, <5>2
      <4> QED BY <1>3, <1>8, <2>1, <4>1
    <3> QED BY <3>2, <3>3
  <2>2. CASE order.rw = "r"
    BY <1>3, <1>9, <2>2
  <2> QED BY <1>4, <2>1, <2>2
<1>11. WbTypes'
  BY <1>1, <1>2, <1>10 DEF WbTypes, GoodCommand, Whole, ws
<1>12. Hand'
  BY <1>1, <1>2, <1>7 DEF Hand, NotWaiting
<1>13. Soon' = Soon
  <2>1. Soon = Done(Here, order) /\ Soon' = Done(Here', order)
    BY <1>1 DEF Soon
  <2>2. CASE order.rw = "r"
    BY <1>1, <1>9, <2>1, <2>2 DEF Here
  <2>3. CASE order.rw = "w"
    <3>1. /\ Done(Here, order).reads = Here.reads /\ Done(Here', order).reads = Here'.reads
      BY <2>3 DEF Done
    <3>2. Here'.reads = Here.reads /\ Here.ram = wb_ram /\ Here'.ram = wb_ram'
      BY <1>1 DEF Here
    <3>3. /\ Done(Here, order).ram =
               [a \in 0 .. WbSize - 1 |-> IF a \in addr .. addr + len - 1
                                          THEN bytes[(a - addr) + 1] ELSE wb_ram[a]]
          /\ Done(Here', order).ram =
               [a \in 0 .. WbSize - 1 |-> IF a \in addr .. addr + len - 1
                                          THEN bytes[(a - addr) + 1] ELSE wb_ram'[a]]
      <4>1. DOMAIN wb_ram = 0 .. WbSize - 1 /\ DOMAIN wb_ram' = 0 .. WbSize - 1
        BY <1>3, <1>10
      <4> QED BY <1>4, <2>3, <3>2, <4>1 DEF Done
    <3>4. ASSUME NEW a \in 0 .. WbSize - 1, ~(a \in addr .. addr + len - 1)
          PROVE  wb_ram'[a] = wb_ram[a]
      BY <1>8, <2>3, <3>4
    <3>5. Done(Here, order).ram = Done(Here', order).ram
      BY <3>3, <3>4
    <3>6. /\ Done(Here, order) = [ram |-> Done(Here, order).ram, reads |-> Done(Here, order).reads]
          /\ Done(Here', order) = [ram |-> Done(Here', order).ram,
                                   reads |-> Done(Here', order).reads]
      BY DEF Done
    <3> QED BY <2>1, <3>1, <3>2, <3>5, <3>6
  <2> QED BY <1>4, <2>2, <2>3
<1>14. ToCome'
  BY <1>1, <1>13, SameFuture DEF WbInv
<1>15. Progress'
  <2>1. /\ BlockOf(order, nth)' = b /\ width' = w /\ Reached' = b /\ Reached = b
        /\ Stored' = b + w /\ Stored = b /\ Got' = Got
    BY <1>1, <1>5, <1>6, <1>7
    DEF BlockOf, width, ww, ws, Reached, Stored, Got
  <2>2. GoodCommand(order)' /\ (nth \in 1 .. Cycles(order))' /\ Signals'
    <3>1. ww' = ww /\ ws' = ws /\ width' = width
      BY <1>1 DEF width, ww, ws
    <3>2. GoodCommand(order)'
      BY <1>1, <1>3, <3>1 DEF GoodCommand, Whole
    <3>3. (nth \in 1 .. Cycles(order))'
      BY <1>1, <1>3, <3>1 DEF Cycles
    <3>4. Signals'
      BY <1>1, <1>2, <3>1
      DEF Signals, Cycles, Sel, BusLanes, FirstLane, LastLane, ByteAt
    <3> QED BY <3>2, <3>3, <3>4
  <2>3. ASSUME order.rw = "w", NEW a \in addr .. addr + len - 1, a < b + w
        PROVE  wb_ram'[a] = bytes[(a - addr) + 1]
    <3>1. a \in 0 .. WbSize - 1
      BY <1>3, <1>4
    <3>2. a < b => wb_ram[a] = bytes[(a - addr) + 1]
      BY <1>2, <1>4, <2>1, <2>3 DEF Progress
    <3>3. a >= b => a \in b .. b + w - 1
      BY <2>3
    <3>4. CASE a < b
      BY <1>8, <2>3, <3>1, <3>2, <3>4
    <3>5. CASE a >= b
      BY <1>8, <2>3, <3>1, <3>3, <3>5
    <3> QED BY <3>4, <3>5
  <2>4. ASSUME order.rw = "r"
        PROVE  /\ so_far' = [i \in 1 .. Got' |-> wb_ram'[(addr + i) - 1]]
               /\ dat_i' = [lane \in 0 .. w - 1 |-> wb_ram'[b + lane]]
    BY <1>1, <1>2, <1>4, <1>7, <1>9, <2>1, <2>4 DEF Progress, Signals
  <2> QED BY <1>1, <1>4, <2>1, <2>2, <2>3, <2>4 DEF Progress
<1> QED BY <1>11, <1>12, <1>14, <1>15 DEF WbInv

(* A request for cycle k of command c.                                     *)
LEMMA Presented ==
  ASSUME shape \in Shapes, UNCHANGED wbParams, NEW c, NEW k, Present(c, k),
         order' = c, c.rw \in {"r", "w"}
  PROVE  Signals' /\ wb_pc' = "wait" /\ nth' = k /\ stb' = TRUE /\ asked' = asked + 1
<1>1. shape' = shape
  BY DEF wbParams
<1>2. ww' = ww /\ ws' = ws /\ width' = width
  BY <1>1 DEF width, ww, ws
<1>3. /\ we' = (c.rw = "w") /\ adr' = ((c.addr \div width) + k - 1) * ww /\ sel' = Sel(c, k)
      /\ dat_o' = IF c.rw = "r" THEN dat_o
                  ELSE [lane \in 0 .. width - 1 |->
                          IF lane \in BusLanes(c, k) THEN c.data[ByteAt(c, k, lane)] ELSE 0]
      /\ stb' = TRUE /\ nth' = k /\ wb_pc' = "wait" /\ asked' = asked + 1
  BY DEF Present
<1>4. Signals'
  BY <1>2, <1>3 DEF Signals, Cycles, Sel, BusLanes, FirstLane, LastLane, ByteAt
<1> QED BY <1>3, <1>4

(* The master takes up a command,                                          *)
LEMMA StartStep ==
  ASSUME WbInv, MasterGoes, MasterStarts PROVE WbInv'
<1> DEFINE o == Head(wb_commands)
<1>1. /\ UNCHANGED <<wb_data, dat_i, wb_wait, wb_ram, served, shape, latency, wb_wanted>>
      /\ UNCHANGED wbParams
      /\ wb_pc = "idle" /\ wb_commands # << >> /\ ~ack' /\ ack' \in BOOLEAN
      /\ order' = o /\ wb_commands' = Tail(wb_commands) /\ cyc' = TRUE /\ so_far' = << >>
      /\ Present(o, 1)
  BY DEF MasterGoes, MasterStarts, wbParams
<1>2. WbTypes /\ Hand /\ ToCome
  BY DEF WbInv
<1>3. /\ GoodCommand(o) /\ shape \in Shapes
      /\ wb_commands = <<o>> \o Tail(wb_commands)
      /\ \A i \in 1 .. Len(wb_commands') : wb_commands'[i] = wb_commands[i + 1]
      /\ Len(wb_commands') = Len(wb_commands) - 1 /\ Len(wb_commands) \in Nat \ {0}
      /\ o = wb_commands[1]
  BY <1>1, <1>2 DEF WbTypes
<1>4. PICK addr \in Nat, len \in Nat \ {0} : addr = o.addr /\ len = o.length
                                            /\ o.rw \in {"r", "w"}
  BY <1>3 DEF GoodCommand
<1> HIDE DEF o
<1>5. Signals' /\ wb_pc' = "wait" /\ nth' = 1 /\ stb' = TRUE /\ asked' = asked + 1
  BY <1>1, <1>3, <1>4, Presented
<1>6. ww' = ww /\ ws' = ws /\ width' = width
  BY <1>1 DEF width, ww, ws
<1>7. WbTypes'
  <2>1. wb_commands' \in Seq([rw : {"r", "w"}, addr : Nat, data : Seq(Int),
                              length : Nat \ {0}])
    BY <1>1, <1>2 DEF WbTypes
  <2>2. ASSUME NEW i \in 1 .. Len(wb_commands') PROVE GoodCommand(wb_commands'[i])
    <3>1. i + 1 \in 1 .. Len(wb_commands)
      BY <1>3
    <3> QED BY <1>2, <1>3, <3>1 DEF WbTypes
  <2>3. \A i \in 1 .. Len(wb_commands') : (GoodCommand(wb_commands[i]))'
    BY <1>6, <2>2 DEF GoodCommand, Whole
  <2> QED BY <1>1, <1>2, <2>1, <2>3 DEF WbTypes
<1>8. Hand'
  <2>1. cyc' = (wb_pc' # "idle") /\ stb' = (wb_pc' = "wait")
    BY <1>1, <1>5
  <2>2. /\ asked \in Nat /\ served \in Nat /\ asked = served /\ wb_wait = -1
    BY <1>1, <1>2 DEF Hand, NotWaiting
  <2>3. asked' \in Nat /\ served' \in Nat /\ asked' = served' + 1
    BY <1>1, <1>5, <2>2
  <2> QED BY <1>1, <1>5, <2>1, <2>2, <2>3 DEF Hand, NotWaiting
<1>9. PICK b \in Nat : b = BlockOf(o, 1) /\ b <= addr
  <2>1. 1 \in 1 .. Cycles(o)
    BY <1>3, CyclesCount
  <2> QED BY <1>3, <1>4, <2>1, CycleSpan
<1>10. Progress'
  <2>1. BlockOf(order, nth)' = b
    BY <1>1, <1>5, <1>6, <1>9 DEF BlockOf
  <2>2. Reached' = b /\ Stored' = b /\ Got' = 0
    BY <1>1, <1>4, <1>5, <1>9, <2>1 DEF Reached, Stored, Got
  <2>3. GoodCommand(order)'
    BY <1>1, <1>3, <1>6 DEF GoodCommand, Whole
  <2>4. (nth \in 1 .. Cycles(order))'
    <3>1. 1 \in 1 .. Cycles(o)
      BY <1>3, CyclesCount
    <3> QED BY <1>1, <1>5, <1>6, <3>1 DEF Cycles
  <2>5. \A a \in addr .. addr + len - 1 : ~(a < b)
    BY <1>9
  <2>6. so_far' = [i \in 1 .. 0 |-> wb_ram'[(addr + i) - 1]]
    BY <1>1
  <2> QED BY <1>1, <1>4, <1>5, <2>2, <2>3, <2>4, <2>5, <2>6 DEF Progress
<1>11. ToCome'
  <2>1. PICK s \in [0 .. Len(wb_commands) -> WbStates] :
          /\ s[0] = Soon /\ s[Len(wb_commands)] = wb_wanted
          /\ \A i \in 1 .. Len(wb_commands) : s[i] = Done(s[i - 1], wb_commands[i])
    BY <1>2 DEF ToCome
  <2>2. PICK n \in Nat : n = Len(wb_commands') /\ n + 1 = Len(wb_commands)
    <3>1. Len(wb_commands') \in Nat /\ Len(wb_commands') + 1 = Len(wb_commands)
      BY <1>3
    <3> QED BY <3>1
  <2> DEFINE t == [i \in 0 .. n |-> s[i + 1]]
  <2>3. t \in [0 .. n -> WbStates]
    BY <2>1, <2>2
  <2>4. Soon' = Done(Here, o) /\ Soon = Here
    BY <1>1, <1>5 DEF Soon, Here
  <2>5. t[0] = Soon'
    <3>1. s[1] = Done(s[0], wb_commands[1])
      BY <2>1, <2>2
    <3> QED BY <1>3, <2>1, <2>4, <3>1
  <2>6. t[n] = wb_wanted'
    BY <1>1, <2>1, <2>2
  <2>7. ASSUME NEW i \in 1 .. n PROVE t[i] = Done(t[i - 1], wb_commands'[i])
    <3>1. i + 1 \in 1 .. Len(wb_commands) /\ (i + 1) - 1 = i /\ i - 1 \in 0 .. n
          /\ (i - 1) + 1 = i /\ i \in 0 .. n
      BY <2>2
    <3>2. s[i + 1] = Done(s[i], wb_commands[i + 1])
      BY <2>1, <3>1
    <3>3. t[i] = s[i + 1] /\ t[i - 1] = s[i]
      BY <3>1
    <3>4. wb_commands'[i] = wb_commands[i + 1]
      BY <1>3, <2>2
    <3> QED BY <3>2, <3>3, <3>4
  <2> HIDE DEF t
  <2> QED BY <2>2, <2>3, <2>5, <2>6, <2>7 DEF ToCome
<1> QED BY <1>7, <1>8, <1>10, <1>11 DEF WbInv

(* asks for its next cycle,                                                *)
LEMMA GoOnStep ==
  ASSUME WbInv, MasterGoes, MasterGoesOn PROVE WbInv'
<1>1. /\ UNCHANGED <<wb_data, dat_i, wb_wait, wb_ram, served, shape, latency, wb_wanted>>
      /\ UNCHANGED <<wb_commands, order, so_far, cyc>>
      /\ UNCHANGED wbParams
      /\ wb_pc = "next" /\ ~ack' /\ ack' \in BOOLEAN
      /\ Present(order, nth + 1)
  BY DEF MasterGoes, MasterGoesOn, wbParams
<1>2. WbTypes /\ Hand /\ ToCome /\ Progress
  BY <1>1 DEF WbInv
<1>3. PICK o : o = order
  OBVIOUS
<1>4. /\ GoodCommand(o) /\ shape \in Shapes /\ nth \in 1 .. Cycles(o) /\ nth # Cycles(o)
      /\ Cycles(o) \in Nat
  BY <1>1, <1>2, <1>3, CyclesCount DEF Progress, WbTypes
<1>5. PICK addr \in Nat, len \in Nat \ {0} : addr = o.addr /\ len = o.length
                                            /\ o.rw \in {"r", "w"}
  BY <1>4 DEF GoodCommand
<1>6. Signals' /\ wb_pc' = "wait" /\ nth' = nth + 1 /\ stb' = TRUE /\ asked' = asked + 1
  BY <1>1, <1>3, <1>4, <1>5, Presented
<1>7. ww' = ww /\ ws' = ws /\ width' = width
  BY <1>1 DEF width, ww, ws
<1>8. WbTypes'
  BY <1>1, <1>2 DEF WbTypes, GoodCommand, Whole, ws
<1>9. Hand'
  <2>1. cyc' = (wb_pc' # "idle") /\ stb' = (wb_pc' = "wait")
    BY <1>1, <1>2, <1>6 DEF Hand
  <2>2. /\ asked \in Nat /\ served \in Nat /\ asked = served /\ wb_wait = -1
    BY <1>1, <1>2 DEF Hand, NotWaiting
  <2>3. asked' \in Nat /\ served' \in Nat /\ asked' = served' + 1
    BY <1>1, <1>6, <2>2
  <2> QED BY <1>1, <1>6, <2>1, <2>2, <2>3 DEF Hand, NotWaiting
<1>10. PICK b \in Int, w \in Nat : b = BlockOf(o, nth) /\ w = width /\ BlockOf(o, nth + 1) = b + w
  BY <1>4, CycleSpan, WbShape
<1>11. Progress'
  <2>1. BlockOf(order, nth)' = b + w
    BY <1>1, <1>3, <1>6, <1>7, <1>10 DEF BlockOf
  <2>2. ~ack
    BY <1>1, <1>2 DEF Hand
  <2>3. /\ Reached' = b + w /\ Stored' = b + w /\ Reached = b + w /\ Stored = b + w /\ Got' = Got
    BY <1>1, <1>3, <1>6, <1>10, <2>1, <2>2 DEF Reached, Stored, Got
  <2>4. GoodCommand(order)'
    BY <1>1, <1>3, <1>4, <1>7 DEF GoodCommand, Whole
  <2>5. (nth \in 1 .. Cycles(order))'
    <3>1. nth + 1 \in 1 .. Cycles(o)
      BY <1>4
    <3> QED BY <1>1, <1>3, <1>6, <1>7, <3>1 DEF Cycles
  <2> QED BY <1>1, <1>2, <1>6, <2>3, <2>4, <2>5 DEF Progress
<1>12. ToCome'
  <2>1. Soon' = Soon
    BY <1>1, <1>6 DEF Soon, Here
  <2> QED BY <1>1, <1>2, <2>1, SameFuture
<1> QED BY <1>8, <1>9, <1>11, <1>12 DEF WbInv

(* or has nothing to do.                                                   *)
LEMMA IdleStep ==
  ASSUME WbInv, MasterGoes, MasterIdles PROVE WbInv'
<1>1. /\ UNCHANGED <<wb_commands, wb_data, order, nth, wb_pc, so_far, cyc, stb, asked,
                     dat_i, wb_wait, wb_ram, served, shape, latency, wb_wanted>>
      /\ wb_pc = "idle" /\ ~ack' /\ ack' \in BOOLEAN
  BY DEF MasterGoes, MasterIdles, wbMaster, wbParams
<1>2. WbTypes'
  BY <1>1 DEF WbInv, WbTypes, GoodCommand, Whole, ws
<1>3. Hand'
  BY <1>1 DEF WbInv, Hand, NotWaiting
<1>4. ToCome'
  <2>1. Soon' = Soon
    BY <1>1 DEF Soon, Here
  <2> QED BY <1>1, <2>1, SameFuture DEF WbInv
<1> QED BY <1>1, <1>2, <1>3, <1>4 DEF WbInv

(* A concatenation, byte by byte.                                          *)
LEMMA Joined ==
  ASSUME NEW u \in Seq(Int), NEW v \in Seq(Int)
  PROVE  u \o v = [i \in 1 .. Len(u) + Len(v) |-> IF i <= Len(u) THEN u[i] ELSE v[i - Len(u)]]
<1>1. PICK z : z = u \o v
  OBVIOUS
<1>2. /\ z \in Seq(Int) /\ Len(z) = Len(u) + Len(v)
      /\ \A i \in 1 .. Len(u) + Len(v) : z[i] = IF i <= Len(u) THEN u[i] ELSE v[i - Len(u)]
  BY <1>1, ConcatProperties
<1>3. DOMAIN z = 1 .. Len(u) + Len(v) /\ z = [i \in DOMAIN z |-> z[i]]
  BY <1>2, LenProperties
<1> QED BY <1>1, <1>2, <1>3, Zenon

(* Bytes of a memory, as they are read.                                    *)
Bytes(m, addr, n) == [i \in 1 .. n |-> m[(addr + i) - 1]]
Integral(m, addr, n) == \A a \in addr .. addr + n - 1 : m[a] \in Int

LEMMA BytesSeq ==
  ASSUME NEW m, NEW addr \in Int, NEW n \in Nat,
         Integral(m, addr, n)
  PROVE  /\ Bytes(m, addr, n) \in Seq(Int) /\ Len(Bytes(m, addr, n)) = n
         /\ \A i \in 1 .. n : Bytes(m, addr, n)[i] = m[(addr + i) - 1]
<1>1. Bytes(m, addr, n) \in [1 .. n -> Int]
  <2>1. ASSUME NEW i \in 1 .. n PROVE m[(addr + i) - 1] \in Int
    <3>1. PICK a \in addr .. addr + n - 1 : a = (addr + i) - 1
      <4>1. (addr + i) - 1 \in addr .. addr + n - 1
        OBVIOUS
      <4> QED BY <4>1
    <3> QED BY <3>1 DEF Integral
  <2> QED BY <2>1 DEF Bytes
<1>2. \A i \in 1 .. n : Bytes(m, addr, n)[i] = m[(addr + i) - 1]
  BY DEF Bytes
<1> QED BY <1>1, <1>2, SeqOfFunction

(* What the master has read when it has taken a cycle.                     *)
Copies(bus, f, n, mem, a) == \A j \in 0 .. n - 1 : bus[f + j] = mem[a + j]

IsJoin(u, v, z) == u \o v = z

LEMMA TakenBytes ==
  ASSUME NEW mem, NEW bus, NEW addr \in Nat, NEW g \in Nat, NEW f \in Nat, NEW n \in Nat,
         NEW a, a = addr + g, NEW h, h = g + n,
         Integral(mem, addr, h), Copies(bus, f, n, mem, a),
         NEW old, old = Bytes(mem, addr, g), NEW new, new = Bytes(bus, f, n)
  PROVE  IsJoin(old, new, Bytes(mem, addr, h))
<1>1. Integral(mem, addr, g) /\ \A i \in 1 .. h : mem[(addr + i) - 1] \in Int
  <2>1. ASSUME NEW i \in 1 .. h PROVE mem[(addr + i) - 1] \in Int
    <3>1. PICK c \in addr .. addr + h - 1 : c = (addr + i) - 1
      <4>1. (addr + i) - 1 \in addr .. addr + h - 1
        OBVIOUS
      <4> QED BY <4>1
    <3> QED BY <3>1 DEF Integral
  <2>2. Integral(mem, addr, g)
    BY DEF Integral
  <2> QED BY <2>1, <2>2
<1>2. ASSUME NEW i \in 0 .. n - 1 PROVE bus[f + i] = mem[a + i] /\ bus[f + i] \in Int
  <2>1. bus[f + i] = mem[a + i]
    BY DEF Copies
  <2>2. PICK c \in addr .. addr + h - 1 : c = a + i
    <3>1. a + i \in addr .. addr + h - 1
      OBVIOUS
    <3> QED BY <3>1
  <2>3. mem[c] \in Int
    BY DEF Integral
  <2> QED BY <2>1, <2>2, <2>3
<1>3. Integral(bus, f, n)
  <2>1. ASSUME NEW c \in f .. f + n - 1 PROVE bus[c] \in Int
    <3>1. PICK i \in 0 .. n - 1 : c = f + i
      <4>1. c - f \in 0 .. n - 1 /\ c = f + (c - f)
        OBVIOUS
      <4> QED BY <4>1
    <3> QED BY <1>2, <3>1
  <2> QED BY <2>1 DEF Integral
<1>4. /\ old \in Seq(Int) /\ Len(old) = g
      /\ \A i \in 1 .. g : old[i] = mem[(addr + i) - 1]
  <2>1. addr \in Int
    OBVIOUS
  <2>2. /\ Bytes(mem, addr, g) \in Seq(Int) /\ Len(Bytes(mem, addr, g)) = g
        /\ \A i \in 1 .. g : Bytes(mem, addr, g)[i] = mem[(addr + i) - 1]
    BY <1>1, <2>1, BytesSeq, Zenon
  <2> QED BY <2>2, Zenon
<1>5. /\ new \in Seq(Int) /\ Len(new) = n
      /\ \A i \in 1 .. n : new[i] = bus[(f + i) - 1]
  <2>1. f \in Int
    OBVIOUS
  <2>2. /\ Bytes(bus, f, n) \in Seq(Int) /\ Len(Bytes(bus, f, n)) = n
        /\ \A i \in 1 .. n : Bytes(bus, f, n)[i] = bus[(f + i) - 1]
    BY ONLY <1>3, <2>1, n \in Nat, BytesSeq
  <2> QED BY <2>2
<1>6. old \o new = [i \in 1 .. h |-> IF i <= g THEN old[i] ELSE new[i - g]]
  <2>1. old \o new = [i \in 1 .. Len(old) + Len(new) |->
                        IF i <= Len(old) THEN old[i] ELSE new[i - Len(old)]]
    BY <1>4, <1>5, Joined, Zenon
  <2> QED BY <1>4, <1>5, <2>1, Zenon
<1>7. ASSUME NEW i \in 1 .. h
      PROVE  (IF i <= g THEN old[i] ELSE new[i - g]) = mem[(addr + i) - 1]
  <2>1. CASE i <= g
    BY <1>4, <2>1
  <2>2. CASE i > g
    <3>1. PICK j \in 0 .. n - 1 : j = (i - g) - 1 /\ (f + (i - g)) - 1 = f + j
                                 /\ i - g \in 1 .. n /\ a + j = (addr + i) - 1
      <4>1. /\ (i - g) - 1 \in 0 .. n - 1 /\ (f + (i - g)) - 1 = f + ((i - g) - 1)
            /\ i - g \in 1 .. n /\ a + ((i - g) - 1) = (addr + i) - 1
        BY <2>2
      <4> QED BY <4>1
    <3>2. new[i - g] = bus[f + j]
      BY <1>5, <3>1
    <3>3. bus[f + j] = mem[a + j]
      BY <1>2
    <3> QED BY <2>2, <3>1, <3>2, <3>3
  <2> QED BY <2>1, <2>2
<1> DEFINE F(i) == IF i <= g THEN old[i] ELSE new[i - g]
           G(i) == mem[(addr + i) - 1]
<1>8. \A i \in 1 .. h : F(i) = G(i)
  BY <1>7
<1> HIDE DEF F, G
<1>9. [i \in 1 .. h |-> F(i)] = [i \in 1 .. h |-> G(i)]
  BY <1>8, Zenon
<1> QED BY <1>6, <1>9, Zenon DEF F, G, Bytes, IsJoin

(* The master takes what a cycle brought.                                  *)
LEMMA TakeStep ==
  ASSUME WbInv, MasterGoes, MasterTakes PROVE WbInv'
<1>1. /\ UNCHANGED <<dat_i, wb_wait, wb_ram, served, shape, latency, wb_wanted>>
      /\ UNCHANGED <<wb_commands, order, nth, asked>>
      /\ wb_pc = "wait" /\ ack /\ ~ack' /\ ack' \in BOOLEAN /\ stb' = FALSE
  BY DEF MasterGoes, MasterTakes, wbParams
<1>2. WbTypes /\ Hand /\ ToCome /\ Progress
  BY <1>1 DEF WbInv
<1>3. PICK o : o = order
  OBVIOUS
<1>4. /\ GoodCommand(o) /\ shape \in Shapes /\ nth \in 1 .. Cycles(o) /\ Cycles(o) \in Nat
      /\ wb_ram \in [0 .. WbSize - 1 -> Int]
  BY <1>1, <1>2, <1>3, CyclesCount DEF Progress, WbTypes
<1>5. PICK addr \in Nat, len \in Nat \ {0} :
        /\ addr = o.addr /\ len = o.length
        /\ o.rw \in {"r", "w"} /\ addr + len <= WbSize
  BY <1>4 DEF GoodCommand
<1>6. PICK b \in Nat, w \in Nat \ {0} :
        /\ b = BlockOf(o, nth) /\ w = width
        /\ b < addr + len /\ addr < b + w /\ b + w <= WbSize
        /\ FirstLane(o, nth) = IF addr > b THEN addr - b ELSE 0
        /\ LastLane(o, nth) = IF addr + len < b + w THEN addr + len - 1 - b ELSE w - 1
        /\ nth = Cycles(o) <=> addr + len <= b + w
  <2>1. width \in Nat \ {0} /\ BlockOf(o, nth) \in Nat
    BY <1>4, CycleSpan, WbShape
  <2>2. BlockOf(o, nth) + width <= WbSize
    BY <1>1, <1>2, <1>3, <1>4, BlockInside DEF Progress, Signals
  <2> QED BY <1>4, <1>5, <2>1, <2>2, CycleSpan
<1>7. PICK last \in BOOLEAN : last = (nth = Cycles(o))
  OBVIOUS
<1>8. PICK bytes :
        /\ bytes = IF o.rw = "w" THEN << >>
                  ELSE so_far \o [i \in 1 .. LastLane(o, nth) + 1 - FirstLane(o, nth) |->
                                    dat_i[FirstLane(o, nth) + i - 1]]
        /\ so_far' = bytes
        /\ cyc' = ~last
        /\ wb_pc' = IF last THEN "idle" ELSE "next"
        /\ wb_data' = IF last /\ o.rw = "r" THEN Append(wb_data, <<addr, bytes>>) ELSE wb_data
  BY <1>3, <1>5, <1>7 DEF MasterTakes
<1>9. /\ Reached = b /\ Stored = b + w /\ (Got = IF b > addr THEN b - addr ELSE 0)
  BY <1>1, <1>3, <1>5, <1>6 DEF Reached, Stored, Got
<1>10. o.rw = "w" => \A a \in addr .. addr + len - 1 :
                       a < b + w => wb_ram[a] = o.data[(a - addr) + 1]
  BY <1>2, <1>3, <1>5, <1>9 DEF Progress
<1>11. ASSUME o.rw = "r"
       PROVE  bytes = [i \in 1 .. IF last THEN len ELSE (b + w) - addr |-> wb_ram[(addr + i) - 1]]
  <2>1. PICK got \in Nat : got = IF b > addr THEN b - addr ELSE 0
    <3>1. (IF b > addr THEN b - addr ELSE 0) \in Nat
      OBVIOUS
    <3> QED BY <3>1
  <2>2. so_far = [i \in 1 .. got |-> wb_ram[(addr + i) - 1]]
    BY <1>2, <1>3, <1>5, <1>9, <1>11, <2>1 DEF Progress
  <2>3. dat_i = [lane \in 0 .. w - 1 |-> wb_ram[b + lane]]
    BY <1>1, <1>2, <1>3, <1>6, <1>11 DEF Progress
  <2>4. PICK f, l : f = FirstLane(o, nth) /\ l = LastLane(o, nth)
    OBVIOUS
  <2>7. /\ f \in Nat /\ l \in Int /\ l + 1 - f \in Nat /\ b + f = addr + got /\ l + 1 <= w
        /\ got + (l + 1 - f) = IF last THEN len ELSE (b + w) - addr
    <3>1. /\ f = (IF addr > b THEN addr - b ELSE 0)
          /\ l = (IF addr + len < b + w THEN addr + len - 1 - b ELSE w - 1)
          /\ last <=> addr + len <= b + w
      BY <1>6, <1>7, <2>4
    <3>2. b < addr + len /\ addr < b + w
      BY <1>6
    <3> QED BY <2>1, <3>1, <3>2
  <2>5. bytes = so_far \o [i \in 1 .. l + 1 - f |-> dat_i[f + i - 1]]
    BY <1>8, <1>11, <2>4
  <2>6. PICK n \in Nat : n = l + 1 - f
    <3>1. l + 1 - f \in Nat
      BY <2>7
    <3> QED BY <3>1
  <2>8. so_far \o [i \in 1 .. n |-> dat_i[f + i - 1]] = Bytes(wb_ram, addr, got + n)
    <3>1. b + f = addr + got /\ f + n <= w /\ f \in Nat
      BY <2>6, <2>7
    <3>0. PICK a, h \in Nat : a = addr + got /\ h = got + n
      OBVIOUS
    <3>2. Integral(wb_ram, addr, h)
      <4>1. addr + h <= WbSize /\ WbSize \in Nat
        BY <1>6, <3>0, <3>1, WbAssumption
      <4> QED BY <1>4, <4>1 DEF Integral
    <3>3. Copies(dat_i, f, n, wb_ram, a)
      <4>1. ASSUME NEW j \in 0 .. n - 1 PROVE dat_i[f + j] = wb_ram[a + j]
        <5>1. f + j \in 0 .. w - 1 /\ b + (f + j) = a + j
          BY <3>0, <3>1
        <5>2. dat_i[f + j] = wb_ram[b + (f + j)]
          BY <2>3, <5>1
        <5> QED BY <5>1, <5>2
      <4> QED BY <4>1 DEF Copies
    <3>4. so_far = Bytes(wb_ram, addr, got)
      BY <2>2 DEF Bytes
    <3>5. [i \in 1 .. n |-> dat_i[f + i - 1]] = Bytes(dat_i, f, n)
      <4>1. \A i \in 1 .. n : f + i - 1 = (f + i) - 1
        BY <3>1
      <4> QED BY <4>1 DEF Bytes
    <3>6. IsJoin(so_far, [i \in 1 .. n |-> dat_i[f + i - 1]], Bytes(wb_ram, addr, h))
      BY <3>0, <3>1, <3>2, <3>3, <3>4, <3>5, TakenBytes
    <3> QED BY <3>0, <3>6, Zenon DEF IsJoin
  <2>9. got + n = IF last THEN len ELSE (b + w) - addr
    BY <2>6, <2>7
  <2> QED BY <2>5, <2>6, <2>8, <2>9, Zenon DEF Bytes
<1>12. ww' = ww /\ ws' = ws /\ width' = width
  BY <1>1 DEF width, ww, ws
<1>13. Soon' = Soon
  <2>1. Soon = Done(Here, o)
    BY <1>1, <1>3 DEF Soon
  <2>2. CASE ~last
    <3>1. wb_data' = wb_data /\ wb_pc' = "next"
      BY <1>8, <2>2
    <3> QED BY <1>1, <1>3, <2>1, <3>1 DEF Soon, Here
  <2>3. CASE last
    <3>1. Soon' = Here' /\ Here' = [ram |-> wb_ram, reads |-> wb_data']
      BY <1>1, <1>8, <2>3 DEF Soon, Here
    <3>2. Here.ram = wb_ram /\ Here.reads = wb_data /\ DOMAIN wb_ram = 0 .. WbSize - 1
      BY <1>4 DEF Here
    <3>3. /\ Done(Here, o) = [ram |-> Done(Here, o).ram, reads |-> Done(Here, o).reads]
          /\ Done(Here, o).ram =
               [a \in 0 .. WbSize - 1 |-> IF o.rw = "w" /\ a \in addr .. addr + len - 1
                                          THEN o.data[(a - addr) + 1] ELSE wb_ram[a]]
          /\ Done(Here, o).reads =
               IF o.rw = "w" THEN wb_data
               ELSE Append(wb_data, <<addr, [i \in 1 .. len |-> wb_ram[(addr + i) - 1]]>>)
      <4>1. \A i \in 1 .. len : addr + i - 1 = (addr + i) - 1
        OBVIOUS
      <4>2. [i \in 1 .. len |-> wb_ram[addr + i - 1]] = [i \in 1 .. len |-> wb_ram[(addr + i) - 1]]
        BY <4>1
      <4>3. Done(Here, o).ram =
              [a \in 0 .. WbSize - 1 |-> IF o.rw = "w" /\ a \in addr .. addr + len - 1
                                         THEN o.data[(a - addr) + 1] ELSE wb_ram[a]]
        BY <1>5, <3>2, Zenon DEF Done
      <4>4. Done(Here, o).reads =
              IF o.rw = "w" THEN wb_data
              ELSE Append(wb_data, <<addr, [i \in 1 .. len |-> wb_ram[addr + i - 1]]>>)
        BY <1>5, <3>2, Zenon DEF Done
      <4>5. Done(Here, o) = [ram |-> Done(Here, o).ram, reads |-> Done(Here, o).reads]
        BY DEF Done
      <4> QED BY <4>2, <4>3, <4>4, <4>5, Zenon
    <3>4. Done(Here, o).ram = wb_ram
      <4>1. addr + len <= b + w
        BY <1>6, <1>7, <2>3
      <4>2. ASSUME o.rw = "w", NEW a \in addr .. addr + len - 1
            PROVE  wb_ram[a] = o.data[(a - addr) + 1]
        <5>1. a < b + w
          BY <4>1
        <5> QED BY <1>10, <4>2, <5>1
      <4>3. \A a \in 0 .. WbSize - 1 :
              (IF o.rw = "w" /\ a \in addr .. addr + len - 1
               THEN o.data[(a - addr) + 1] ELSE wb_ram[a]) = wb_ram[a]
        BY <4>2
      <4> QED BY <1>4, <3>3, <4>3
    <3>5. Done(Here, o).reads = wb_data'
      BY <1>5, <1>8, <1>11, <2>3, <3>3
    <3> QED BY <2>1, <3>1, <3>3, <3>4, <3>5
  <2> QED BY <2>2, <2>3
<1>14. ToCome'
  BY <1>1, <1>2, <1>13, SameFuture
<1>15. WbTypes'
  <2>1. wb_data' \in Seq(Nat \X Seq(Int))
    <3>1. CASE last /\ o.rw = "r"
      <4>1. Here \in WbStates
        BY <1>2 DEF Here, WbStates, WbTypes
      <4>2. Done(Here, o) \in WbStates
        BY <1>4, <4>1, DoneType
      <4>3. Done(Here, o) = Here'
        BY <1>1, <1>3, <1>8, <1>13, <3>1 DEF Soon
      <4>4. Here'.reads = wb_data'
        BY DEF Here
      <4> QED BY <4>2, <4>3, <4>4 DEF WbStates
    <3>2. CASE ~(last /\ o.rw = "r")
      BY <1>2, <1>8, <3>2 DEF WbTypes
    <3> QED BY <3>1, <3>2
  <2>2. \A i \in 1 .. Len(wb_commands) : GoodCommand(wb_commands[i])
    BY <1>2 DEF WbTypes
  <2>3. (\A i \in 1 .. Len(wb_commands) : GoodCommand(wb_commands[i]))'
    BY <1>1, <1>12, <2>2 DEF GoodCommand, Whole
  <2> QED BY <1>1, <1>2, <2>1, <2>3 DEF WbTypes
<1>16. Hand'
  <2>1. cyc' = (wb_pc' # "idle") /\ stb' = (wb_pc' = "wait") /\ wb_pc' \in {"idle", "next"}
    BY <1>1, <1>8
  <2> QED BY <1>1, <1>2, <2>1 DEF Hand, NotWaiting
<1>17. wb_pc' # "idle" => Progress'
  <2>0. SUFFICES ASSUME wb_pc' # "idle" PROVE Progress'
    OBVIOUS
  <2>1. ~last /\ wb_pc' = "next" /\ nth # Cycles(o)
    BY <1>7, <1>8, <2>0
  <2>2. BlockOf(order, nth)' = b /\ width' = w
    BY <1>1, <1>3, <1>6, <1>12 DEF BlockOf
  <2>3. /\ Reached' = b + w /\ Stored' = b + w /\ Got' = (b + w) - addr
    BY <1>1, <1>3, <1>5, <1>6, <2>1, <2>2 DEF Reached, Stored, Got
  <2>4. GoodCommand(order)'
    BY <1>1, <1>3, <1>4, <1>12 DEF GoodCommand, Whole
  <2>5. (nth \in 1 .. Cycles(order))' /\ (nth # Cycles(order))'
    BY <1>1, <1>3, <1>4, <1>12, <2>1 DEF Cycles
  <2>6. o.rw = "r" => so_far' = [i \in 1 .. Got' |-> wb_ram[(addr + i) - 1]]
    BY <1>8, <1>11, <2>1, <2>3
  <2> QED BY <1>1, <1>3, <1>5, <1>10, <2>1, <2>3, <2>4, <2>5, <2>6 DEF Progress
<1> QED BY <1>14, <1>15, <1>16, <1>17 DEF WbInv

(* A call.                                                                 *)
LEMMA CallStep ==
  ASSUME WbInv, init_wb_write \/ init_wb_read PROVE WbInv'
<1>1. PICK c : init_wb(c) /\ GoodCommand(c)
  <2>1. CASE init_wb_write
    <3>1. PICK w \in WbWrites :
            init_wb([rw |-> "w", addr |-> w[1], data |-> w[2], length |-> Len(w[2])])
      BY <2>1 DEF init_wb_write
    <3>2. w[1] \in Nat /\ w[2] \in Seq(Int) /\ Len(w[2]) \in Nat \ {0} /\ w[1] + Len(w[2]) <= WbSize
      BY WbAssumption
    <3>3. PICK c : c = [rw |-> "w", addr |-> w[1], data |-> w[2], length |-> Len(w[2])]
      OBVIOUS
    <3>4. init_wb(c) /\ Whole(c.addr, c.length)
      BY <3>1, <3>3 DEF init_wb
    <3>5. GoodCommand(c)
      BY <3>2, <3>3, <3>4 DEF GoodCommand
    <3> QED BY <3>4, <3>5
  <2>2. CASE init_wb_read
    <3>1. PICK r \in WbReads :
            init_wb([rw |-> "r", addr |-> r[1], data |-> << >>, length |-> r[2]])
      BY <2>2 DEF init_wb_read
    <3>2. r[1] \in Nat /\ r[2] \in Nat \ {0} /\ r[1] + r[2] <= WbSize
      BY WbAssumption
    <3>3. PICK c : c = [rw |-> "r", addr |-> r[1], data |-> << >>, length |-> r[2]]
      OBVIOUS
    <3>4. init_wb(c) /\ Whole(c.addr, c.length)
      BY <3>1, <3>3 DEF init_wb
    <3>5. GoodCommand(c)
      BY <3>2, <3>3, <3>4 DEF GoodCommand
    <3> QED BY <3>4, <3>5
  <2> QED BY <2>1, <2>2
<1>2. /\ wb_commands' = Append(wb_commands, c) /\ wb_wanted' = Done(wb_wanted, c)
      /\ UNCHANGED <<shape, latency, wb_data, order, nth, wb_pc, so_far, cyc, stb, we, adr,
                     dat_o, sel, ack, dat_i, wb_wait, wb_ram, served, asked>>
  BY <1>1 DEF init_wb, wbParams, wbRamVars
<1>3. WbTypes /\ Hand /\ ToCome
  BY DEF WbInv
<1>4. PICK n \in Nat : n = Len(wb_commands)
  BY <1>3 DEF WbTypes
<1>5. /\ Len(wb_commands') = n + 1 /\ wb_commands'[n + 1] = c
      /\ \A i \in 1 .. n : wb_commands'[i] = wb_commands[i]
  BY <1>2, <1>3, <1>4 DEF WbTypes
<1>6. ww' = ww /\ ws' = ws /\ width' = width
  BY <1>2 DEF width, ww, ws
<1>7. WbTypes'
  <2>1. c \in [rw : {"r", "w"}, addr : Nat, data : Seq(Int), length : Nat \ {0}]
    BY <1>1 DEF GoodCommand
  <2>2. wb_commands' \in Seq([rw : {"r", "w"}, addr : Nat, data : Seq(Int),
                              length : Nat \ {0}])
    BY <1>2, <1>3, <2>1 DEF WbTypes
  <2>3. ASSUME NEW i \in 1 .. n + 1 PROVE GoodCommand(wb_commands'[i])
    <3>1. i = n + 1 \/ i \in 1 .. n
      OBVIOUS
    <3>2. i \in 1 .. n => GoodCommand(wb_commands[i])
      BY <1>3, <1>4 DEF WbTypes
    <3> QED BY <1>1, <1>5, <3>1, <3>2
  <2>4. \A i \in 1 .. Len(wb_commands') : (GoodCommand(wb_commands[i]))'
    BY <1>5, <1>6, <2>3 DEF GoodCommand, Whole
  <2> QED BY <1>2, <1>3, <2>2, <2>4 DEF WbTypes
<1>8. Hand'
  BY <1>2, <1>3 DEF Hand, NotWaiting
<1>9. wb_pc' # "idle" => Progress'
  <2>1. wb_pc' # "idle" => Progress
    BY <1>2 DEF WbInv
  <2> QED BY <1>2, <2>1
      DEF Progress, Signals, Stored, Reached, Got, BlockOf, Cycles, Sel, BusLanes, FirstLane,
          LastLane, ByteAt, GoodCommand, Whole, width, ww, ws
<1>10. ToCome'
  <2>1. PICK s \in [0 .. n -> WbStates] :
          /\ s[0] = Soon /\ s[n] = wb_wanted
          /\ \A i \in 1 .. n : s[i] = Done(s[i - 1], wb_commands[i])
    BY <1>3, <1>4 DEF ToCome
  <2> DEFINE t == [i \in 0 .. n + 1 |-> IF i = n + 1 THEN Done(wb_wanted, c) ELSE s[i]]
  <2>2. Done(wb_wanted, c) \in WbStates
    <3>1. wb_wanted \in WbStates
      BY <2>1
    <3> QED BY <1>1, <3>1, DoneType
  <2>3. t \in [0 .. n + 1 -> WbStates]
    BY <2>1, <2>2
  <2>4. t[0] = Soon'
    <3>1. Soon' = Soon
      BY <1>2 DEF Soon, Here
    <3> QED BY <2>1, <3>1
  <2>5. t[n + 1] = wb_wanted'
    BY <1>2
  <2>6. ASSUME NEW i \in 1 .. n + 1 PROVE t[i] = Done(t[i - 1], wb_commands'[i])
    <3>1. CASE i = n + 1
      <4>1. i - 1 = n /\ n \in 0 .. n + 1 /\ n # n + 1
        BY <3>1
      <4>2. t[i - 1] = s[n]
        BY <4>1
      <4>3. t[i] = Done(wb_wanted, c)
        BY <3>1
      <4> QED BY <1>5, <2>1, <3>1, <4>2, <4>3
    <3>2. CASE i # n + 1
      <4>1. i \in 1 .. n /\ i - 1 \in 0 .. n + 1 /\ i - 1 # n + 1
        BY <3>2
      <4>2. t[i] = s[i] /\ t[i - 1] = s[i - 1]
        BY <3>2, <4>1
      <4> QED BY <1>5, <2>1, <4>1, <4>2
    <3> QED BY <3>1, <3>2
  <2> HIDE DEF t
  <2> QED BY <1>5, <2>3, <2>4, <2>5, <2>6 DEF ToCome
<1> QED BY <1>7, <1>8, <1>9, <1>10 DEF WbInv

(* The invariant at the start.                                             *)
LEMMA WbStart == WbInit => WbInv
<1>0. SUFFICES ASSUME WbInit PROVE WbInv
  OBVIOUS
<1>1. WbSize \in Nat /\ wb_ram = [a \in 0 .. WbSize - 1 |-> 0] /\ wb_commands = << >>
      /\ wb_data = << >> /\ wb_pc = "idle" /\ wb_wanted = [ram |-> wb_ram, reads |-> << >>]
  BY <1>0, WbAssumption DEF WbInit
<1>2. WbTypes
  BY <1>0, <1>1 DEF WbInit, WbTypes
<1>3. Hand
  <2>1. cyc = (wb_pc # "idle") /\ stb = (wb_pc = "wait") /\ ~ack /\ ack \in BOOLEAN
    BY <1>0 DEF WbInit
  <2> QED BY <1>0, <2>1 DEF WbInit, Hand, NotWaiting
<1>4. ToCome
  <2>1. Soon = wb_wanted /\ wb_wanted \in WbStates
    BY <1>1, <1>2 DEF Soon, Here, WbStates, WbTypes
  <2>2. PICK s : s = [i \in 0 .. 0 |-> Soon]
    OBVIOUS
  <2>3. s \in [0 .. 0 -> WbStates] /\ s[0] = Soon
    BY <2>1, <2>2
  <2>4. Len(wb_commands) = 0
    BY <1>1
  <2> QED BY <2>1, <2>3, <2>4 DEF ToCome
<1> QED BY <1>1, <1>2, <1>3, <1>4 DEF WbInv

(* Nothing happens.                                                        *)
LEMMA WbStutter == ASSUME WbInv, UNCHANGED wbVars PROVE WbInv'
<1>1. /\ UNCHANGED <<wb_commands, wb_data, order, nth, wb_pc, so_far, cyc, stb, we, adr,
                     dat_o, sel, asked, ack, dat_i, wb_wait, wb_ram, served, shape, latency,
                     wb_wanted>>
  BY DEF wbVars, wbMaster, wbParams, wbRamVars
<1>2. WbTypes'
  BY <1>1 DEF WbInv, WbTypes, GoodCommand, Whole, ws
<1>3. Hand'
  BY <1>1 DEF WbInv, Hand, NotWaiting
<1>4. wb_pc' # "idle" => Progress'
  <2>1. wb_pc' # "idle" => Progress
    BY <1>1 DEF WbInv
  <2> QED BY <1>1, <2>1
      DEF Progress, Signals, Stored, Reached, Got, BlockOf, Cycles, Sel, BusLanes, FirstLane,
          LastLane, ByteAt, GoodCommand, Whole, width, ww, ws
<1>5. ToCome'
  <2>1. Soon' = Soon
    BY <1>1 DEF Soon, Here
  <2> QED BY <1>1, <2>1, SameFuture DEF WbInv
<1> QED BY <1>2, <1>3, <1>4, <1>5 DEF WbInv

(* The master that is idle has had every cycle it asked for, and the RAM   *)
(* and the reads are what the commands were for: wb.py:69-70,139-310.      *)
THEOREM WbAsCommandedHolds == WbSpec => []WbAsCommanded
<1>1. WbInv /\ [WbNext]_wbVars => WbInv'
  <2>0. SUFFICES ASSUME WbInv, [WbNext]_wbVars PROVE WbInv'
    OBVIOUS
  <2>1. CASE UNCHANGED wbVars
    BY <2>0, <2>1, WbStutter
  <2>2. CASE init_wb_write \/ init_wb_read
    BY <2>0, <2>2, CallStep
  <2>3. CASE Edge \/ EdgeOfMaster \/ Answers
    <3>1. MasterGoes \/ BothWait \/ RamAnswers
      BY <2>0, <2>3, EdgeKinds DEF WbInv
    <3>2. CASE MasterGoes
      <4>1. MasterIdles \/ MasterStarts \/ MasterTakes \/ MasterGoesOn
        BY <3>2 DEF MasterGoes
      <4> QED BY <2>0, <3>2, <4>1, IdleStep, StartStep, TakeStep, GoOnStep
    <3> QED BY <2>0, <3>1, <3>2, WaitStep, AnswerStep
  <2> QED BY <2>0, <2>1, <2>2, <2>3 DEF WbNext
<1>2. WbInv => WbAsCommanded
  <2>0. SUFFICES ASSUME WbInv, wb_idle
                 PROVE  served = asked /\ wb_ram = wb_wanted.ram /\ wb_data = wb_wanted.reads
    BY DEF WbAsCommanded
  <2>1. wb_pc = "idle" /\ Len(wb_commands) = 0
    BY <2>0 DEF WbInv, Hand, wb_idle
  <2>2. wb_wanted = Here
    BY <2>0, <2>1 DEF WbInv, ToCome, Soon
  <2>3. asked = served
    BY <2>0, <2>1 DEF WbInv, Hand
  <2> QED BY <2>2, <2>3 DEF Here
<1> QED BY <1>1, <1>2, WbStart, PTL DEF WbSpec
-----------------------------------------------------------------------------
(* AxilBus.                                                                *)

(* The word of the bus that a byte is in, and that the word k of a call is *)
(* in; the values that are seen.                                           *)
Aligned(a) == (a \div BusBytes) * BusBytes
Slot(addr, k) == SpanBlock(BusBytes, addr, k)
Memories == [0 .. RamSize - 1 -> Int]
WriteWords == UNION {[lanes -> Int] : lanes \in SUBSET Int}
ReadWords == [0 .. BusBytes - 1 -> Int]
ReadCalls == [addr : Nat, length : Nat \ {0}, k : Nat \ {0}, data : Seq(Int),
              seen : Seq(SUBSET Int)]

AxTypes ==
  /\ int_write_addr_queue \in Seq(Nat) /\ int_write_data_queue \in Seq(WriteWords)
  /\ int_write_resp_queue \in Seq({"OKAY"}) /\ write_resp_queue \in Seq({"OKAY"})
  /\ int_write_resp_command_queue \in Seq(Nat \ {0})
  /\ int_read_addr_queue \in Seq(Nat) /\ int_read_resp_queue \in Seq(ReadWords)
  /\ int_read_resp_command_queue \in Seq(ReadCalls)
  /\ read_data_ops \in Seq([data : Seq(Int), seen : Seq(SUBSET Int)])
  /\ in_flight_operations \in Int /\ ops_made \in Nat
  /\ wpc \in {"aw", "latency", "w", "b"} /\ waddr \in Nat
  /\ rpc \in {"ar", "latency", "r"} /\ raddr \in Nat /\ (rpc = "r" => rdata \in ReadWords)
  /\ \E q \in Nat : raddr = BusBytes * q
  /\ pos \in Nat /\ ram \in Memories /\ wanted_ram \in Memories /\ moved \in BOOLEAN

(* Every call is answered or in flight.                                    *)
Answered ==
  /\ in_flight_operations = Len(int_write_resp_command_queue) + Len(int_read_resp_command_queue)
  /\ Len(write_resp_queue) + Len(read_data_ops) + in_flight_operations = ops_made

(* The words of the writes that are still to be stored: the RAM has the    *)
(* address of the first when it waits for its bytes.                       *)
HasAddress == IF wpc \in {"latency", "w"} THEN 1 ELSE 0
WriteAt(i) == IF i <= HasAddress THEN waddr ELSE Aligned(int_write_addr_queue[i - HasAddress])
Owed == Len(int_write_data_queue) + (IF wpc = "b" THEN 1 ELSE 0) + Len(int_write_resp_queue)
AddsUp(q, total) ==
  \E t \in [0 .. Len(q) -> Int] :
    t[0] = 0 /\ t[Len(q)] = total /\ \A i \in 1 .. Len(q) : t[i] = t[i - 1] + q[i]
PutWord(m, at, word) ==
  [a \in DOMAIN m |-> IF a - at \in DOMAIN word THEN word[a - at] ELSE m[a]]

WordsOwed ==
  /\ Len(int_write_data_queue) = Len(int_write_addr_queue) + HasAddress
  /\ \A i \in 1 .. Len(int_write_data_queue) :
       WriteAt(i) \in Nat /\ WriteAt(i) + BusBytes <= RamSize
  /\ AddsUp(int_write_resp_command_queue, Owed)

(* Unless a read came between, the words lead to the RAM that is wanted.   *)
WordsLead ==
  ~moved =>
    /\ wpc = "w" => pos = waddr
    /\ \E s \in [0 .. Len(int_write_data_queue) -> Memories] :
         /\ s[0] = ram /\ s[Len(int_write_data_queue)] = wanted_ram
         /\ \A i \in 1 .. Len(int_write_data_queue) :
              s[i] = PutWord(s[i - 1], WriteAt(i), int_write_data_queue[i])

(* The reads: how much of a call is collected and left, and whether a word *)
(* is right for it.                                                        *)
WordsLeft(c) == cycles(c.addr, c.length) - c.k + 1
Collected(c) == IF c.k = 1 THEN 0 ELSE Slot(c.addr, c.k) - c.addr
GoodCall(c, m) ==
  /\ c.addr + c.length <= RamSize /\ c.k \in 1 .. cycles(c.addr, c.length)
  /\ Len(c.seen) = c.length /\ Len(c.data) = Collected(c)
  /\ \A i \in 1 .. c.length : m[(c.addr + i) - 1] \in c.seen[i]
  /\ \A i \in 1 .. Len(c.data) : c.data[i] \in c.seen[i]

Serves(word, c, k) ==
  \A i \in 1 .. c.length : (c.addr + i) - 1 - Slot(c.addr, k) \in 0 .. BusBytes - 1 =>
    word[(c.addr + i) - 1 - Slot(c.addr, k)] \in c.seen[i]

(* The words asked for, the oldest first: answers, the one in the RAM,     *)
(* addresses.                                                              *)
Reading == IF rpc = "ar" THEN 0 ELSE 1
Asked == Len(int_read_resp_queue) + Reading + Len(int_read_addr_queue)
Fits(p, c, k) ==
  /\ p <= Len(int_read_resp_queue) => Serves(int_read_resp_queue[p], c, k)
  /\ p = Len(int_read_resp_queue) + 1 /\ rpc = "r" => Serves(rdata, c, k)
  /\ p = Len(int_read_resp_queue) + 1 /\ rpc = "latency" => raddr = Slot(c.addr, k)
  /\ p > Len(int_read_resp_queue) + Reading =>
       Aligned(int_read_addr_queue[p - (Len(int_read_resp_queue) + Reading)]) = Slot(c.addr, k)

WordsRead ==
  /\ \A i \in 1 .. Len(int_read_resp_command_queue) : GoodCall(int_read_resp_command_queue[i], ram)
  /\ \E t \in [0 .. Len(int_read_resp_command_queue) -> Nat] :
       /\ t[0] = 0 /\ t[Len(int_read_resp_command_queue)] = Asked
       /\ \A i, j \in 0 .. Len(int_read_resp_command_queue) : i < j => t[i] < t[j]
       /\ \A i \in 1 .. Len(int_read_resp_command_queue) :
            /\ t[i] = t[i - 1] + WordsLeft(int_read_resp_command_queue[i])
            /\ \A p \in t[i - 1] + 1 .. t[i] :
                 Fits(p, int_read_resp_command_queue[i],
                      int_read_resp_command_queue[i].k + (p - t[i - 1] - 1))

DataRight ==
  \A i \in 1 .. Len(read_data_ops) :
    /\ Len(read_data_ops[i].data) = Len(read_data_ops[i].seen)
    /\ \A j \in 1 .. Len(read_data_ops[i].data) :
         read_data_ops[i].data[j] \in read_data_ops[i].seen[j]

AxInv == AxTypes /\ Answered /\ WordsOwed /\ WordsLead /\ WordsRead /\ DataRight

(* The sizes.                                                              *)
LEMMA AxShape ==
  /\ BusBytes \in Nat \ {0} /\ RamSize \in Nat \ {0} /\ RamSize % BusBytes = 0
BY AxilAssumption

(* A call has a word.                                                      *)
LEMMA CallWords ==
  ASSUME NEW addr \in Nat, NEW len \in Nat \ {0}
  PROVE  cycles(addr, len) \in Nat \ {0} /\ cycles(addr, len) = SpanCycles(BusBytes, addr, len)
<1>1. PICK b \in Nat \ {0} : b = BusBytes
  BY AxShape
<1>2. PICK a \in Nat : a = addr % b
  BY <1>1
<1>3. cycles(addr, len) = (len + b - 1 + a) \div b
  BY <1>1, <1>2 DEF cycles
<1>4. PICK t \in Nat : t = len + b - 1 + a /\ t >= b
  OBVIOUS
<1>5. t \div b \in Nat /\ t < b * (t \div b) + b
  OBVIOUS
<1>6. t \div b # 0
  BY <1>4, <1>5
<1>7. cycles(addr, len) \in Nat \ {0}
  BY <1>3, <1>4, <1>5, <1>6
<1>8. cycles(addr, len) = SpanCycles(BusBytes, addr, len)
  BY <1>1, <1>2, <1>3 DEF SpanCycles
<1> QED BY <1>7, <1>8

(* Every word of the bus in the RAM is found there.                        *)
LEMMA BlockFits ==
  ASSUME NEW q \in Int, NEW b \in Nat, b = BusBytes * q, b < RamSize
  PROVE  b + BusBytes <= RamSize /\ b % RamSize = b
<1>1. PICK w, size \in Nat \ {0} : w = BusBytes /\ size = RamSize /\ size % w = 0
  BY AxShape
<1>2. PICK m \in Int : size = w * m
  <2>1. size \div w \in Int /\ size = w * (size \div w) + (size % w)
    OBVIOUS
  <2>2. PICK m \in Int : m = size \div w
    BY <2>1
  <2>3. size = w * m
    BY <1>1, <2>1, <2>2
  <2> QED BY <2>3
<1>3. \A u, v \in Int : u <= v => w * u <= w * v
  OBVIOUS
<1>4. ~(m <= q)
  BY <1>1, <1>2, <1>3
<1>5. m >= q + 1 /\ q + 1 \in Int
  BY <1>4
<1>6. w * (q + 1) <= w * m
  BY <1>3, <1>5
<1>7. w * (q + 1) = w * q + w
  OBVIOUS
<1>8. b + w <= size
  BY <1>1, <1>2, <1>6, <1>7
<1>9. b % size = b
  BY <1>1
<1> QED BY <1>1, <1>8, <1>9

(* What a word of a call is for.                                           *)
LEMMA WordSpan ==
  ASSUME NEW addr \in Nat, NEW len \in Nat \ {0}, NEW k \in 1 .. cycles(addr, len)
  PROVE  /\ Slot(addr, k) \in Nat
         /\ Slot(addr, k) < addr + len /\ addr < Slot(addr, k) + BusBytes
         /\ start(addr, k) = IF addr > Slot(addr, k) THEN addr - Slot(addr, k) ELSE 0
         /\ stop(addr, len, k) = IF addr + len < Slot(addr, k) + BusBytes
                                 THEN addr + len - Slot(addr, k) ELSE BusBytes
         /\ k = cycles(addr, len) <=> addr + len <= Slot(addr, k) + BusBytes
         /\ k = 1 => Slot(addr, k) <= addr /\ addr % BusBytes = addr - Slot(addr, k)
         /\ k # 1 => addr < Slot(addr, k)
         /\ Slot(addr, k + 1) = Slot(addr, k) + BusBytes
         /\ WordAddr(addr, k) \in Nat /\ Aligned(WordAddr(addr, k)) = Slot(addr, k)
<1>1. PICK w \in Nat \ {0} : w = BusBytes
  BY AxShape
<1>2. PICK n \in Nat \ {0} : n = cycles(addr, len) /\ n = SpanCycles(w, addr, len)
  BY <1>1, CallWords
<1>3. PICK b : b = Slot(addr, k)
  OBVIOUS
<1>4. b = SpanBlock(w, addr, k)
  BY <1>1, <1>3 DEF Slot
<1>5. k \in 1 .. SpanCycles(w, addr, len)
  BY <1>2
<1>6. /\ b \in Nat
      /\ b < addr + len /\ addr < b + w
      /\ k = 1 => b <= addr /\ addr % w = addr - b
      /\ k # 1 => addr < b
      /\ k = n <=> addr + len <= b + w
      /\ k = n => (addr + len - 1) % w = addr + len - 1 - b
  BY <1>2, <1>4, <1>5, Spans
<1>7. start(addr, k) = IF k = 1 THEN addr % w ELSE 0
  BY <1>1 DEF start
<1>8. stop(addr, len, k) = IF k = n THEN ((addr + len - 1) % w) + 1 ELSE w
  BY <1>1, <1>2 DEF stop
<1>9. start(addr, k) = IF addr > b THEN addr - b ELSE 0
  BY <1>6, <1>7
<1>10. stop(addr, len, k) = IF addr + len < b + w THEN addr + len - b ELSE w
  BY <1>6, <1>8
<1>11. PICK q \in Nat : q = addr \div w
  OBVIOUS
<1>12. PICK p \in Int : p = q + (k - 1)
  OBVIOUS
<1>13. b = w * p
  BY <1>4, <1>11, <1>12 DEF SpanBlock
<1>14. Slot(addr, k + 1) = b + w
  <2>1. Slot(addr, k + 1) = w * (q + ((k + 1) - 1))
    BY <1>1, <1>11 DEF Slot, SpanBlock
  <2>2. q + ((k + 1) - 1) = p + 1
    BY <1>12
  <2>3. w * (p + 1) = w * p + w
    OBVIOUS
  <2> QED BY <1>13, <2>1, <2>2, <2>3
<1>15. PICK s \in 0 .. w - 1 : s = start(addr, k)
  BY <1>6, <1>9
<1>16. WordAddr(addr, k) = w * p + s
  <2>1. WordAddr(addr, k) = ((q * w) + s) + (k - 1) * w
    BY <1>1, <1>11, <1>15 DEF WordAddr
  <2>2. w * p = w * q + w * (k - 1) /\ q * w = w * q /\ (k - 1) * w = w * (k - 1)
    <3>1. \A x, y \in Int : w * (x + y) = w * x + w * y /\ x * w = w * x
      OBVIOUS
    <3>2. k - 1 \in Int
      OBVIOUS
    <3> QED BY <1>12, <3>1, <3>2
  <2>3. w * q \in Int /\ w * (k - 1) \in Int
    OBVIOUS
  <2> QED BY <2>1, <2>2, <2>3
<1>17. WordAddr(addr, k) \in Nat /\ Aligned(WordAddr(addr, k)) = b
  <2>1. (w * p + s) \div w = p
    BY Quotient
  <2>2. p * w = w * p
    OBVIOUS
  <2>3. Aligned(WordAddr(addr, k)) = p * w
    BY <1>1, <1>16, <2>1 DEF Aligned
  <2>4. b + s \in Nat
    BY <1>6
  <2> QED BY <1>13, <1>16, <2>2, <2>3, <2>4
<1> QED BY <1>1, <1>2, <1>3, <1>6, <1>9, <1>10, <1>14, <1>17

(* A word of a call is in the RAM.                                         *)
LEMMA WordInside ==
  ASSUME NEW addr \in Nat, NEW len \in Nat \ {0}, NEW k \in 1 .. cycles(addr, len),
         addr + len <= RamSize
  PROVE  Slot(addr, k) + BusBytes <= RamSize /\ Slot(addr, k) % RamSize = Slot(addr, k)
<1>1. PICK q \in Int : q = (addr \div BusBytes) + (k - 1)
  <2>1. PICK w \in Nat \ {0} : w = BusBytes
    BY AxShape
  <2>2. (addr \div w) + (k - 1) \in Int
    OBVIOUS
  <2> QED BY <2>1, <2>2
<1>2. PICK b \in Nat : b = Slot(addr, k) /\ b < addr + len
  BY WordSpan
<1>3. b = BusBytes * q
  BY <1>1, <1>2 DEF Slot, SpanBlock
<1>4. b < RamSize
  BY <1>2, AxShape
<1> QED BY <1>2, <1>3, <1>4, BlockFits

(* The address of a bus word.                                              *)
LEMMA AlignedType == ASSUME NEW a \in Nat PROVE Aligned(a) \in Nat
<1>1. PICK w \in Nat \ {0} : w = BusBytes
  BY AxShape
<1>2. PICK q \in Nat : q = a \div w
  OBVIOUS
<1>3. q * w \in Nat
  OBVIOUS
<1> QED BY <1>1, <1>2, <1>3 DEF Aligned

LEMMA AlignedMultiple == ASSUME NEW a \in Nat PROVE \E q \in Nat : Aligned(a) = BusBytes * q
<1>1. PICK w \in Nat \ {0} : w = BusBytes
  BY AxShape
<1>2. PICK q \in Nat : q = a \div w
  OBVIOUS
<1>3. q * w = w * q
  OBVIOUS
<1> QED BY <1>1, <1>2, <1>3 DEF Aligned

(* It stays one when it is taken modulo the RAM.                           *)
LEMMA PartOfRam ==
  ASSUME NEW w \in Nat \ {0}, w = BusBytes, NEW size \in Nat \ {0}, size = RamSize,
         NEW a \in Nat, NEW q \in Nat, a = w * q
  PROVE  a % size \in Nat /\ a % size < size /\ \E f \in Int : a % size = w * f
<1>1. PICK m \in Int : size = w * m
  <2>1. size % w = 0
    BY AxShape
  <2>2. size \div w \in Int /\ size = w * (size \div w) + (size % w)
    BY Remainder
  <2>3. PICK m \in Int : m = size \div w
    BY <2>2
  <2>4. size = w * m
    BY <2>1, <2>2, <2>3
  <2> QED BY <2>4
<1>2. PICK d \in Int, e \in Nat : d = a \div size /\ e = a % size /\ e < size /\ a = size * d + e
  <2>1. a \in Int
    OBVIOUS
  <2>2. a \div size \in Int /\ a % size \in 0 .. size - 1 /\ a = size * (a \div size) + (a % size)
    BY <2>1, Remainder
  <2>3. PICK d \in Int : d = a \div size
    BY <2>2
  <2>4. PICK e \in Nat : e = a % size /\ e < size
    BY <2>2
  <2> QED BY <2>2, <2>3, <2>4
<1>3. size * d = w * (m * d) /\ m * d \in Int
  <2>1. \A x, y, z \in Int : (x * y) * z = x * (y * z) /\ y * z \in Int
    OBVIOUS
  <2> QED BY <1>1, <2>1
<1>4. PICK g \in Int : g = m * d
  BY <1>3
<1>5. w * (q - g) = w * q - w * g
  <2>1. \A x, y \in Int : w * (x - y) = w * x - w * y
    OBVIOUS
  <2> QED BY <2>1
<1>6. e = w * (q - g) /\ q - g \in Int
  <2>1. PICK x, y \in Int : x = w * q /\ y = w * g
    OBVIOUS
  <2>2. a = y + e
    BY <1>2, <1>3, <1>4, <2>1
  <2>3. e = x - y
    BY <2>1, <2>2
  <2> QED BY <1>5, <2>1, <2>3
<1> QED BY <1>2, <1>6

(* A call collects less than its length before its last word.              *)
LEMMA CollectedSpan ==
  ASSUME NEW c, c.addr \in Nat, c.length \in Nat \ {0}, c.k \in 1 .. cycles(c.addr, c.length)
  PROVE  /\ Collected(c) \in Nat /\ Collected(c) < c.length
         /\ Collected(c) = (Slot(c.addr, c.k) + start(c.addr, c.k)) - c.addr
<1>1. PICK w \in Nat \ {0} : w = BusBytes
  BY AxShape
<1>0. PICK addr \in Nat, len \in Nat \ {0} : addr = c.addr /\ len = c.length
  OBVIOUS
<1>2. PICK k \in 1 .. cycles(addr, len) : k = c.k
  BY <1>0
<1>3. PICK b : b = Slot(addr, k)
  OBVIOUS
<1>4. /\ b \in Nat /\ b < addr + len
      /\ start(addr, k) = IF addr > b THEN addr - b ELSE 0
      /\ k = 1 => b <= addr
      /\ k # 1 => addr < b
  BY <1>3, WordSpan
<1>5. Collected(c) = IF k = 1 THEN 0 ELSE b - addr
  BY <1>0, <1>2, <1>3 DEF Collected
<1> QED BY <1>0, <1>2, <1>3, <1>4, <1>5

(* The word k of a write holds its bytes in the word of the bus.           *)
LEMMA WordBytes ==
  ASSUME NEW addr \in Nat, NEW bytes \in Seq(Int), Len(bytes) \in Nat \ {0},
         NEW k \in 1 .. cycles(addr, Len(bytes))
  PROVE  /\ Word(addr, bytes, k) \in WriteWords
         /\ \A a \in Nat :
              /\ a - Slot(addr, k) \in DOMAIN Word(addr, bytes, k)
                   <=> /\ a \in addr .. addr + Len(bytes) - 1
                       /\ Slot(addr, k) <= a /\ a < Slot(addr, k) + BusBytes
              /\ a - Slot(addr, k) \in DOMAIN Word(addr, bytes, k) =>
                   Word(addr, bytes, k)[a - Slot(addr, k)] = bytes[(a - addr) + 1]
<1>1. PICK w \in Nat \ {0} : w = BusBytes
  BY AxShape
<1>2. PICK len \in Nat \ {0} : len = Len(bytes)
  OBVIOUS
<1>3. k \in 1 .. cycles(addr, len)
  BY <1>2
<1>4. PICK b \in Nat : b = Slot(addr, k)
  BY <1>3, WordSpan
<1>5. PICK l, h \in Int :
        /\ l = start(addr, k) /\ h = stop(addr, len, k) - 1
        /\ l = IF addr > b THEN addr - b ELSE 0
        /\ h = (IF addr + len < b + w THEN addr + len - b ELSE w) - 1
  <2>1. /\ start(addr, k) = IF addr > b THEN addr - b ELSE 0
        /\ stop(addr, len, k) = IF addr + len < b + w THEN addr + len - b ELSE w
    BY <1>1, <1>3, <1>4, WordSpan
  <2>2. PICK l \in Int : l = IF addr > b THEN addr - b ELSE 0
    <3>1. (IF addr > b THEN addr - b ELSE 0) \in Int
      OBVIOUS
    <3> QED BY <3>1, Zenon
  <2>3. PICK h \in Int : h = (IF addr + len < b + w THEN addr + len - b ELSE w) - 1
    <3>1. ((IF addr + len < b + w THEN addr + len - b ELSE w) - 1) \in Int
      OBVIOUS
    <3> QED BY <3>1, Zenon
  <2> QED BY <2>1, <2>2, <2>3
<1>6. \A j \in l .. h : (k - 1) * BusBytes + j - (addr % BusBytes) + 1 = (b + j) - addr + 1
  <2>1. PICK q \in Nat, r \in Nat : q = addr \div w /\ r = addr % w /\ addr = w * q + r
    <3>1. addr \div w \in Nat /\ addr % w \in Nat
      OBVIOUS
    <3>2. addr = w * (addr \div w) + (addr % w)
      <4>1. addr \in Int
        OBVIOUS
      <4> QED BY <4>1, Remainder
    <3> QED BY <3>1, <3>2
  <2>2. b = w * (q + (k - 1))
    BY <1>1, <1>4, <2>1 DEF Slot, SpanBlock
  <2>3. w * (q + (k - 1)) = w * q + w * (k - 1) /\ (k - 1) * w = w * (k - 1)
    <3>1. \A x, y \in Int : w * (x + y) = w * x + w * y /\ x * w = w * x
      OBVIOUS
    <3>2. k - 1 \in Int
      OBVIOUS
    <3> QED BY <3>1, <3>2
  <2>4. PICK m, n \in Int : m = (k - 1) * w /\ n = w * q
    OBVIOUS
  <2>5. b = n + m /\ addr = n + r
    BY <2>1, <2>2, <2>3, <2>4
  <2>6. \A j \in l .. h : m + j - r + 1 = (b + j) - addr + 1
    BY <2>5
  <2> QED BY <1>1, <2>1, <2>4, <2>6
<1>7. \A j \in l .. h : (b + j) - addr + 1 \in 1 .. len
  BY <1>5
<1>8. Word(addr, bytes, k) = [j \in l .. h |-> bytes[(b + j) - addr + 1]]
  <2>1. stop(addr, Len(bytes), k) - 1 = h
    BY <1>2, <1>5
  <2>2. DOMAIN bytes = 1 .. len
    BY <1>2
  <2> QED BY <1>5, <1>6, <1>7, <2>1, <2>2 DEF Word
<1>9. Word(addr, bytes, k) \in WriteWords
  <2>1. ASSUME NEW j \in l .. h PROVE bytes[(b + j) - addr + 1] \in Int
    <3>1. PICK i \in 1 .. len : i = (b + j) - addr + 1
      BY <1>7
    <3>2. bytes[i] \in Int
      BY <1>2
    <3> QED BY <3>1, <3>2
  <2>2. Word(addr, bytes, k) \in [l .. h -> Int]
    BY <1>8, <2>1
  <2>3. l .. h \in SUBSET Int
    OBVIOUS
  <2> QED BY <2>2, <2>3, Zenon DEF WriteWords
<1>10. ASSUME NEW a \in Nat
       PROVE  /\ a - b \in DOMAIN Word(addr, bytes, k)
                   <=> a \in addr .. addr + len - 1 /\ b <= a /\ a < b + w
              /\ a - b \in DOMAIN Word(addr, bytes, k) =>
                   Word(addr, bytes, k)[a - b] = bytes[(a - addr) + 1]
  <2>1. DOMAIN Word(addr, bytes, k) = l .. h
    BY <1>8
  <2>2. a - b \in l .. h <=> a \in addr .. addr + len - 1 /\ b <= a /\ a < b + w
    BY <1>5
  <2>3. (b + (a - b)) - addr + 1 = (a - addr) + 1
    OBVIOUS
  <2>4. a - b \in l .. h => Word(addr, bytes, k)[a - b] = bytes[(b + (a - b)) - addr + 1]
    BY <1>8
  <2> QED BY <2>1, <2>2, <2>3, <2>4
<1> QED BY <1>1, <1>2, <1>4, <1>9, <1>10

(* A write up to the byte h.                                               *)
UpTo(m, addr, bytes, h) ==
  [a \in DOMAIN m |-> IF a \in addr .. addr + Len(bytes) - 1 /\ a < h
                      THEN bytes[a - addr + 1] ELSE m[a]]

LEMMA UpToSteps ==
  ASSUME NEW m \in Memories, NEW addr \in Nat, NEW bytes \in Seq(Int), Len(bytes) \in Nat \ {0},
         addr + Len(bytes) <= RamSize
  PROVE  /\ \A h \in Nat : UpTo(m, addr, bytes, h) \in Memories
         /\ \A h \in Nat : h <= addr => UpTo(m, addr, bytes, h) = m
         /\ \A h \in Nat : h >= addr + Len(bytes) =>
              UpTo(m, addr, bytes, h) = Changed(m, addr, bytes)
         /\ \A k \in 1 .. cycles(addr, Len(bytes)) :
              UpTo(m, addr, bytes, Slot(addr, k) + BusBytes)
                = PutWord(UpTo(m, addr, bytes, Slot(addr, k)), Slot(addr, k), Word(addr, bytes, k))
<1>1. PICK len \in Nat \ {0} : len = Len(bytes)
  OBVIOUS
<1>2. DOMAIN m = 0 .. RamSize - 1 /\ RamSize \in Nat \ {0}
  BY AxShape DEF Memories
<1>3. ASSUME NEW h \in Nat PROVE UpTo(m, addr, bytes, h) \in Memories
  <2>1. ASSUME NEW a \in 0 .. RamSize - 1, a \in addr .. addr + len - 1
        PROVE  bytes[a - addr + 1] \in Int
    <3>1. a - addr + 1 \in 1 .. len
      BY <2>1
    <3> QED BY <1>1, <3>1
  <2>2. \A a \in 0 .. RamSize - 1 : m[a] \in Int
    BY DEF Memories
  <2> QED BY <1>1, <1>2, <2>1, <2>2 DEF UpTo, Memories
<1>4. ASSUME NEW h \in Nat, h <= addr PROVE UpTo(m, addr, bytes, h) = m
  <2>1. \A a \in DOMAIN m : ~(a \in addr .. addr + len - 1 /\ a < h)
    BY <1>2, <1>4
  <2>2. m = [a \in DOMAIN m |-> m[a]]
    BY DEF Memories
  <2> QED BY <1>1, <2>1, <2>2 DEF UpTo
<1>5. ASSUME NEW h \in Nat, h >= addr + Len(bytes)
      PROVE  UpTo(m, addr, bytes, h) = Changed(m, addr, bytes)
  <2>1. \A a \in DOMAIN m : a \in addr .. addr + len - 1 => a < h
    BY <1>1, <1>2, <1>5
  <2> QED BY <1>1, <2>1 DEF UpTo, Changed
<1>6. ASSUME NEW k \in 1 .. cycles(addr, Len(bytes))
      PROVE  UpTo(m, addr, bytes, Slot(addr, k) + BusBytes)
                = PutWord(UpTo(m, addr, bytes, Slot(addr, k)), Slot(addr, k), Word(addr, bytes, k))
  <2>1. PICK w \in Nat \ {0} : w = BusBytes
    BY AxShape
  <2>2. PICK b \in Nat : b = Slot(addr, k)
    BY <1>1, WordSpan
  <2>3. PICK v : v = Word(addr, bytes, k)
    OBVIOUS
  <2>0. \A a \in Nat :
          /\ a - Slot(addr, k) \in DOMAIN Word(addr, bytes, k)
               <=> /\ a \in addr .. addr + Len(bytes) - 1
                   /\ Slot(addr, k) <= a /\ a < Slot(addr, k) + BusBytes
          /\ a - Slot(addr, k) \in DOMAIN Word(addr, bytes, k) =>
               Word(addr, bytes, k)[a - Slot(addr, k)] = bytes[(a - addr) + 1]
    BY <1>1, WordBytes
  <2>4. \A a \in Nat : /\ a - b \in DOMAIN v <=> a \in addr .. addr + len - 1 /\ b <= a /\ a < b + w
                       /\ a - b \in DOMAIN v => v[a - b] = bytes[(a - addr) + 1]
    BY <1>1, <2>0, <2>1, <2>2, <2>3
  <2>5. PICK u : u = UpTo(m, addr, bytes, b)
    OBVIOUS
  <2>6. DOMAIN u = 0 .. RamSize - 1
    BY <1>2, <2>5 DEF UpTo
  <2>7. ASSUME NEW a \in 0 .. RamSize - 1
        PROVE  (IF a \in addr .. addr + len - 1 /\ a < b + w THEN bytes[a - addr + 1] ELSE m[a])
                 = IF a - b \in DOMAIN v THEN v[a - b] ELSE u[a]
    <3>1. u[a] = IF a \in addr .. addr + len - 1 /\ a < b THEN bytes[a - addr + 1] ELSE m[a]
      BY <1>1, <1>2, <2>5 DEF UpTo
    <3>2. PICK e \in Nat : e = a
      BY <1>2
    <3>3. /\ e - b \in DOMAIN v <=> e \in addr .. addr + len - 1 /\ b <= e /\ e < b + w
          /\ e - b \in DOMAIN v => v[e - b] = bytes[(e - addr) + 1]
      BY <2>4, Zenon
    <3>4. e < b => e < b + w
      OBVIOUS
    <3>5. CASE e \in addr .. addr + len - 1 /\ b <= e /\ e < b + w
      BY <3>2, <3>3, <3>5
    <3>6. CASE ~(e \in addr .. addr + len - 1 /\ b <= e /\ e < b + w)
      BY <3>1, <3>2, <3>3, <3>4, <3>6
    <3> QED BY <3>5, <3>6
  <2>8. UpTo(m, addr, bytes, b + w)
          = [a \in 0 .. RamSize - 1 |-> IF a \in addr .. addr + len - 1 /\ a < b + w
                                        THEN bytes[a - addr + 1] ELSE m[a]]
    BY <1>1, <1>2 DEF UpTo
  <2>9. PutWord(u, b, v)
          = [a \in 0 .. RamSize - 1 |-> IF a - b \in DOMAIN v THEN v[a - b] ELSE u[a]]
    BY <2>6 DEF PutWord
  <2>10. UpTo(m, addr, bytes, b + w) = PutWord(u, b, v)
    BY <2>7, <2>8, <2>9, Zenon
  <2> QED BY <2>1, <2>2, <2>3, <2>5, <2>10
<1> QED BY <1>3, <1>4, <1>5, <1>6

(* What is stored are bytes.                                               *)
LEMMA PutType ==
  ASSUME NEW m \in Memories, NEW at, NEW word \in WriteWords
  PROVE  PutWord(m, at, word) \in Memories
<1>1. \A x \in DOMAIN word : word[x] \in Int
  BY DEF WriteWords
<1>2. DOMAIN m = 0 .. RamSize - 1 /\ \A a \in 0 .. RamSize - 1 : m[a] \in Int
  BY DEF Memories
<1> QED BY <1>1, <1>2 DEF PutWord, Memories

(* Two sequences joined, element by element.                               *)
JoinsUp(u, n, g, z) ==
  /\ Len(z) = Len(u) + n
  /\ \A i \in 1 .. Len(u) : z[i] = u[i]
  /\ \A i \in 1 .. Len(u) + n : ~(i <= Len(u)) => z[i] = g[i - Len(u)]

LEMMA JoinOf ==
  ASSUME NEW S, NEW u \in Seq(S), NEW n \in Nat, NEW g \in [1 .. n -> S], NEW z,
         IsJoin(u, g, z)
  PROVE  z \in Seq(S) /\ JoinsUp(u, n, g, z)
<1>1. g \in Seq(S) /\ Len(g) = n
  BY SeqOfFunction
<1>2. /\ u \o g \in Seq(S) /\ Len(u \o g) = Len(u) + n
      /\ \A i \in 1 .. Len(u) + n : (u \o g)[i] = IF i <= Len(u) THEN u[i] ELSE g[i - Len(u)]
  BY <1>1, ConcatProperties, Zenon
<1>3. \A i \in 1 .. Len(u) : i \in 1 .. Len(u) + n /\ i <= Len(u)
  OBVIOUS
<1> QED BY <1>2, <1>3 DEF IsJoin, JoinsUp

(* Sums of a queue.                                                        *)
LEMMA AddsUpAppend ==
  ASSUME NEW q \in Seq(Nat \ {0}), NEW n \in Nat \ {0}, NEW total \in Int, AddsUp(q, total)
  PROVE  AddsUp(Append(q, n), total + n)
<1>1. PICK l \in Nat : l = Len(q)
  OBVIOUS
<1>2. PICK t \in [0 .. l -> Int] :
        t[0] = 0 /\ t[l] = total /\ \A i \in 1 .. l : t[i] = t[i - 1] + q[i]
  BY <1>1 DEF AddsUp
<1>3. PICK z \in Seq(Nat \ {0}) :
        /\ z = Append(q, n) /\ Len(z) = l + 1 /\ z[l + 1] = n
        /\ \A i \in 1 .. l : z[i] = q[i]
  BY <1>1
<1> DEFINE u == [i \in 0 .. l + 1 |-> IF i = l + 1 THEN total + n ELSE t[i]]
<1>4. u \in [0 .. l + 1 -> Int] /\ u[0] = 0 /\ u[l + 1] = total + n
  BY <1>2
<1>5. ASSUME NEW i \in 1 .. l + 1 PROVE u[i] = u[i - 1] + z[i]
  <2>1. CASE i = l + 1
    BY <1>2, <1>3, <2>1
  <2>2. CASE i # l + 1
    <3>1. i \in 1 .. l /\ i - 1 \in 0 .. l /\ i - 1 # l + 1
      BY <2>2
    <3>2. u[i] = t[i] /\ u[i - 1] = t[i - 1]
      BY <2>2, <3>1
    <3> QED BY <1>2, <1>3, <3>1, <3>2
  <2> QED BY <2>1, <2>2
<1> HIDE DEF u
<1>6. AddsUp(z, total + n)
  <2>1. PICK e \in Nat : e = l + 1
    OBVIOUS
  <2>2. /\ Len(z) = e /\ u \in [0 .. e -> Int] /\ u[0] = 0 /\ u[e] = total + n
        /\ \A i \in 1 .. e : u[i] = u[i - 1] + z[i]
    BY <1>3, <1>4, <1>5, <2>1, Zenon
  <2> QED BY <2>2, Zenon DEF AddsUp
<1> QED BY <1>3, <1>6

LEMMA AddsUpTail ==
  ASSUME NEW q \in Seq(Nat \ {0}), q # << >>, NEW total \in Int, AddsUp(q, total)
  PROVE  AddsUp(Tail(q), total - Head(q))
<1>1. PICK l \in Nat : l + 1 = Len(q)
  <2>1. Len(q) \in Nat \ {0} /\ Len(q) - 1 \in Nat /\ (Len(q) - 1) + 1 = Len(q)
    OBVIOUS
  <2> QED BY <2>1
<1>2. PICK t \in [0 .. l + 1 -> Int] :
        t[0] = 0 /\ t[l + 1] = total /\ \A i \in 1 .. l + 1 : t[i] = t[i - 1] + q[i]
  BY <1>1 DEF AddsUp
<1>3. PICK z \in Seq(Nat \ {0}) :
        z = Tail(q) /\ Len(z) = l /\ \A i \in 1 .. l : z[i] = q[i + 1]
  <2>1. /\ Tail(q) \in Seq(Nat \ {0}) /\ Len(Tail(q)) = Len(q) - 1
        /\ \A i \in 1 .. Len(Tail(q)) : Tail(q)[i] = q[i + 1]
    BY HeadTailProperties, Zenon
  <2>2. Len(q) - 1 = l
    BY <1>1
  <2> QED BY <2>1, <2>2, Zenon
<1>4. PICK h \in Nat \ {0} : h = q[1] /\ h = Head(q)
  BY <1>1
<1> DEFINE u == [i \in 0 .. l |-> t[i + 1] - h]
<1>5. u \in [0 .. l -> Int] /\ u[0] = 0 /\ u[l] = total - h
  <2>1. t[1] = t[0] + q[1]
    BY <1>2
  <2>2. t[1] - h = 0
    BY <1>2, <1>4, <2>1
  <2>3. \A i \in 0 .. l : i + 1 \in 0 .. l + 1
    OBVIOUS
  <2>4. u[0] = t[1] - h /\ u[l] = t[l + 1] - h
    OBVIOUS
  <2>5. u \in [0 .. l -> Int]
    BY <2>3
  <2> QED BY <1>2, <2>2, <2>4, <2>5
<1>6. ASSUME NEW i \in 1 .. l PROVE u[i] = u[i - 1] + z[i]
  <2>1. i + 1 \in 1 .. l + 1 /\ (i + 1) - 1 = i /\ i - 1 \in 0 .. l /\ i \in 0 .. l + 1
    OBVIOUS
  <2>2. t[i + 1] = t[i] + q[i + 1]
    BY <1>2, <2>1
  <2>3. u[i] = t[i + 1] - h /\ u[i - 1] = t[i] - h
    BY <2>1
  <2>4. PICK a, b \in Int : a = t[i] /\ b = q[i + 1]
    <3>1. t[i] \in Int /\ q[i + 1] \in Int
      BY <1>1, <2>1
    <3> QED BY <3>1
  <2>5. (a + b) - h = (a - h) + b
    OBVIOUS
  <2> QED BY <1>3, <2>2, <2>3, <2>4, <2>5
<1> HIDE DEF u
<1>7. /\ u \in [0 .. Len(z) -> Int] /\ u[0] = 0 /\ u[Len(z)] = total - h
      /\ \A i \in 1 .. Len(z) : u[i] = u[i - 1] + z[i]
  BY <1>3, <1>5, <1>6, Zenon
<1>8. AddsUp(z, total - h)
  BY <1>7, ZenonT(40) DEF AddsUp
<1> QED BY <1>3, <1>4, <1>8, Zenon

LEMMA AddsUpLess ==
  ASSUME NEW q \in Seq(Nat \ {0}), q # << >>, Head(q) > 1, NEW total \in Int, AddsUp(q, total)
  PROVE  /\ AddsUp([q EXCEPT ![1] = @ - 1], total - 1)
         /\ [q EXCEPT ![1] = @ - 1] \in Seq(Nat \ {0})
         /\ Len([q EXCEPT ![1] = @ - 1]) = Len(q)
<1>1. PICK l \in Nat \ {0} : l = Len(q)
  OBVIOUS
<1>2. PICK t \in [0 .. l -> Int] :
        t[0] = 0 /\ t[l] = total /\ \A i \in 1 .. l : t[i] = t[i - 1] + q[i]
  BY <1>1 DEF AddsUp
<1>3. PICK z : z = [q EXCEPT ![1] = @ - 1]
  OBVIOUS
<1>4. z \in Seq(Nat \ {0}) /\ Len(z) = l /\ z[1] = q[1] - 1 /\ \A i \in 2 .. l : z[i] = q[i]
  BY <1>1, <1>3
<1> DEFINE u == [i \in 0 .. l |-> IF i = 0 THEN 0 ELSE t[i] - 1]
<1>5. u \in [0 .. l -> Int] /\ u[0] = 0 /\ u[l] = total - 1
  BY <1>2
<1>6. ASSUME NEW i \in 1 .. l PROVE u[i] = u[i - 1] + z[i]
  <2>1. t[i] = t[i - 1] + q[i] /\ t[i - 1] \in Int /\ q[i] \in Int
    <3>1. i - 1 \in 0 .. l /\ i \in 1 .. Len(q)
      BY <1>1
    <3>2. t[i - 1] \in Int
      BY <1>2, <3>1, Zenon
    <3>3. q[i] \in Nat \ {0}
      BY <3>1
    <3> QED BY <1>2, <3>2, <3>3
  <2>2. PICK a, b \in Int : a = t[i - 1] /\ b = q[i] /\ t[i] = a + b
    BY <2>1
  <2>3. u[i] = t[i] - 1
    OBVIOUS
  <2>4. CASE i = 1
    <3>1. u[i - 1] = 0 /\ a = 0 /\ z[i] = b - 1
      BY <1>2, <1>4, <2>2, <2>4
    <3>2. (a + b) - 1 = 0 + (b - 1)
      BY <3>1
    <3>3. u[i] = (a + b) - 1
      BY <2>2, <2>3
    <3> HIDE DEF u
    <3> QED BY <3>1, <3>2, <3>3, Zenon
  <2>5. CASE i # 1
    <3>0. i - 1 \in 0 .. l /\ i - 1 # 0 /\ i \in 2 .. l
      BY <2>5
    <3>1. u[i - 1] = a - 1 /\ z[i] = b
      BY <1>4, <2>2, <3>0
    <3>2. (a + b) - 1 = (a - 1) + b
      OBVIOUS
    <3>3. u[i] = (a + b) - 1
      BY <2>2, <2>3
    <3> HIDE DEF u
    <3> QED BY <3>1, <3>2, <3>3
  <2> QED BY <2>4, <2>5
<1> HIDE DEF u
<1>7. AddsUp(z, total - 1)
  BY <1>4, <1>5, <1>6 DEF AddsUp
<1> QED BY <1>1, <1>3, <1>4, <1>7

(* What of the writes does not move is as it was.                          *)
LEMMA SameOwed ==
  ASSUME AxTypes, WordsOwed,
         int_write_data_queue' = int_write_data_queue,
         Len(int_write_addr_queue)' + HasAddress' = Len(int_write_addr_queue) + HasAddress,
         AddsUp(int_write_resp_command_queue, Owed)',
         \A i \in 1 .. Len(int_write_data_queue) : WriteAt(i)' = WriteAt(i)
  PROVE  WordsOwed'
BY DEF WordsOwed

LEMMA SameLead ==
  ASSUME WordsLead, moved => moved', ~moved' /\ wpc' = "w" => pos' = waddr',
         ram' = ram, wanted_ram' = wanted_ram,
         int_write_data_queue' = int_write_data_queue,
         \A i \in 1 .. Len(int_write_data_queue) : WriteAt(i)' = WriteAt(i)
  PROVE  WordsLead'
BY DEF WordsLead

(* A step that has nothing to do with the writes.                          *)
LEMMA WritesRest ==
  ASSUME WordsOwed, WordsLead, UNCHANGED <<masterWrites, ramWrites, ram, wanted_ram>>,
         moved => moved', ~moved' /\ wpc = "w" => pos' = pos
  PROVE  WordsOwed' /\ WordsLead'
<1>1. UNCHANGED <<int_write_addr_queue, int_write_data_queue, int_write_resp_queue,
                  int_write_resp_command_queue, wpc, waddr>>
  BY DEF masterWrites, ramWrites
<1>2. \A i : WriteAt(i)' = WriteAt(i)
  BY <1>1 DEF WriteAt, HasAddress, Aligned
<1>3. Owed' = Owed /\ HasAddress' = HasAddress
  BY <1>1 DEF Owed, HasAddress
<1>4. AddsUp(int_write_resp_command_queue, Owed)'
  BY <1>1, <1>3 DEF WordsOwed, AddsUp
<1>5. WordsOwed'
  BY <1>1, <1>2, <1>3, <1>4 DEF WordsOwed
<1>6. ~moved' /\ wpc' = "w" => pos' = waddr'
  BY <1>1 DEF WordsLead
<1>7. WordsLead'
  BY <1>1, <1>2, <1>6, SameLead
<1> QED BY <1>5, <1>7

(* A step that has nothing to do with the reads.                           *)
LEMMA ReadsRest ==
  ASSUME WordsRead, DataRight, UNCHANGED <<masterReads, ramReads, ram>>
  PROVE  WordsRead' /\ DataRight'
<1>1. UNCHANGED <<int_read_addr_queue, int_read_resp_queue, int_read_resp_command_queue,
                  read_data_ops, rpc, raddr, rdata, ram>>
  BY DEF masterReads, ramReads
<1>2. Asked' = Asked /\ Reading' = Reading
  BY <1>1 DEF Asked, Reading
<1>3. \A p, c, k : Fits(p, c, k)' = Fits(p, c, k)
  BY <1>1, <1>2 DEF Fits, Serves, Aligned, Slot, SpanBlock
<1>4. WordsRead'
  BY <1>1, <1>2, <1>3 DEF WordsRead, WordsLeft, cycles, GoodCall, Collected, Slot, SpanBlock
<1>5. DataRight'
  BY <1>1 DEF DataRight
<1> QED BY <1>4, <1>5

(* The RAM takes an address.                                               *)
LEMMA TakeAwStep == ASSUME AxInv, TakeAw PROVE AxInv'
<1>1. /\ wpc = "aw" /\ int_write_addr_queue # << >> /\ wpc' = "latency"
      /\ waddr' = Aligned(Head(int_write_addr_queue))
      /\ int_write_addr_queue' = Tail(int_write_addr_queue)
      /\ UNCHANGED <<int_write_data_queue, int_write_resp_queue, int_write_resp_command_queue,
                     write_resp_queue, in_flight_operations, pos, ram, wanted_ram, moved,
                     ops_made>>
      /\ UNCHANGED <<masterReads, ramReads, ram>>
  BY DEF TakeAw, Aligned
<1>2. AxTypes /\ Answered /\ WordsOwed /\ WordsLead /\ WordsRead /\ DataRight
  BY DEF AxInv
<1>3. PICK l \in Nat : l + 1 = Len(int_write_addr_queue)
  <2>1. int_write_addr_queue \in Seq(Nat)
    BY <1>2 DEF AxTypes
  <2>2. Len(int_write_addr_queue) - 1 \in Nat
    BY <1>1, <2>1
  <2> QED BY <2>1, <2>2
<1>4. /\ int_write_addr_queue' \in Seq(Nat) /\ Len(int_write_addr_queue') = l
      /\ \A i \in 1 .. l : int_write_addr_queue'[i] = int_write_addr_queue[i + 1]
      /\ Head(int_write_addr_queue) = int_write_addr_queue[1]
      /\ Head(int_write_addr_queue) \in Nat
  <2>1. int_write_addr_queue \in Seq(Nat)
    BY <1>2 DEF AxTypes
  <2> QED BY <1>1, <1>3, <2>1
<1>5. HasAddress = 0 /\ HasAddress' = 1
  BY <1>1 DEF HasAddress
<1>6. Len(int_write_data_queue) = l + 1
  BY <1>2, <1>3, <1>5 DEF WordsOwed
<1>7. ASSUME NEW i \in 1 .. Len(int_write_data_queue) PROVE WriteAt(i)' = WriteAt(i)
  <2>1. WriteAt(i) = Aligned(int_write_addr_queue[i])
    BY <1>5 DEF WriteAt
  <2>2. CASE i = 1
    BY <1>1, <1>4, <1>5, <2>1, <2>2 DEF WriteAt
  <2>3. CASE i # 1
    <3>1. i - 1 \in 1 .. l /\ (i - 1) + 1 = i /\ ~(i <= 1)
      BY <1>6, <2>3
    <3>2. WriteAt(i)' = Aligned(int_write_addr_queue'[i - 1])
      BY <1>5, <3>1 DEF WriteAt, Aligned
    <3> QED BY <1>4, <2>1, <3>1, <3>2
  <2> QED BY <2>2, <2>3
<1>8. WordsOwed'
  <2>1. Owed' = Owed
    BY <1>1 DEF Owed
  <2>2. AddsUp(int_write_resp_command_queue, Owed)'
    BY <1>1, <1>2, <2>1 DEF WordsOwed, AddsUp
  <2>3. Len(int_write_addr_queue)' + HasAddress' = Len(int_write_addr_queue) + HasAddress
    BY <1>3, <1>4, <1>5
  <2> QED BY <1>1, <1>2, <1>7, <2>2, <2>3, SameOwed
<1>9. WordsLead'
  BY <1>1, <1>2, <1>7, SameLead
<1>10. WordsRead' /\ DataRight'
  BY <1>1, <1>2, ReadsRest
<1>11. Aligned(Head(int_write_addr_queue)) \in Nat
  BY <1>4, AlignedType
<1>12. AxTypes'
  BY <1>1, <1>2, <1>4, <1>11 DEF AxTypes, masterReads, ramReads
<1>13. Answered'
  BY <1>1, <1>2 DEF Answered, masterReads
<1> QED BY <1>8, <1>9, <1>10, <1>12, <1>13 DEF AxInv

(* It finds the word.                                                      *)
LEMMA SeekStep == ASSUME AxInv, Seek PROVE AxInv'
<1>1. /\ wpc = "latency" /\ wpc' = "w" /\ pos' = waddr % RamSize
      /\ UNCHANGED <<masterWrites, int_write_addr_queue, int_write_data_queue,
                     int_write_resp_queue, int_write_resp_command_queue, write_resp_queue,
                     in_flight_operations, waddr, ram, wanted_ram, moved, ops_made>>
      /\ UNCHANGED <<masterReads, ramReads, ram>>
  BY DEF Seek, masterWrites
<1>2. AxTypes /\ Answered /\ WordsOwed /\ WordsLead /\ WordsRead /\ DataRight
  BY DEF AxInv
<1>3. HasAddress = 1 /\ HasAddress' = 1
  BY <1>1 DEF HasAddress
<1>4. \A i : WriteAt(i)' = WriteAt(i)
  BY <1>1, <1>3 DEF WriteAt, Aligned
<1>5. WordsOwed'
  <2>1. Owed' = Owed
    BY <1>1 DEF Owed
  <2>2. AddsUp(int_write_resp_command_queue, Owed)'
    BY <1>1, <1>2, <2>1 DEF WordsOwed, AddsUp
  <2> QED BY <1>1, <1>2, <1>3, <1>4, <2>2, SameOwed
<1>6. waddr \in Nat /\ waddr + BusBytes <= RamSize
  <2>1. 1 \in 1 .. Len(int_write_data_queue)
    <3>1. int_write_addr_queue \in Seq(Nat)
      BY <1>2 DEF AxTypes
    <3>2. Len(int_write_addr_queue) \in Nat
      BY <3>1
    <3> QED BY <1>2, <1>3, <3>2 DEF WordsOwed
  <2>2. WriteAt(1) = waddr
    BY <1>3 DEF WriteAt
  <2> QED BY <1>2, <2>1, <2>2 DEF WordsOwed
<1>7. pos' = waddr
  <2>1. PICK s, w \in Nat \ {0} : s = RamSize /\ w = BusBytes
    BY AxShape
  <2>2. waddr < s
    BY <1>6, <2>1
  <2>3. waddr % s = waddr
    BY <1>6, <2>2
  <2> QED BY <1>1, <2>1, <2>3
<1>8. WordsLead'
  BY <1>1, <1>2, <1>4, <1>7, SameLead
<1>9. WordsRead' /\ DataRight'
  BY <1>1, <1>2, ReadsRest
<1>10. AxTypes'
  BY <1>1, <1>2, <1>6, <1>7 DEF AxTypes, masterReads, ramReads
<1>11. Answered'
  BY <1>1, <1>2 DEF Answered, masterReads
<1> QED BY <1>5, <1>8, <1>9, <1>10, <1>11 DEF AxInv

(* It answers.                                                             *)
LEMMA GiveBStep == ASSUME AxInv, GiveB PROVE AxInv'
<1>1. /\ wpc = "b" /\ wpc' = "aw"
      /\ int_write_resp_queue' = Append(int_write_resp_queue, "OKAY")
      /\ UNCHANGED <<int_write_addr_queue, int_write_data_queue, int_write_resp_command_queue,
                     write_resp_queue, in_flight_operations, waddr, pos, ram, wanted_ram,
                     moved, ops_made>>
      /\ UNCHANGED <<masterReads, ramReads, ram>>
  BY DEF GiveB
<1>2. AxTypes /\ Answered /\ WordsOwed /\ WordsLead /\ WordsRead /\ DataRight
  BY DEF AxInv
<1>3. HasAddress = 0 /\ HasAddress' = 0
  BY <1>1 DEF HasAddress
<1>4. \A i : WriteAt(i)' = WriteAt(i)
  BY <1>1, <1>3 DEF WriteAt, Aligned
<1>5. int_write_resp_queue' \in Seq({"OKAY"})
      /\ Len(int_write_resp_queue') = Len(int_write_resp_queue) + 1
      /\ Len(int_write_resp_queue) \in Nat /\ Len(int_write_data_queue) \in Nat
  <2>1. int_write_resp_queue \in Seq({"OKAY"}) /\ int_write_data_queue \in Seq(WriteWords)
    BY <1>2 DEF AxTypes
  <2>2. Len(int_write_resp_queue) \in Nat /\ Len(int_write_data_queue) \in Nat
    BY <2>1
  <2>3. "OKAY" \in {"OKAY"}
    OBVIOUS
  <2>4. /\ Append(int_write_resp_queue, "OKAY") \in Seq({"OKAY"})
        /\ Len(Append(int_write_resp_queue, "OKAY")) = Len(int_write_resp_queue) + 1
    BY <2>1, <2>3, AppendProperties, Zenon
  <2> QED BY <1>1, <2>2, <2>4
<1>6. WordsOwed'
  <2>1. Owed' = Owed
    BY <1>1, <1>5 DEF Owed
  <2>2. AddsUp(int_write_resp_command_queue, Owed)'
    BY <1>1, <1>2, <2>1 DEF WordsOwed, AddsUp
  <2> QED BY <1>1, <1>2, <1>3, <1>4, <2>2, SameOwed
<1>7. WordsLead'
  BY <1>1, <1>2, <1>4, SameLead
<1>8. WordsRead' /\ DataRight'
  BY <1>1, <1>2, ReadsRest
<1>9. AxTypes'
  BY <1>1, <1>2, <1>5 DEF AxTypes, masterReads, ramReads
<1>10. Answered'
  BY <1>1, <1>2 DEF Answered, masterReads
<1> QED BY <1>6, <1>7, <1>8, <1>9, <1>10 DEF AxInv

(* The master counts an answer.                                            *)
LEMMA WriteRespStep == ASSUME AxInv, write_resp_logic PROVE AxInv'
<1>1. /\ int_write_resp_command_queue # << >> /\ int_write_resp_queue # << >>
      /\ int_write_resp_queue' = Tail(int_write_resp_queue)
      /\ UNCHANGED <<int_write_addr_queue, int_write_data_queue, wpc, waddr,
                     pos, ram, wanted_ram, moved, ops_made>>
      /\ UNCHANGED <<masterReads, ramReads, ram>>
  BY DEF write_resp_logic, ramWrites
<1>2. AxTypes /\ Answered /\ WordsOwed /\ WordsLead /\ WordsRead /\ DataRight
  BY DEF AxInv
<1>3. HasAddress' = HasAddress /\ \A i : WriteAt(i)' = WriteAt(i)
  BY <1>1 DEF WriteAt, HasAddress, Aligned
<1>4. /\ int_write_resp_queue' \in Seq({"OKAY"})
      /\ Len(int_write_resp_queue') = Len(int_write_resp_queue) - 1
      /\ Len(int_write_resp_queue) \in Nat /\ Len(int_write_data_queue) \in Nat
  <2>1. int_write_resp_queue \in Seq({"OKAY"}) /\ int_write_data_queue \in Seq(WriteWords)
    BY <1>2 DEF AxTypes
  <2> QED BY <1>1, <2>1
<1>5. Owed \in Int /\ Owed' = Owed - 1
  BY <1>1, <1>4 DEF Owed
<1>6. /\ int_write_resp_command_queue \in Seq(Nat \ {0})
      /\ AddsUp(int_write_resp_command_queue, Owed)
      /\ write_resp_queue \in Seq({"OKAY"}) /\ in_flight_operations \in Int
  BY <1>2 DEF AxTypes, WordsOwed
<1>7. CASE Head(int_write_resp_command_queue) > 1
  <2>1. /\ int_write_resp_command_queue' = [int_write_resp_command_queue EXCEPT ![1] = @ - 1]
        /\ UNCHANGED <<write_resp_queue, in_flight_operations>>
    BY <1>7 DEF write_resp_logic
  <2>2. /\ AddsUp(int_write_resp_command_queue', Owed - 1)
        /\ int_write_resp_command_queue' \in Seq(Nat \ {0})
        /\ Len(int_write_resp_command_queue') = Len(int_write_resp_command_queue)
    BY <1>1, <1>5, <1>6, <1>7, <2>1, AddsUpLess
  <2>3. AddsUp(int_write_resp_command_queue, Owed)'
    BY <1>5, <2>2 DEF AddsUp
  <2>4. WordsOwed'
    BY <1>1, <1>2, <1>3, <2>3, SameOwed
  <2>5. WordsLead'
    <3>1. ~moved' /\ wpc' = "w" => pos' = waddr'
      BY <1>1, <1>2 DEF WordsLead
    <3> QED BY <1>1, <1>2, <1>3, <3>1, SameLead
  <2>6. WordsRead' /\ DataRight'
    BY <1>1, <1>2, ReadsRest
  <2>7. AxTypes'
    BY <1>1, <1>2, <1>4, <2>1, <2>2 DEF AxTypes, masterReads, ramReads
  <2>8. Answered'
    BY <1>1, <1>2, <2>1, <2>2 DEF Answered, masterReads
  <2> QED BY <2>4, <2>5, <2>6, <2>7, <2>8 DEF AxInv
<1>8. CASE ~(Head(int_write_resp_command_queue) > 1)
  <2>1. /\ int_write_resp_command_queue' = Tail(int_write_resp_command_queue)
        /\ write_resp_queue' = Append(write_resp_queue, "OKAY")
        /\ in_flight_operations' = in_flight_operations - 1
    BY <1>8 DEF write_resp_logic
  <2>2. Head(int_write_resp_command_queue) = 1
    <3>1. Head(int_write_resp_command_queue) \in Nat \ {0}
      BY <1>1, <1>6
    <3> QED BY <1>8, <3>1
  <2>3. AddsUp(int_write_resp_command_queue', Owed - 1)
    BY <1>1, <1>5, <1>6, <2>1, <2>2, AddsUpTail
  <2>4. AddsUp(int_write_resp_command_queue, Owed)'
    BY <1>5, <2>3 DEF AddsUp
  <2>5. WordsOwed'
    BY <1>1, <1>2, <1>3, <2>4, SameOwed
  <2>6. WordsLead'
    <3>1. ~moved' /\ wpc' = "w" => pos' = waddr'
      BY <1>1, <1>2 DEF WordsLead
    <3> QED BY <1>1, <1>2, <1>3, <3>1, SameLead
  <2>7. WordsRead' /\ DataRight'
    BY <1>1, <1>2, ReadsRest
  <2>8. /\ int_write_resp_command_queue' \in Seq(Nat \ {0})
        /\ Len(int_write_resp_command_queue') = Len(int_write_resp_command_queue) - 1
        /\ Len(int_write_resp_command_queue) \in Nat
    BY <1>1, <1>6, <2>1
  <2>9. /\ write_resp_queue' \in Seq({"OKAY"}) /\ Len(write_resp_queue) \in Nat
        /\ Len(write_resp_queue') = Len(write_resp_queue) + 1
    <3>1. "OKAY" \in {"OKAY"}
      OBVIOUS
    <3>2. /\ Append(write_resp_queue, "OKAY") \in Seq({"OKAY"})
          /\ Len(Append(write_resp_queue, "OKAY")) = Len(write_resp_queue) + 1
      BY <1>6, <3>1, AppendProperties, Zenon
    <3>3. Len(write_resp_queue) \in Nat
      BY <1>6
    <3> QED BY <2>1, <3>2, <3>3
  <2>10. AxTypes'
    BY <1>1, <1>2, <1>4, <1>6, <2>1, <2>8, <2>9 DEF AxTypes, masterReads, ramReads
  <2>11. Answered'
    <3>1. /\ int_read_resp_command_queue' = int_read_resp_command_queue
          /\ read_data_ops' = read_data_ops
      BY <1>1 DEF masterReads
    <3>2. PICK a, b \in Nat : a = Len(int_read_resp_command_queue) /\ b = Len(read_data_ops)
      BY <1>2 DEF AxTypes
    <3>3. ops_made \in Nat
      BY <1>2 DEF AxTypes
    <3>4. PICK c, d \in Nat : c = Len(int_write_resp_command_queue) /\ d = Len(write_resp_queue)
      BY <2>8, <2>9
    <3>5. in_flight_operations = c + a /\ (d + b) + in_flight_operations = ops_made
      BY <1>2, <3>2, <3>4 DEF Answered
    <3>6. in_flight_operations - 1 = (c - 1) + a
          /\ ((d + 1) + b) + (in_flight_operations - 1) = ops_made
      BY <3>5
    <3> QED BY <1>1, <2>1, <2>8, <2>9, <3>1, <3>2, <3>4, <3>6 DEF Answered
  <2> QED BY <2>5, <2>6, <2>7, <2>10, <2>11 DEF AxInv
<1> QED BY <1>7, <1>8

(* What a call may bring grows by what is stored meanwhile.                *)
Grown(c, m) ==
  [c EXCEPT !.seen = [i \in DOMAIN @ |-> @[i] \cup {m[c.addr + i - 1]}]]

LEMMA GrownCall ==
  ASSUME NEW c \in ReadCalls, NEW m0, GoodCall(c, m0), NEW m \in Memories
  PROVE  /\ Grown(c, m) \in ReadCalls /\ GoodCall(Grown(c, m), m)
         /\ WordsLeft(Grown(c, m)) = WordsLeft(c) /\ Grown(c, m).k = c.k
         /\ \A p, k : Fits(p, c, k) => Fits(p, Grown(c, m), k)
<1>1. PICK s : s = [i \in DOMAIN c.seen |-> c.seen[i] \cup {m[c.addr + i - 1]}]
  OBVIOUS
<1>2. PICK d : d = Grown(c, m)
  OBVIOUS
<1>3. d = [addr |-> c.addr, length |-> c.length, k |-> c.k, data |-> c.data, seen |-> s]
  BY <1>1, <1>2 DEF Grown, ReadCalls
<1>4. /\ d.addr = c.addr /\ d.length = c.length /\ d.k = c.k /\ d.data = c.data /\ d.seen = s
      /\ c.addr \in Nat /\ c.length \in Nat \ {0} /\ c.seen \in Seq(SUBSET Int)
      /\ Len(c.seen) = c.length /\ c.addr + c.length <= RamSize
  BY <1>3 DEF ReadCalls, GoodCall
<1>5. PICK l \in Nat \ {0}, a \in Nat : l = c.length /\ a = c.addr /\ a + l <= RamSize
  BY <1>4
<1>6. ASSUME NEW i \in 1 .. l
      PROVE  /\ s[i] = c.seen[i] \cup {m[(a + i) - 1]} /\ s[i] \in SUBSET Int
             /\ (a + i) - 1 \in 0 .. RamSize - 1
  <2>1. PICK e \in 0 .. RamSize - 1 : e = (a + i) - 1 /\ e = a + i - 1
    BY <1>5, AxShape
  <2>2. m[e] \in Int
    BY DEF Memories
  <2>3. i \in DOMAIN c.seen /\ c.seen[i] \in SUBSET Int
    BY <1>4, <1>5
  <2>4. s[i] = c.seen[i] \cup {m[e]}
    BY <1>1, <1>5, <2>1, <2>3
  <2> QED BY <2>1, <2>2, <2>3, <2>4
<1>7. s \in Seq(SUBSET Int) /\ Len(s) = l
  <2>1. s \in [1 .. l -> SUBSET Int]
    <3>1. DOMAIN c.seen = 1 .. l
      BY <1>4, <1>5
    <3>2. s = [i \in 1 .. l |-> s[i]]
      BY <1>1, <3>1
    <3>3. \A i \in 1 .. l : s[i] \in SUBSET Int
      BY <1>6
    <3> QED BY <3>2, <3>3, Zenon
  <2> QED BY <2>1, SeqOfFunction
<1>8. d \in ReadCalls
  BY <1>3, <1>7 DEF ReadCalls
<1>9. GoodCall(d, m)
  <2>1. Collected(d) = Collected(c)
    BY <1>4 DEF Collected
  <2>2. \A i \in 1 .. l : m[(a + i) - 1] \in s[i] /\ c.seen[i] \subseteq s[i]
    BY <1>6
  <2>3. Len(c.data) = Collected(c) /\ c.k \in 1 .. cycles(c.addr, c.length)
        /\ \A i \in 1 .. Len(c.data) : c.data[i] \in c.seen[i]
    BY DEF GoodCall
  <2>4. Collected(c) <= l /\ Collected(c) \in Nat
    BY <1>4, <1>5, <2>3, CollectedSpan
  <2>5. ASSUME NEW i \in 1 .. Len(c.data) PROVE c.data[i] \in s[i]
    <3>1. i \in 1 .. l
      BY <2>3, <2>4
    <3> QED BY <2>2, <2>3, <3>1
  <2> QED BY <1>4, <1>5, <1>7, <2>1, <2>2, <2>3, <2>5 DEF GoodCall
<1>10. WordsLeft(d) = WordsLeft(c)
  BY <1>4 DEF WordsLeft
<1>11. ASSUME NEW word, NEW k, Serves(word, c, k) PROVE Serves(word, d, k)
  <2>1. \A i \in 1 .. l : c.seen[i] \subseteq s[i]
    BY <1>6
  <2> QED BY <1>4, <1>5, <1>11, <2>1 DEF Serves
<1>12. ASSUME NEW p, NEW k, Fits(p, c, k) PROVE Fits(p, d, k)
  BY <1>4, <1>11, <1>12 DEF Fits
<1> QED BY <1>2, <1>4, <1>8, <1>9, <1>10, <1>12

(* A word is stored.                                                       *)
LEMMA TakeWStep == ASSUME AxInv, TakeW PROVE AxInv'
<1>1. /\ wpc = "w" /\ wpc' = "b" /\ int_write_data_queue # << >>
      /\ ram' = PutWord(ram, pos, Head(int_write_data_queue))
      /\ pos' = pos + BusBytes
      /\ int_write_data_queue' = Tail(int_write_data_queue)
      /\ int_read_resp_command_queue' =
           [i \in DOMAIN int_read_resp_command_queue |->
              Grown(int_read_resp_command_queue[i], ram')]
      /\ UNCHANGED <<int_write_addr_queue, int_write_resp_queue, int_write_resp_command_queue,
                     write_resp_queue, int_read_addr_queue, int_read_resp_queue, read_data_ops,
                     in_flight_operations, waddr, wanted_ram, moved, ops_made>>
      /\ UNCHANGED <<rpc, raddr, rdata>>
  BY DEF TakeW, PutWord, Grown, ramReads
<1>2. AxTypes /\ Answered /\ WordsOwed /\ WordsLead /\ WordsRead /\ DataRight
  BY DEF AxInv
<1>3. /\ int_write_data_queue \in Seq(WriteWords) /\ ram \in Memories /\ pos \in Nat
      /\ int_read_resp_command_queue \in Seq(ReadCalls)
  BY <1>2 DEF AxTypes
<1>4. PICK l \in Nat : l + 1 = Len(int_write_data_queue)
  <2>1. Len(int_write_data_queue) - 1 \in Nat
    BY <1>1, <1>3
  <2> QED BY <1>3, <2>1
<1>5. /\ int_write_data_queue' \in Seq(WriteWords) /\ Len(int_write_data_queue') = l
      /\ \A i \in 1 .. l : int_write_data_queue'[i] = int_write_data_queue[i + 1]
      /\ Head(int_write_data_queue) = int_write_data_queue[1]
      /\ Head(int_write_data_queue) \in WriteWords
  <2>1. /\ Tail(int_write_data_queue) \in Seq(WriteWords)
        /\ Len(Tail(int_write_data_queue)) = Len(int_write_data_queue) - 1
        /\ \A i \in 1 .. Len(Tail(int_write_data_queue)) :
             Tail(int_write_data_queue)[i] = int_write_data_queue[i + 1]
        /\ Head(int_write_data_queue) \in WriteWords
    BY <1>1, <1>3, HeadTailProperties, Zenon
  <2>2. Len(int_write_data_queue) - 1 = l
    BY <1>4
  <2>3. Head(int_write_data_queue) = int_write_data_queue[1]
    BY <1>1, <1>3
  <2> QED BY <1>1, <2>1, <2>2, <2>3, Zenon
<1>6. HasAddress = 1 /\ HasAddress' = 0
  BY <1>1 DEF HasAddress
<1>7. Len(int_write_addr_queue) = l /\ Len(int_write_addr_queue') = l
  <2>1. int_write_addr_queue \in Seq(Nat)
    BY <1>2 DEF AxTypes
  <2>2. Len(int_write_addr_queue) \in Nat
    BY <2>1
  <2> QED BY <1>1, <1>2, <1>4, <1>6, <2>2 DEF WordsOwed
<1>8. ASSUME NEW i \in 1 .. l PROVE WriteAt(i)' = WriteAt(i + 1) /\ i + 1 \in 1 .. l + 1
  <2>1. ~(i + 1 <= 1) /\ (i + 1) - 1 = i /\ ~(i <= 0) /\ i - 0 = i /\ i + 1 \in 1 .. l + 1
    OBVIOUS
  <2>2. WriteAt(i + 1) = Aligned(int_write_addr_queue[i])
    BY <1>6, <2>1 DEF WriteAt
  <2>3. WriteAt(i)' = Aligned(int_write_addr_queue'[i])
    BY <1>6, <2>1 DEF WriteAt, Aligned
  <2> QED BY <1>1, <2>1, <2>2, <2>3
<1>9. ram' \in Memories
  BY <1>1, <1>3, <1>5, PutType
<1>10. WordsOwed'
  <2>1. Owed' = Owed
    <3>1. int_write_resp_queue \in Seq({"OKAY"})
      BY <1>2 DEF AxTypes
    <3>2. PICK r \in Nat : r = Len(int_write_resp_queue)
      BY <3>1
    <3>3. Owed' = l + 1 + r
      BY <1>1, <1>5, <3>2 DEF Owed
    <3>4. Owed = (l + 1) + 0 + r
      BY <1>1, <1>4, <3>2 DEF Owed
    <3> QED BY <3>3, <3>4
  <2>2. AddsUp(int_write_resp_command_queue, Owed)'
    BY <1>1, <1>2, <2>1 DEF WordsOwed, AddsUp
  <2>3. \A i \in 1 .. l : WriteAt(i)' \in Nat /\ WriteAt(i)' + BusBytes <= RamSize
    BY <1>2, <1>4, <1>8 DEF WordsOwed
  <2>4. l = l + 0
    OBVIOUS
  <2> QED BY <1>5, <1>6, <1>7, <2>2, <2>3, <2>4 DEF WordsOwed
<1>11. WordsLead'
  <2>0. SUFFICES ASSUME ~moved' PROVE WordsLead'
    BY DEF WordsLead
  <2>1. PICK s \in [0 .. l + 1 -> Memories] :
          /\ s[0] = ram /\ s[l + 1] = wanted_ram
          /\ \A i \in 1 .. l + 1 : s[i] = PutWord(s[i - 1], WriteAt(i), int_write_data_queue[i])
    BY <1>1, <1>2, <1>4, <2>0 DEF WordsLead
  <2>2. pos = waddr
    BY <1>1, <1>2, <2>0 DEF WordsLead
  <2> DEFINE u == [i \in 0 .. l |-> s[i + 1]]
  <2>3. u \in [0 .. l -> Memories] /\ u[l] = wanted_ram' /\ u[0] = s[1]
    BY <1>1, <2>1
  <2>4. s[1] = ram'
    <3>1. WriteAt(1) = waddr
      BY <1>6 DEF WriteAt
    <3>2. 1 \in 1 .. l + 1 /\ 1 - 1 = 0
      OBVIOUS
    <3>3. s[1] = PutWord(s[1 - 1], WriteAt(1), int_write_data_queue[1])
      BY <2>1, <3>2
    <3> QED BY <1>1, <1>5, <2>1, <2>2, <3>1, <3>2, <3>3
  <2>5. ASSUME NEW i \in 1 .. l
        PROVE  u[i] = PutWord(u[i - 1], WriteAt(i)', int_write_data_queue'[i])
    <3>1. i + 1 \in 1 .. l + 1 /\ (i + 1) - 1 = i /\ i - 1 \in 0 .. l /\ (i - 1) + 1 = i
      OBVIOUS
    <3>2. s[i + 1] = PutWord(s[(i + 1) - 1], WriteAt(i + 1), int_write_data_queue[i + 1])
      BY <2>1, <3>1
    <3>3. u[i] = s[i + 1] /\ u[i - 1] = s[i]
      BY <3>1
    <3> HIDE DEF u
    <3> QED BY <1>5, <1>8, <3>1, <3>2, <3>3
  <2> HIDE DEF u
  <2>6. u[0] = ram' /\ wpc' # "w"
    BY <1>1, <2>3, <2>4
  <2>7. \A i \in 1 .. l : u[i] = PutWord(u[i - 1], WriteAt(i), int_write_data_queue[i])'
    BY <2>5 DEF PutWord
  <2> QED BY <1>5, <2>3, <2>5, <2>6 DEF WordsLead, PutWord
<1>12. PICK n \in Nat : n = Len(int_read_resp_command_queue)
  BY <1>3
<1>13. PICK c \in [1 .. n -> ReadCalls] :
         \A i \in 1 .. n : c[i] = int_read_resp_command_queue[i] /\ GoodCall(c[i], ram)
  <2>1. \A i \in 1 .. n : int_read_resp_command_queue[i] \in ReadCalls
    BY <1>3, <1>12
  <2>2. PICK c : c = [i \in 1 .. n |-> int_read_resp_command_queue[i]]
    OBVIOUS
  <2>3. c \in [1 .. n -> ReadCalls]
    BY <2>1, <2>2
  <2>4. \A i \in 1 .. n : GoodCall(int_read_resp_command_queue[i], ram)
    BY <1>2, <1>12 DEF WordsRead
  <2> QED BY <2>2, <2>3, <2>4
<1>14. PICK d \in [1 .. n -> ReadCalls] :
         /\ d = int_read_resp_command_queue'
         /\ \A i \in 1 .. n : /\ GoodCall(d[i], ram')
                              /\ WordsLeft(d[i]) = WordsLeft(c[i]) /\ d[i].k = c[i].k
                              /\ \A p, k : Fits(p, c[i], k) => Fits(p, d[i], k)
  <2>1. \A i \in 1 .. n :
           /\ Grown(c[i], ram') \in ReadCalls /\ GoodCall(Grown(c[i], ram'), ram')
           /\ WordsLeft(Grown(c[i], ram')) = WordsLeft(c[i]) /\ Grown(c[i], ram').k = c[i].k
           /\ \A p, k : Fits(p, c[i], k) => Fits(p, Grown(c[i], ram'), k)
    BY <1>9, <1>13, GrownCall
  <2>2. DOMAIN int_read_resp_command_queue = 1 .. n
    BY <1>3, <1>12
  <2>3. int_read_resp_command_queue' = [i \in 1 .. n |-> Grown(c[i], ram')]
    BY <1>1, <1>13, <2>2
  <2>4. int_read_resp_command_queue' \in [1 .. n -> ReadCalls]
    BY <2>1, <2>3
  <2>5. \A i \in 1 .. n : int_read_resp_command_queue'[i] = Grown(c[i], ram')
    BY <2>3
  <2> QED BY <2>1, <2>4, <2>5
<1>15. int_read_resp_command_queue' \in Seq(ReadCalls) /\ Len(int_read_resp_command_queue') = n
  BY <1>14, SeqOfFunction
<1>16. WordsRead'
  <2>1. PICK t \in [0 .. n -> Nat] :
          /\ t[0] = 0 /\ t[n] = Asked
          /\ \A i, j \in 0 .. n : i < j => t[i] < t[j]
          /\ \A i \in 1 .. n : /\ t[i] = t[i - 1] + WordsLeft(c[i])
                               /\ \A p \in t[i - 1] + 1 .. t[i] :
                                    Fits(p, c[i], c[i].k + (p - t[i - 1] - 1))
    BY <1>2, <1>12, <1>13, SMTT(60) DEF WordsRead
  <2>2. Asked' = Asked /\ Reading' = Reading
    BY <1>1 DEF Asked, Reading
  <2>3. \A p, e, k : Fits(p, e, k)' = Fits(p, e, k)
    BY <1>1, <2>2 DEF Fits, Serves, Aligned, Slot, SpanBlock
  <2>4. \A i \in 1 .. n : /\ t[i] = t[i - 1] + WordsLeft(d[i])
                          /\ \A p \in t[i - 1] + 1 .. t[i] :
                               Fits(p, d[i], d[i].k + (p - t[i - 1] - 1))'
    BY <1>14, <2>1, <2>3
  <2>5. t[0] = 0 /\ t[n] = Asked' /\ \A i, j \in 0 .. n : i < j => t[i] < t[j]
    BY <2>1, <2>2
  <2>6. \A i \in 1 .. n : GoodCall(d[i], ram')
    BY <1>14
  <2> QED BY <1>14, <1>15, <2>4, <2>5, <2>6
      DEF WordsRead, GoodCall, WordsLeft, Collected, Slot, SpanBlock, cycles
<1>17. DataRight'
  BY <1>1, <1>2 DEF DataRight
<1>18. AxTypes'
  <2>1. pos' \in Nat
    BY <1>1, <1>3, AxShape
  <2> QED BY <1>1, <1>2, <1>5, <1>9, <1>15, <2>1 DEF AxTypes
<1>19. Answered'
  BY <1>1, <1>2, <1>12, <1>15 DEF Answered
<1> QED BY <1>10, <1>11, <1>16, <1>17, <1>18, <1>19 DEF AxInv

(* A write is called: its words follow those that are owed.                *)
LEMMA InitWriteStep == ASSUME AxInv, init_axil_write PROVE AxInv'
<1>1. PICK w, n :
        /\ w \in AxilWrites
        /\ n = cycles(w[1], Len(w[2])) /\ ops_made' = ops_made + 1
        /\ int_write_addr_queue' = int_write_addr_queue \o [k \in 1 .. n |-> WordAddr(w[1], k)]
        /\ int_write_data_queue' = int_write_data_queue \o [k \in 1 .. n |-> Word(w[1], w[2], k)]
        /\ int_write_resp_command_queue' = Append(int_write_resp_command_queue, n)
        /\ in_flight_operations' = in_flight_operations + 1
        /\ wanted_ram' = Changed(wanted_ram, w[1], w[2])
        /\ UNCHANGED <<int_write_resp_queue, write_resp_queue, wpc, waddr, pos, ram, moved>>
        /\ UNCHANGED <<masterReads, ramReads, ram>>
  BY DEF init_axil_write, ramWrites
<1>2. AxTypes /\ Answered /\ WordsOwed /\ WordsLead /\ WordsRead /\ DataRight
  BY DEF AxInv
<1>3. PICK addr \in Nat, bytes \in Seq(Int) :
        /\ addr = w[1] /\ bytes = w[2] /\ Len(bytes) \in Nat \ {0} /\ addr + Len(bytes) <= RamSize
  <2>1. w[1] \in Nat /\ w[2] \in Seq(Int) \ {<< >>} /\ w[1] + Len(w[2]) <= RamSize
    BY <1>1, AxilAssumption
  <2>2. Len(w[2]) \in Nat \ {0}
    BY <2>1
  <2> QED BY <2>1, <2>2
<1>4. n \in Nat \ {0} /\ n = cycles(addr, Len(bytes))
  BY <1>1, <1>3, CallWords
<1>5. \A k \in 1 .. n : /\ WordAddr(addr, k) \in Nat /\ Word(addr, bytes, k) \in WriteWords
                        /\ Aligned(WordAddr(addr, k)) = Slot(addr, k)
                        /\ Slot(addr, k) \in Nat /\ Slot(addr, k) + BusBytes <= RamSize
                        /\ Slot(addr, k + 1) = Slot(addr, k) + BusBytes
  <2>1. ASSUME NEW k \in 1 .. cycles(addr, Len(bytes))
        PROVE  /\ WordAddr(addr, k) \in Nat /\ Word(addr, bytes, k) \in WriteWords
               /\ Aligned(WordAddr(addr, k)) = Slot(addr, k)
               /\ Slot(addr, k) \in Nat /\ Slot(addr, k) + BusBytes <= RamSize
               /\ Slot(addr, k + 1) = Slot(addr, k) + BusBytes
    <3>1. Word(addr, bytes, k) \in WriteWords
      BY <1>3, WordBytes
    <3>2. Slot(addr, k) + BusBytes <= RamSize
      BY <1>3, WordInside
    <3>3. /\ WordAddr(addr, k) \in Nat
          /\ Aligned(WordAddr(addr, k)) = Slot(addr, k)
          /\ Slot(addr, k) \in Nat
          /\ Slot(addr, k + 1) = Slot(addr, k) + BusBytes
      BY <1>3, WordSpan
    <3> QED BY <3>1, <3>2, <3>3
  <2> QED BY <1>4, <2>1
<1>6. PICK l \in Nat, m \in Nat : l = Len(int_write_data_queue) /\ m = Len(int_write_addr_queue)
  <2>1. int_write_data_queue \in Seq(WriteWords) /\ int_write_addr_queue \in Seq(Nat)
    BY <1>2 DEF AxTypes
  <2> QED BY <2>1
<1>7. /\ int_write_addr_queue' \in Seq(Nat) /\ Len(int_write_addr_queue') = m + n
      /\ \A i \in 1 .. m : int_write_addr_queue'[i] = int_write_addr_queue[i]
      /\ \A i \in 1 .. m + n : ~(i <= m) => int_write_addr_queue'[i] = WordAddr(addr, i - m)
  <2>1. PICK g : g = [k \in 1 .. n |-> WordAddr(addr, k)]
    OBVIOUS
  <2>2. g \in [1 .. n -> Nat] /\ \A k \in 1 .. n : g[k] = WordAddr(addr, k)
    BY <1>5, <2>1
  <2>3. /\ IsJoin(int_write_addr_queue, g, int_write_addr_queue')
        /\ int_write_addr_queue \in Seq(Nat)
    BY <1>1, <1>2, <1>3, <2>1 DEF AxTypes, IsJoin
  <2>4. /\ int_write_addr_queue' \in Seq(Nat)
        /\ JoinsUp(int_write_addr_queue, n, g, int_write_addr_queue')
    <3>1. n \in Nat
      BY <1>4
    <3> QED BY <2>2, <2>3, <3>1, JoinOf
  <2>5. \A i \in 1 .. m + n : ~(i <= m) => i - m \in 1 .. n
    BY <1>4
  <2> QED BY <1>6, <2>2, <2>4, <2>5 DEF JoinsUp
<1>8. /\ int_write_data_queue' \in Seq(WriteWords) /\ Len(int_write_data_queue') = l + n
      /\ \A i \in 1 .. l : int_write_data_queue'[i] = int_write_data_queue[i]
      /\ \A i \in 1 .. l + n : ~(i <= l) => int_write_data_queue'[i] = Word(addr, bytes, i - l)
  <2>1. PICK g : g = [k \in 1 .. n |-> Word(addr, bytes, k)]
    OBVIOUS
  <2>2. g \in [1 .. n -> WriteWords] /\ \A k \in 1 .. n : g[k] = Word(addr, bytes, k)
    BY <1>5, <2>1
  <2>3. /\ IsJoin(int_write_data_queue, g, int_write_data_queue')
        /\ int_write_data_queue \in Seq(WriteWords)
    BY <1>1, <1>2, <1>3, <2>1 DEF AxTypes, IsJoin
  <2>4. /\ int_write_data_queue' \in Seq(WriteWords)
        /\ JoinsUp(int_write_data_queue, n, g, int_write_data_queue')
    <3>1. n \in Nat
      BY <1>4
    <3> QED BY <2>2, <2>3, <3>1, JoinOf
  <2>5. \A i \in 1 .. l + n : ~(i <= l) => i - l \in 1 .. n
    BY <1>4
  <2> QED BY <1>6, <2>2, <2>4, <2>5 DEF JoinsUp
<1>9. PICK h \in {0, 1} : h = HasAddress /\ h = HasAddress' /\ l = m + h
  <2>1. HasAddress \in {0, 1} /\ HasAddress' = HasAddress
    BY <1>1 DEF HasAddress
  <2> QED BY <1>2, <1>6, <2>1 DEF WordsOwed
<1>9a. l = m + h
  BY <1>9
<1>10. ASSUME NEW i \in 1 .. l + n
       PROVE  /\ i <= l => WriteAt(i)' = WriteAt(i)
              /\ ~(i <= l) => WriteAt(i)' = Slot(addr, i - l) /\ i - l \in 1 .. n
  <2>1. WriteAt(i)' = IF i <= h THEN waddr ELSE Aligned(int_write_addr_queue'[i - h])
    BY <1>1, <1>9 DEF WriteAt, Aligned
  <2>2. WriteAt(i) = IF i <= h THEN waddr ELSE Aligned(int_write_addr_queue[i - h])
    BY <1>9 DEF WriteAt
  <2>3. CASE i <= l
    <3>1. ~(i <= h) => i - h \in 1 .. m
      BY <1>9a, <2>3
    <3> QED BY <1>7, <2>1, <2>2, <2>3, <3>1
  <2>4. CASE ~(i <= l)
    <3>1. ~(i <= h) /\ i - h \in 1 .. m + n /\ ~(i - h <= m) /\ (i - h) - m = i - l
          /\ i - l \in 1 .. n
      BY <1>4, <1>9a, <2>4
    <3>2. int_write_addr_queue'[i - h] = WordAddr(addr, (i - h) - m)
      BY <1>7, <3>1
    <3> QED BY <1>5, <2>1, <2>4, <3>1, <3>2
  <2> QED BY <2>3, <2>4
<1>11. WordsOwed'
  <2>1. PICK r, o \in Nat : r = Len(int_write_resp_queue) /\ o = IF wpc = "b" THEN 1 ELSE 0
    <3>1. int_write_resp_queue \in Seq({"OKAY"})
      BY <1>2 DEF AxTypes
    <3>2. Len(int_write_resp_queue) \in Nat /\ (IF wpc = "b" THEN 1 ELSE 0) \in Nat
      BY <3>1
    <3> QED BY <3>2
  <2>2. Owed = l + o + r
    BY <1>6, <2>1 DEF Owed
  <2>3. Owed' = (l + n) + o + r
    BY <1>1, <1>8, <2>1 DEF Owed
  <2>4. Owed' = Owed + n /\ Owed \in Int
    BY <1>4, <2>2, <2>3
  <2>5. AddsUp(int_write_resp_command_queue', Owed + n)
    <3>1. int_write_resp_command_queue \in Seq(Nat \ {0})
      BY <1>2 DEF AxTypes
    <3>2. AddsUp(int_write_resp_command_queue, Owed)
      BY <1>2 DEF WordsOwed
    <3> QED BY <1>1, <1>4, <2>4, <3>1, <3>2, AddsUpAppend
  <2>6. AddsUp(int_write_resp_command_queue, Owed)'
    BY <2>4, <2>5 DEF AddsUp
  <2>7. \A i \in 1 .. l + n : WriteAt(i)' \in Nat /\ WriteAt(i)' + BusBytes <= RamSize
    <3>1. ASSUME NEW i \in 1 .. l + n
          PROVE  WriteAt(i)' \in Nat /\ WriteAt(i)' + BusBytes <= RamSize
      <4>1. CASE i <= l
        <5>1. i \in 1 .. l
          BY <4>1
        <5> QED BY <1>2, <1>6, <1>10, <4>1, <5>1 DEF WordsOwed
      <4>2. CASE ~(i <= l)
        BY <1>5, <1>10, <4>2
      <4> QED BY <4>1, <4>2
    <3> QED BY <3>1
  <2>8. l + n = (m + n) + h
    BY <1>4, <1>9
  <2> QED BY <1>7, <1>8, <1>9, <2>6, <2>7, <2>8 DEF WordsOwed
<1>12. wanted_ram \in Memories
  BY <1>2 DEF AxTypes
<1>13. /\ \A k \in 1 .. n + 1 : Slot(addr, k) \in Nat
       /\ Slot(addr, 1) <= addr /\ Slot(addr, n + 1) >= addr + Len(bytes)
  <2>1. 1 \in 1 .. n /\ n \in 1 .. n
    BY <1>4
  <2>2. Slot(addr, 1) <= addr
    BY <1>3, <1>4, <2>1, WordSpan
  <2>3. Slot(addr, n + 1) >= addr + Len(bytes)
    <3>1. addr + Len(bytes) <= Slot(addr, n) + BusBytes
      BY <1>3, <1>4, <2>1, WordSpan
    <3>2. PICK b \in Nat, v \in Nat \ {0} : b = Slot(addr, n) /\ v = BusBytes
      BY <1>5, <2>1, AxShape
    <3> QED BY <1>3, <1>5, <2>1, <3>1, <3>2
  <2>4. ASSUME NEW k \in 1 .. n + 1 PROVE Slot(addr, k) \in Nat
    <3>1. CASE k = n + 1
      <4>1. PICK b \in Nat, v \in Nat \ {0} : b = Slot(addr, n) /\ v = BusBytes
        BY <1>5, <2>1, AxShape
      <4> QED BY <1>5, <2>1, <3>1, <4>1
    <3>2. CASE k # n + 1
      <4>1. k \in 1 .. n
        BY <1>4, <3>2
      <4> QED BY <1>5, <4>1
    <3> QED BY <3>1, <3>2
  <2> QED BY <2>2, <2>3, <2>4
<1> DEFINE Mid(k) == UpTo(wanted_ram, addr, bytes, Slot(addr, k))
<1>14. /\ \A k \in 1 .. n + 1 : Mid(k) \in Memories
       /\ Mid(1) = wanted_ram /\ Mid(n + 1) = wanted_ram'
       /\ \A k \in 1 .. n : Mid(k + 1) = PutWord(Mid(k), Slot(addr, k), Word(addr, bytes, k))
  <2>1. /\ \A b \in Nat : UpTo(wanted_ram, addr, bytes, b) \in Memories
        /\ \A b \in Nat : b <= addr => UpTo(wanted_ram, addr, bytes, b) = wanted_ram
        /\ \A b \in Nat : b >= addr + Len(bytes) =>
             UpTo(wanted_ram, addr, bytes, b) = Changed(wanted_ram, addr, bytes)
        /\ \A k \in 1 .. cycles(addr, Len(bytes)) :
             UpTo(wanted_ram, addr, bytes, Slot(addr, k) + BusBytes)
               = PutWord(UpTo(wanted_ram, addr, bytes, Slot(addr, k)), Slot(addr, k),
                         Word(addr, bytes, k))
    BY <1>3, <1>12, UpToSteps
  <2>2. 1 \in 1 .. n + 1 /\ n + 1 \in 1 .. n + 1
    BY <1>4
  <2>3. Mid(1) = wanted_ram /\ Mid(n + 1) = wanted_ram'
    BY <1>1, <1>3, <1>13, <2>1, <2>2
  <2>4. \A k \in 1 .. n : Mid(k + 1) = PutWord(Mid(k), Slot(addr, k), Word(addr, bytes, k))
    BY <1>4, <1>5, <2>1
  <2> QED BY <1>13, <2>1, <2>3, <2>4
<1> HIDE DEF Mid
<1>15. WordsLead'
  <2>0. SUFFICES ASSUME ~moved' PROVE WordsLead'
    BY DEF WordsLead
  <2>1. PICK s \in [0 .. l -> Memories] :
          /\ s[0] = ram /\ s[l] = wanted_ram
          /\ \A i \in 1 .. l : s[i] = PutWord(s[i - 1], WriteAt(i), int_write_data_queue[i])
    BY <1>1, <1>2, <1>6, <2>0 DEF WordsLead
  <2> DEFINE u == [i \in 0 .. l + n |-> IF i <= l THEN s[i] ELSE Mid(i - l + 1)]
  <2>2. u \in [0 .. l + n -> Memories]
    <3>1. ASSUME NEW i \in 0 .. l + n
          PROVE  (IF i <= l THEN s[i] ELSE Mid(i - l + 1)) \in Memories
      <4>1. CASE i <= l
        <5>1. i \in 0 .. l
          BY <4>1
        <5> QED BY <2>1, <4>1, <5>1
      <4>2. CASE ~(i <= l)
        <5>1. i - l + 1 \in 1 .. n + 1
          BY <1>4, <4>2
        <5> QED BY <1>14, <4>2, <5>1
      <4> QED BY <4>1, <4>2
    <3> QED BY <3>1
  <2>3. u[0] = ram' /\ u[l + n] = wanted_ram'
    <3>1. 0 <= l /\ ~(l + n <= l) /\ (l + n) - l + 1 = n + 1 /\ 0 \in 0 .. l + n
          /\ l + n \in 0 .. l + n
      BY <1>4
    <3>2. u[0] = s[0] /\ u[l + n] = Mid((l + n) - l + 1)
      BY <3>1
    <3> HIDE DEF u
    <3> QED BY <1>1, <1>14, <2>1, <3>1, <3>2
  <2>4. ASSUME NEW i \in 1 .. l + n
        PROVE  u[i] = PutWord(u[i - 1], WriteAt(i)', int_write_data_queue'[i])
    <3>1. CASE i <= l
      <4>1. i \in 1 .. l /\ i - 1 <= l /\ i - 1 \in 0 .. l + n
        BY <1>4, <3>1
      <4>2. u[i] = s[i] /\ u[i - 1] = s[i - 1]
        BY <3>1, <4>1
      <4> HIDE DEF u
      <4> QED BY <1>8, <1>10, <2>1, <3>1, <4>1, <4>2
    <3>2. CASE ~(i <= l)
      <4>1. PICK k \in 1 .. n : k = i - l /\ i - l + 1 = k + 1
        BY <1>4, <3>2
      <4>2. u[i] = Mid(k + 1)
        BY <3>2, <4>1
      <4>3. u[i - 1] = Mid(k)
        <5>1. CASE k = 1
          <6>1. i - 1 = l /\ l \in 0 .. l + n /\ l <= l
            BY <1>4, <4>1, <5>1
          <6>2. u[l] = s[l]
            BY <6>1
          <6> HIDE DEF u
          <6> QED BY <1>14, <2>1, <5>1, <6>1, <6>2
        <5>2. CASE k # 1
          <6>1. ~(i - 1 <= l) /\ i - 1 \in 0 .. l + n /\ (i - 1) - l + 1 = k
            BY <1>4, <4>1, <5>2
          <6> QED BY <6>1
        <5> QED BY <5>1, <5>2
      <4> HIDE DEF u
      <4>4. WriteAt(i)' = Slot(addr, k) /\ int_write_data_queue'[i] = Word(addr, bytes, k)
        BY <1>8, <1>10, <3>2, <4>1
      <4> QED BY <1>14, <4>2, <4>3, <4>4
    <3> QED BY <3>1, <3>2
  <2> HIDE DEF u
  <2>5. wpc' = "w" => pos' = waddr'
    BY <1>1, <1>2, <2>0 DEF WordsLead
  <2>6. PICK e \in Nat : e = l + n
    BY <1>4
  <2>7. /\ u \in [0 .. e -> Memories] /\ u[0] = ram' /\ u[e] = wanted_ram'
        /\ Len(int_write_data_queue') = e
        /\ \A i \in 1 .. e : u[i] = PutWord(u[i - 1], WriteAt(i)', int_write_data_queue'[i])
    BY <1>8, <2>2, <2>3, <2>4, <2>6
  <2> QED BY <2>5, <2>7 DEF WordsLead, PutWord
<1>16. WordsRead' /\ DataRight'
  BY <1>1, <1>2, ReadsRest
<1>17. /\ int_write_resp_command_queue' \in Seq(Nat \ {0})
       /\ Len(int_write_resp_command_queue') = Len(int_write_resp_command_queue) + 1
       /\ Len(int_write_resp_command_queue) \in Nat
  <2>1. int_write_resp_command_queue \in Seq(Nat \ {0})
    BY <1>2 DEF AxTypes
  <2> QED BY <1>1, <1>4, <2>1
<1>18. AxTypes'
  <2>1. wanted_ram' \in Memories
    <3>1. n + 1 \in 1 .. n + 1
      BY <1>4
    <3> QED BY <1>14, <3>1
  <2>2. in_flight_operations' \in Int /\ ops_made' \in Nat
    BY <1>1, <1>2 DEF AxTypes
  <2> QED BY <1>1, <1>2, <1>7, <1>8, <1>17, <2>1, <2>2 DEF AxTypes, masterReads, ramReads
<1>19. Answered'
  <2>1. /\ int_read_resp_command_queue' = int_read_resp_command_queue
        /\ read_data_ops' = read_data_ops
    BY <1>1 DEF masterReads
  <2>2. PICK a, b, d \in Nat : /\ a = Len(int_read_resp_command_queue) /\ b = Len(read_data_ops)
                               /\ d = Len(write_resp_queue)
    BY <1>2 DEF AxTypes
  <2>3. PICK c \in Nat : c = Len(int_write_resp_command_queue)
    BY <1>17
  <2>4. in_flight_operations = c + a /\ (d + b) + in_flight_operations = ops_made
    BY <1>2, <2>2, <2>3 DEF Answered
  <2>5. in_flight_operations + 1 = (c + 1) + a
        /\ (d + b) + (in_flight_operations + 1) = ops_made + 1
    BY <2>4
  <2> QED BY <1>1, <1>17, <2>1, <2>2, <2>3, <2>5 DEF Answered
<1> QED BY <1>11, <1>15, <1>16, <1>18, <1>19 DEF AxInv

(* Places among the words asked for.                                       *)
LEMMA Places ==
  ASSUME NEW n \in Nat, NEW t \in [0 .. n -> Nat],
         \A i, j \in 0 .. n : i < j => t[i] < t[j],
         NEW i \in 1 .. n, NEW p \in t[i - 1] + 1 .. t[i]
  PROVE  p \in 1 .. t[n]
<1>1. i - 1 \in 0 .. n /\ i \in 0 .. n /\ n \in 0 .. n
  OBVIOUS
<1>2. PICK a, b, c \in Nat : a = t[i - 1] /\ b = t[i] /\ c = t[n]
  BY <1>1
<1>3. b <= c
  <2>1. CASE i = n
    BY <1>2, <2>1
  <2>2. CASE i # n
    <3>1. i < n
      BY <2>2
    <3>2. t[i] < t[n]
      BY <1>1, <3>1
    <3> QED BY <1>2, <3>2
  <2> QED BY <2>1, <2>2
<1>4. p \in a + 1 .. b
  BY <1>2
<1> QED BY <1>2, <1>3, <1>4

(* A place of a call is one of its words.                                  *)
LEMMA PlaceWord ==
  ASSUME NEW c \in ReadCalls, c.k \in 1 .. cycles(c.addr, c.length), NEW a \in Nat, NEW b \in Nat,
         b = a + WordsLeft(c), NEW p \in a + 1 .. b
  PROVE  c.k + (p - a - 1) \in 1 .. cycles(c.addr, c.length)
<1>1. PICK n, k \in Nat \ {0} : n = cycles(c.addr, c.length) /\ k = c.k /\ k <= n
  <2>1. cycles(c.addr, c.length) \in Nat \ {0}
    BY CallWords DEF ReadCalls
  <2>2. c.k \in Nat \ {0}
    BY DEF ReadCalls
  <2> QED BY <2>1, <2>2
<1>2. b = a + (n - k + 1)
  BY <1>1 DEF WordsLeft
<1> QED BY <1>1, <1>2

(* Words move towards the master.                                          *)
LEMMA SameReads ==
  ASSUME AxTypes, WordsRead, UNCHANGED <<int_read_resp_command_queue, ram>>, Asked' = Asked,
         \A p \in 1 .. Asked, c \in ReadCalls, k \in Nat :
           GoodCall(c, ram) /\ k \in 1 .. cycles(c.addr, c.length) /\ Fits(p, c, k)
             => Fits(p, c, k)'
  PROVE  WordsRead'
<1>1. PICK n \in Nat, q \in Seq(ReadCalls) :
        n = Len(q) /\ q = int_read_resp_command_queue /\ q = int_read_resp_command_queue'
  BY DEF AxTypes
<1>2. \A i \in 1 .. n : q[i] \in ReadCalls /\ GoodCall(q[i], ram)
  BY <1>1 DEF WordsRead
<1>3. PICK t \in [0 .. n -> Nat] :
        /\ t[0] = 0 /\ t[n] = Asked
        /\ \A i, j \in 0 .. n : i < j => t[i] < t[j]
        /\ \A i \in 1 .. n : /\ t[i] = t[i - 1] + WordsLeft(q[i])
                             /\ \A p \in t[i - 1] + 1 .. t[i] :
                                  Fits(p, q[i], q[i].k + (p - t[i - 1] - 1))
  BY <1>1 DEF WordsRead
<1>4. ASSUME NEW i \in 1 .. n, NEW p \in t[i - 1] + 1 .. t[i]
      PROVE  Fits(p, q[i], q[i].k + (p - t[i - 1] - 1))'
  <2>1. p \in 1 .. Asked
    BY <1>3, Places
  <2>2. PICK a, b \in Nat : a = t[i - 1] /\ b = t[i]
    <3>1. i - 1 \in 0 .. n /\ i \in 0 .. n
      OBVIOUS
    <3> QED BY <3>1
  <2>3. PICK c \in ReadCalls : c = q[i]
    BY <1>2
  <2>4. GoodCall(c, ram) /\ c.k \in 1 .. cycles(c.addr, c.length)
    BY <1>2, <2>3 DEF GoodCall
  <2>5. b = a + WordsLeft(c) /\ p \in a + 1 .. b
    BY <1>3, <2>2, <2>3
  <2>6. c.k + (p - a - 1) \in 1 .. cycles(c.addr, c.length)
    BY <2>4, <2>5, PlaceWord
  <2>7. PICK k : k = c.k + (p - a - 1)
    OBVIOUS
  <2>8. k \in Nat
    <3>1. cycles(c.addr, c.length) \in Nat
      BY CallWords DEF ReadCalls
    <3> QED BY <2>6, <2>7, <3>1
  <2>9. Fits(p, c, k)
    BY <1>3, <2>2, <2>3, <2>7
  <2>10. Fits(p, c, k)'
    BY <2>1, <2>4, <2>6, <2>7, <2>8, <2>9
  <2> QED BY <2>2, <2>3, <2>7, <2>10
<1>5. WordsRead'
  <2>1. \A i \in 1 .. n : GoodCall(q[i], ram)'
    BY <1>2 DEF GoodCall, Collected, Slot, SpanBlock, cycles
  <2>2. \A i \in 1 .. n : t[i] = t[i - 1] + WordsLeft(q[i])'
    BY <1>3 DEF WordsLeft, cycles
  <2>3. \A i \in 1 .. n : \A p \in t[i - 1] + 1 .. t[i] :
                            Fits(p, q[i], q[i].k + (p - t[i - 1] - 1))'
    BY <1>4
  <2>4. t[0] = 0 /\ t[n] = Asked' /\ \A i, j \in 0 .. n : i < j => t[i] < t[j]
    BY <1>3
  <2>5. q = int_read_resp_command_queue' /\ n = Len(int_read_resp_command_queue')
    BY <1>1
  <2> QED BY <2>1, <2>2, <2>3, <2>4, <2>5, Zenon DEF WordsRead
<1> QED BY <1>5

(* The RAM takes an address to read at.                                    *)
LEMMA TakeArStep == ASSUME AxInv, TakeAr PROVE AxInv'
<1>1. /\ rpc = "ar" /\ rpc' = "latency" /\ int_read_addr_queue # << >>
      /\ raddr' = Aligned(Head(int_read_addr_queue))
      /\ int_read_addr_queue' = Tail(int_read_addr_queue)
      /\ UNCHANGED <<int_read_resp_queue, int_read_resp_command_queue, read_data_ops,
                     in_flight_operations, rdata, pos, ram, wanted_ram, moved, ops_made>>
      /\ UNCHANGED <<masterWrites, ramWrites, ram, wanted_ram>>
  BY DEF TakeAr, Aligned
<1>2. AxTypes /\ Answered /\ WordsOwed /\ WordsLead /\ WordsRead /\ DataRight
  BY DEF AxInv
<1>3. PICK l \in Nat, r \in Nat : l + 1 = Len(int_read_addr_queue) /\ r = Len(int_read_resp_queue)
  <2>1. int_read_addr_queue \in Seq(Nat) /\ int_read_resp_queue \in Seq(ReadWords)
    BY <1>2 DEF AxTypes
  <2>2. Len(int_read_addr_queue) - 1 \in Nat
    BY <1>1, <2>1
  <2> QED BY <2>1, <2>2
<1>4. /\ int_read_addr_queue' \in Seq(Nat) /\ Len(int_read_addr_queue') = l
      /\ \A i \in 1 .. l : int_read_addr_queue'[i] = int_read_addr_queue[i + 1]
      /\ Head(int_read_addr_queue) = int_read_addr_queue[1]
      /\ Head(int_read_addr_queue) \in Nat
  <2>1. int_read_addr_queue \in Seq(Nat)
    BY <1>2 DEF AxTypes
  <2> QED BY <1>1, <1>3, <2>1
<1>5. Reading = 0 /\ Reading' = 1
  BY <1>1 DEF Reading
<1>6. Asked' = Asked /\ Asked = r + 0 + (l + 1)
  <2>1. Asked = r + 0 + (l + 1)
    BY <1>3, <1>5 DEF Asked
  <2>2. Asked' = r + 1 + l
    BY <1>1, <1>3, <1>4, <1>5 DEF Asked
  <2> QED BY <2>1, <2>2
<1>7. ASSUME NEW p \in 1 .. Asked, NEW c \in ReadCalls, NEW k \in Nat, Fits(p, c, k)
      PROVE  Fits(p, c, k)'
  <2>0. p \in 1 .. r + (l + 1)
    BY <1>6
  <2>1. p <= r => Serves(int_read_resp_queue[p], c, k)
    BY <1>3, <1>7 DEF Fits
  <2>2. p > r => Aligned(int_read_addr_queue[p - r]) = Slot(c.addr, k)
    <3>1. r + 0 = r
      OBVIOUS
    <3> QED BY <1>3, <1>5, <1>7, <3>1 DEF Fits
  <2>3. p = r + 1 => raddr' = Slot(c.addr, k)
    <3>1. p = r + 1 => p > r /\ p - r = 1
      OBVIOUS
    <3> QED BY <1>1, <1>4, <2>2, <3>1
  <2>4. p > r + 1 => Aligned(int_read_addr_queue'[p - (r + 1)]) = Slot(c.addr, k)
    <3>1. p > r + 1 => p > r /\ p - (r + 1) \in 1 .. l /\ (p - (r + 1)) + 1 = p - r
      BY <2>0
    <3> QED BY <1>4, <2>2, <3>1
  <2> QED BY <1>1, <1>3, <1>5, <2>1, <2>3, <2>4 DEF Fits, Serves, Slot, SpanBlock, Aligned
<1>8. WordsRead'
  BY <1>1, <1>2, <1>6, <1>7, SameReads
<1>9. WordsOwed' /\ WordsLead'
  BY <1>1, <1>2, WritesRest
<1>10. DataRight'
  BY <1>1, <1>2 DEF DataRight
<1>11. raddr' \in Nat /\ \E q \in Nat : raddr' = BusBytes * q
  BY <1>1, <1>4, AlignedMultiple, AlignedType
<1>12. AxTypes'
  BY <1>1, <1>2, <1>4, <1>11 DEF AxTypes, masterWrites, ramWrites
<1>13. Answered'
  BY <1>1, <1>2 DEF Answered, masterWrites
<1> QED BY <1>8, <1>9, <1>10, <1>12, <1>13 DEF AxInv

(* It reads a word.                                                        *)
LEMMA SeekReadStep == ASSUME AxInv, SeekRead PROVE AxInv'
<1>1. /\ rpc = "latency" /\ rpc' = "r"
      /\ rdata' = [j \in 0 .. BusBytes - 1 |-> ram[(raddr % RamSize) + j]]
      /\ pos' = (raddr % RamSize) + BusBytes
      /\ moved' = (moved \/ wpc = "w")
      /\ UNCHANGED <<masterReads, int_read_addr_queue, int_read_resp_queue,
                     int_read_resp_command_queue, read_data_ops, in_flight_operations, raddr,
                     ops_made>>
      /\ UNCHANGED <<masterWrites, ramWrites, ram, wanted_ram>>
  BY DEF SeekRead, masterReads
<1>2. AxTypes /\ Answered /\ WordsOwed /\ WordsLead /\ WordsRead /\ DataRight
  BY DEF AxInv
<1>3. PICK w, size \in Nat \ {0} : w = BusBytes /\ size = RamSize
  BY AxShape
<1>4. PICK e \in Nat : e = raddr % size /\ e + w <= size
  <2>1. PICK a, q \in Nat : a = raddr /\ a = w * q
    BY <1>2, <1>3 DEF AxTypes
  <2>2. PICK e \in Nat : e = a % size /\ e < size /\ \E f \in Int : e = w * f
    <3>1. a % size \in Nat /\ a % size < size /\ \E f \in Int : a % size = w * f
      <4>1. w \in Nat \ {0} /\ w = BusBytes /\ size \in Nat \ {0} /\ size = RamSize
        BY <1>3
      <4>2. a \in Nat /\ q \in Nat /\ a = w * q
        BY <2>1
      <4> QED BY <4>1, <4>2, PartOfRam, ZenonT(40)
    <3> QED BY <3>1, Zenon
  <2>3. e + w <= size
    <3>1. PICK f \in Int : e = BusBytes * f
      BY <1>3, <2>2
    <3>2. e < RamSize
      BY <1>3, <2>2
    <3> QED BY <1>3, <3>1, <3>2, BlockFits
  <2> QED BY <2>1, <2>2, <2>3
<1>5. /\ rdata' \in ReadWords /\ \A j \in 0 .. w - 1 : rdata'[j] = ram[e + j]
  <2>1. rdata' = [j \in 0 .. w - 1 |-> ram[e + j]]
    BY <1>1, <1>3, <1>4
  <2>2. \A j \in 0 .. w - 1 : ram[e + j] \in Int
    <3>1. ASSUME NEW j \in 0 .. w - 1 PROVE ram[e + j] \in Int
      <4>1. PICK a \in 0 .. RamSize - 1 : a = e + j
        BY <1>3, <1>4
      <4>2. ram[a] \in Int
        BY <1>2 DEF AxTypes, Memories
      <4> QED BY <4>1, <4>2
    <3> QED BY <3>1
  <2> QED BY <1>3, <2>1, <2>2 DEF ReadWords
<1>6. Reading = 1 /\ Reading' = 1 /\ Asked' = Asked
  BY <1>1 DEF Reading, Asked
<1>7. ASSUME NEW p \in 1 .. Asked, NEW c \in ReadCalls, NEW k \in Nat, GoodCall(c, ram),
             k \in 1 .. cycles(c.addr, c.length), Fits(p, c, k)
      PROVE  Fits(p, c, k)'
  <2>1. ASSUME raddr = Slot(c.addr, k) PROVE Serves(rdata', c, k)
    <3>1. PICK addr \in Nat, len \in Nat \ {0} : addr = c.addr /\ len = c.length
      BY DEF ReadCalls
    <3>2. k \in 1 .. cycles(addr, len) /\ addr + len <= RamSize
      BY <1>7, <3>1 DEF GoodCall
    <3>3. Slot(addr, k) % RamSize = Slot(addr, k)
      BY <3>2, WordInside
    <3>4. e = Slot(addr, k)
      BY <1>3, <1>4, <2>1, <3>1, <3>3
    <3>5. ASSUME NEW i \in 1 .. len, (addr + i) - 1 - e \in 0 .. w - 1
          PROVE  rdata'[(addr + i) - 1 - e] \in c.seen[i]
      <4>1. PICK j \in 0 .. w - 1 : j = (addr + i) - 1 - e /\ e + j = (addr + i) - 1
        BY <3>5
      <4>2. rdata'[j] = ram[(addr + i) - 1]
        BY <1>5, <4>1
      <4>3. ram[(addr + i) - 1] \in c.seen[i]
        BY <1>7, <3>1 DEF GoodCall
      <4> QED BY <4>1, <4>2, <4>3
    <3> QED BY <1>3, <3>1, <3>4, <3>5 DEF Serves
  <2>2. p = Len(int_read_resp_queue) + 1 => raddr = Slot(c.addr, k)
    BY <1>1, <1>7 DEF Fits
  <2>3. /\ p <= Len(int_read_resp_queue) => Serves(int_read_resp_queue[p], c, k)
        /\ p > Len(int_read_resp_queue) + 1 =>
             Aligned(int_read_addr_queue[p - (Len(int_read_resp_queue) + 1)]) = Slot(c.addr, k)
    BY <1>6, <1>7 DEF Fits
  <2> QED BY <1>1, <1>6, <2>1, <2>2, <2>3 DEF Fits, Serves, Slot, SpanBlock, Aligned
<1>8. WordsRead'
  BY <1>1, <1>2, <1>6, <1>7, SameReads
<1>9. WordsOwed' /\ WordsLead'
  <2>1. moved => moved'
    BY <1>1
  <2>2. ~moved' /\ wpc = "w" => pos' = pos
    BY <1>1
  <2> QED BY <1>1, <1>2, <2>1, <2>2, WritesRest
<1>10. DataRight'
  BY <1>1, <1>2 DEF DataRight
<1>11. pos' \in Nat /\ moved' \in BOOLEAN
  <2>1. pos' = e + w
    BY <1>1, <1>3, <1>4
  <2>2. moved' \in BOOLEAN
    BY <1>1
  <2> QED BY <2>1, <2>2
<1>12. AxTypes'
  BY <1>1, <1>2, <1>5, <1>11 DEF AxTypes, masterWrites, ramWrites
<1>13. Answered'
  BY <1>1, <1>2 DEF Answered, masterWrites
<1> QED BY <1>8, <1>9, <1>10, <1>12, <1>13 DEF AxInv

(* It hands the word over.                                                 *)
LEMMA GiveRStep == ASSUME AxInv, GiveR PROVE AxInv'
<1>1. /\ rpc = "r" /\ rpc' = "ar"
      /\ int_read_resp_queue' = Append(int_read_resp_queue, rdata)
      /\ UNCHANGED <<int_read_addr_queue, int_read_resp_command_queue, read_data_ops,
                     in_flight_operations, raddr, rdata, pos, ram, wanted_ram, moved, ops_made>>
      /\ UNCHANGED <<masterWrites, ramWrites, ram, wanted_ram>>
  BY DEF GiveR
<1>2. AxTypes /\ Answered /\ WordsOwed /\ WordsLead /\ WordsRead /\ DataRight
  BY DEF AxInv
<1>3. PICK l \in Nat, r \in Nat : l = Len(int_read_addr_queue) /\ r = Len(int_read_resp_queue)
  <2>1. int_read_addr_queue \in Seq(Nat) /\ int_read_resp_queue \in Seq(ReadWords)
    BY <1>2 DEF AxTypes
  <2> QED BY <2>1
<1>4. /\ int_read_resp_queue' \in Seq(ReadWords) /\ Len(int_read_resp_queue') = r + 1
      /\ \A i \in 1 .. r : int_read_resp_queue'[i] = int_read_resp_queue[i]
      /\ int_read_resp_queue'[r + 1] = rdata
  <2>1. int_read_resp_queue \in Seq(ReadWords) /\ rdata \in ReadWords
    BY <1>1, <1>2 DEF AxTypes
  <2> QED BY <1>1, <1>3, <2>1, AppendProperties
<1>5. Reading = 1 /\ Reading' = 0
  BY <1>1 DEF Reading
<1>6. Asked' = Asked /\ Asked = r + 1 + l
  BY <1>1, <1>3, <1>4, <1>5 DEF Asked
<1>7. ASSUME NEW p \in 1 .. Asked, NEW c \in ReadCalls, NEW k \in Nat, Fits(p, c, k)
      PROVE  Fits(p, c, k)'
  <2>1. p <= r + 1 => Serves(int_read_resp_queue'[p], c, k)
    <3>1. p <= r => Serves(int_read_resp_queue[p], c, k) /\ p \in 1 .. r
      BY <1>3, <1>6, <1>7 DEF Fits
    <3>2. p = r + 1 => Serves(rdata, c, k)
      BY <1>1, <1>3, <1>7 DEF Fits
    <3>3. p <= r + 1 => p <= r \/ p = r + 1
      BY <1>6
    <3> QED BY <1>4, <3>1, <3>2, <3>3
  <2>2. p > r + 1 => Aligned(int_read_addr_queue[p - (r + 1)]) = Slot(c.addr, k)
    BY <1>3, <1>5, <1>7 DEF Fits
  <2>3. (r + 1) + 0 = r + 1
    OBVIOUS
  <2> QED BY <1>1, <1>4, <1>5, <2>1, <2>2, <2>3 DEF Fits, Serves, Slot, SpanBlock, Aligned
<1>8. WordsRead'
  BY <1>1, <1>2, <1>6, <1>7, SameReads
<1>9. WordsOwed' /\ WordsLead'
  BY <1>1, <1>2, WritesRest
<1>10. DataRight'
  BY <1>1, <1>2 DEF DataRight
<1>11. AxTypes'
  BY <1>1, <1>2, <1>4 DEF AxTypes, masterWrites, ramWrites
<1>12. Answered'
  BY <1>1, <1>2 DEF Answered, masterWrites
<1> QED BY <1>8, <1>9, <1>10, <1>11, <1>12 DEF AxInv

(* A read is called: its words follow those that are asked for.            *)
LEMMA InitReadStep == ASSUME AxInv, init_axil_read PROVE AxInv'
<1>1. PICK w, n :
        /\ w \in AxilReads
        /\ n = cycles(w[1], w[2]) /\ ops_made' = ops_made + 1
        /\ int_read_addr_queue' = int_read_addr_queue \o [k \in 1 .. n |-> WordAddr(w[1], k)]
        /\ int_read_resp_command_queue' =
             Append(int_read_resp_command_queue,
                    [addr |-> w[1], length |-> w[2], k |-> 1, data |-> << >>,
                     seen |-> [i \in 1 .. w[2] |-> {ram[w[1] + i - 1]}]])
        /\ in_flight_operations' = in_flight_operations + 1
        /\ UNCHANGED <<int_read_resp_queue, read_data_ops, rpc, raddr, rdata, pos, moved>>
        /\ UNCHANGED <<masterWrites, ramWrites, ram, wanted_ram>>
  BY DEF init_axil_read, ramReads
<1>2. AxTypes /\ Answered /\ WordsOwed /\ WordsLead /\ WordsRead /\ DataRight
  BY DEF AxInv
<1>3. PICK addr \in Nat, len \in Nat \ {0} :
        addr = w[1] /\ len = w[2] /\ addr + len <= RamSize
  <2>1. w[1] \in Nat /\ w[2] \in Nat \ {0} /\ w[1] + w[2] <= RamSize
    BY <1>1, AxilAssumption
  <2> QED BY <2>1
<1>4. n \in Nat \ {0} /\ n = cycles(addr, len)
  BY <1>1, <1>3, CallWords
<1>5. \A k \in 1 .. n : /\ WordAddr(addr, k) \in Nat
                        /\ Aligned(WordAddr(addr, k)) = Slot(addr, k)
  BY <1>4, WordSpan
<1>6. PICK r \in Nat, m \in Nat : r = Len(int_read_resp_queue) /\ m = Len(int_read_addr_queue)
  <2>1. int_read_resp_queue \in Seq(ReadWords) /\ int_read_addr_queue \in Seq(Nat)
    BY <1>2 DEF AxTypes
  <2> QED BY <2>1
<1>7. /\ int_read_addr_queue' \in Seq(Nat) /\ Len(int_read_addr_queue') = m + n
      /\ \A i \in 1 .. m : int_read_addr_queue'[i] = int_read_addr_queue[i]
      /\ \A i \in 1 .. m + n : ~(i <= m) => int_read_addr_queue'[i] = WordAddr(addr, i - m)
  <2>1. PICK g : g = [k \in 1 .. n |-> WordAddr(addr, k)]
    OBVIOUS
  <2>2. g \in [1 .. n -> Nat] /\ \A k \in 1 .. n : g[k] = WordAddr(addr, k)
    BY <1>5, <2>1
  <2>3. /\ IsJoin(int_read_addr_queue, g, int_read_addr_queue')
        /\ int_read_addr_queue \in Seq(Nat)
    BY <1>1, <1>2, <1>3, <2>1 DEF AxTypes, IsJoin
  <2>4. /\ int_read_addr_queue' \in Seq(Nat)
        /\ JoinsUp(int_read_addr_queue, n, g, int_read_addr_queue')
    <3>1. n \in Nat
      BY <1>4
    <3> QED BY <2>2, <2>3, <3>1, JoinOf
  <2>5. \A i \in 1 .. m + n : ~(i <= m) => i - m \in 1 .. n
    BY <1>4
  <2> QED BY <1>6, <2>2, <2>4, <2>5 DEF JoinsUp
<1>8. PICK s \in Seq(SUBSET Int) :
        /\ Len(s) = len /\ s = [i \in 1 .. len |-> {ram[addr + i - 1]}]
        /\ \A i \in 1 .. len : s[i] = {ram[(addr + i) - 1]}
  <2>1. PICK s : s = [i \in 1 .. len |-> {ram[addr + i - 1]}]
    OBVIOUS
  <2>2. ASSUME NEW i \in 1 .. len
        PROVE  s[i] = {ram[(addr + i) - 1]} /\ {ram[addr + i - 1]} \in SUBSET Int
    <3>1. PICK e \in 0 .. RamSize - 1 : e = (addr + i) - 1 /\ e = addr + i - 1
      BY <1>3, AxShape
    <3>2. ram[e] \in Int
      BY <1>2 DEF AxTypes, Memories
    <3> QED BY <2>1, <3>1, <3>2
  <2>3. s \in [1 .. len -> SUBSET Int]
    BY <2>1, <2>2
  <2>4. s \in Seq(SUBSET Int) /\ Len(s) = len
    BY <2>3, SeqOfFunction
  <2> QED BY <2>1, <2>2, <2>4
<1>9. PICK c : c = [addr |-> addr, length |-> len, k |-> 1, data |-> << >>, seen |-> s]
  OBVIOUS
<1>10. /\ c \in ReadCalls /\ c.addr = addr /\ c.length = len /\ c.k = 1 /\ c.data = << >>
       /\ c.seen = s
  <2>1. << >> \in Seq(Int)
    OBVIOUS
  <2>2. 1 \in Nat \ {0}
    OBVIOUS
  <2> QED BY <1>9, <2>1, <2>2 DEF ReadCalls
<1>11. GoodCall(c, ram)' /\ WordsLeft(c)' = n
  <2>1. c.k \in 1 .. cycles(c.addr, c.length)
    BY <1>4, <1>10
  <2>2. Len(c.data) = 0 /\ Collected(c) = 0
    BY <1>10 DEF Collected
  <2>3. \A i \in 1 .. c.length : ram[(c.addr + i) - 1] \in c.seen[i]
    BY <1>8, <1>10
  <2>4. GoodCall(c, ram)
    BY <1>3, <1>8, <1>10, <2>1, <2>2, <2>3 DEF GoodCall
  <2>5. WordsLeft(c) = n
    BY <1>4, <1>10 DEF WordsLeft
  <2> QED BY <1>1, <2>4, <2>5 DEF GoodCall, WordsLeft, Collected, Slot, SpanBlock, cycles
<1>12a. PICK q \in Seq(ReadCalls), z \in Seq(ReadCalls) :
          /\ q = int_read_resp_command_queue /\ z = int_read_resp_command_queue'
          /\ Len(z) = Len(q) + 1 /\ z[Len(q) + 1] = c
          /\ \A i \in 1 .. Len(q) : z[i] = q[i]
  <2>1. int_read_resp_command_queue \in Seq(ReadCalls)
    BY <1>2 DEF AxTypes
  <2>2. int_read_resp_command_queue' = Append(int_read_resp_command_queue, c)
    BY <1>1, <1>3, <1>8, <1>9
  <2>3. PICK q, z : q = int_read_resp_command_queue /\ z = int_read_resp_command_queue'
    OBVIOUS
  <2>4. q \in Seq(ReadCalls) /\ z = Append(q, c) /\ c \in ReadCalls
    BY <1>10, <2>1, <2>2, <2>3
  <2>5. z \in Seq(ReadCalls) /\ Len(z) = Len(q) + 1 /\ z[Len(q) + 1] = c
        /\ \A i \in 1 .. Len(q) : z[i] = q[i]
    BY <2>4, AppendProperties
  <2> QED BY <2>3, <2>4, <2>5, Zenon
<1>12b. PICK l \in Nat : l = Len(q)
  OBVIOUS
<1>12. /\ q = int_read_resp_command_queue /\ l = Len(q)
       /\ z = int_read_resp_command_queue' /\ Len(z) = l + 1 /\ z[l + 1] = c
       /\ \A i \in 1 .. l : z[i] = q[i]
  BY <1>12a, <1>12b
<1>13. Reading' = Reading /\ Reading \in {0, 1}
  BY <1>1 DEF Reading
<1>14. PICK h \in {0, 1} : h = Reading
  BY <1>13
<1>15. PICK e \in Nat : e = (r + h) + m
  OBVIOUS
<1>16. Asked = e /\ Asked' = e + n
  <2>1. Asked' = (r + h) + (m + n)
    BY <1>1, <1>6, <1>7, <1>13, <1>14 DEF Asked
  <2> QED BY <1>4, <1>6, <1>14, <1>15, <2>1 DEF Asked
<1>17. ASSUME NEW p \in 1 .. e, NEW d, NEW k, Fits(p, d, k) PROVE Fits(p, d, k)'
  <2>1. p > r + h => p - (r + h) \in 1 .. m
    BY <1>15
  <2>2. p > r + h => Aligned(int_read_addr_queue'[p - (r + h)]) = Slot(d.addr, k)
    BY <1>6, <1>7, <1>14, <1>17, <2>1 DEF Fits
  <2>3. /\ p <= r => Serves(int_read_resp_queue[p], d, k)
        /\ p = r + 1 /\ rpc = "r" => Serves(rdata, d, k)
        /\ p = r + 1 /\ rpc = "latency" => raddr = Slot(d.addr, k)
    BY <1>6, <1>17 DEF Fits
  <2> QED BY <1>1, <1>6, <1>13, <1>14, <2>2, <2>3
      DEF Fits, Serves, Slot, SpanBlock, Aligned
<1>18. ASSUME NEW p \in e + 1 .. e + n PROVE Fits(p, c, c.k + (p - e - 1))'
  <2>1. PICK k \in 1 .. n : k = c.k + (p - e - 1) /\ p - e = k
    BY <1>4, <1>10
  <2>2. p > r + h /\ p - (r + h) \in 1 .. m + n /\ ~(p - (r + h) <= m)
        /\ (p - (r + h)) - m = k /\ p > r /\ (p = r + 1 => h = 0)
    <3>1. n \in Nat \ {0}
      BY <1>4
    <3>2. p = ((r + h) + m) + k
      BY <1>15, <2>1
    <3> QED BY <3>1, <3>2
  <2>3. int_read_addr_queue'[p - (r + h)] = WordAddr(addr, k)
    BY <1>7, <2>2
  <2>4. Aligned(int_read_addr_queue'[p - (r + h)]) = Slot(c.addr, k)
    BY <1>5, <1>10, <2>3
  <2>5. p = r + 1 => rpc = "ar"
    BY <1>14, <2>2 DEF Reading
  <2>6. ~(p <= r)
    BY <2>2
  <2>7. Fits(p, c, k)'
    BY <1>1, <1>6, <1>13, <1>14, <2>4, <2>5, <2>6
       DEF Fits, Serves, Slot, SpanBlock, Aligned
  <2> QED BY <2>1, <2>7
<1>19. WordsRead'
  <2>1. PICK t \in [0 .. l -> Nat] :
          /\ t[0] = 0 /\ t[l] = e
          /\ \A i, j \in 0 .. l : i < j => t[i] < t[j]
          /\ \A i \in 1 .. l : /\ t[i] = t[i - 1] + WordsLeft(q[i])
                               /\ \A p \in t[i - 1] + 1 .. t[i] :
                                    Fits(p, q[i], q[i].k + (p - t[i - 1] - 1))
    BY <1>2, <1>12, <1>16, SMTT(60) DEF WordsRead
  <2> DEFINE u == [i \in 0 .. l + 1 |-> IF i = l + 1 THEN e + n ELSE t[i]]
  <2>2. u \in [0 .. l + 1 -> Nat] /\ u[0] = 0 /\ u[l + 1] = e + n
    BY <1>4, <2>1
  <2>3. \A i \in 0 .. l : u[i] = t[i]
    <3>1. \A i \in 0 .. l : i \in 0 .. l + 1 /\ i # l + 1
      OBVIOUS
    <3> QED BY <3>1
  <2> HIDE DEF u
  <2>4. ASSUME NEW i \in 0 .. l + 1, NEW j \in 0 .. l + 1, i < j PROVE u[i] < u[j]
    <3>1. i \in 0 .. l /\ u[i] = t[i]
      BY <2>3, <2>4
    <3>2. CASE j = l + 1
      <4>1. PICK a, b \in Nat : a = t[i] /\ b = t[l]
        <5>1. l \in 0 .. l
          OBVIOUS
        <5> QED BY <3>1, <5>1
      <4>2. a <= b
        <5>1. CASE i = l
          BY <4>1, <5>1
        <5>2. CASE i # l
          <6>1. i < l /\ l \in 0 .. l
            BY <3>1, <5>2
          <6>2. t[i] < t[l]
            BY <2>1, <3>1, <6>1
          <6> QED BY <4>1, <6>2
        <5> QED BY <5>1, <5>2
      <4>3. b = e /\ u[i] = a /\ u[j] = e + n
        BY <2>1, <2>2, <3>1, <3>2, <4>1
      <4>4. a < e + n
        <5>1. a <= e
          BY <4>2, <4>3, Zenon
        <5>2. n \in Nat \ {0}
          BY <1>4
        <5> QED BY <5>1, <5>2
      <4> QED BY <4>3, <4>4, Zenon
    <3>3. CASE j # l + 1
      <4>1. j \in 0 .. l
        BY <3>3
      <4> QED BY <2>1, <2>3, <2>4, <3>1, <4>1
    <3> QED BY <3>2, <3>3
  <2>5. ASSUME NEW i \in 1 .. l + 1
        PROVE  /\ GoodCall(z[i], ram)' /\ u[i] = u[i - 1] + WordsLeft(z[i])'
               /\ \A p \in u[i - 1] + 1 .. u[i] : Fits(p, z[i], z[i].k + (p - u[i - 1] - 1))'
    <3>1. CASE i = l + 1
      <4>1. u[i] = e + n /\ u[i - 1] = e /\ z[i] = c
        <5>1. i - 1 = l /\ l \in 0 .. l
          BY <3>1
        <5> QED BY <1>12, <2>1, <2>2, <2>3, <3>1, <5>1
      <4> QED BY <1>11, <1>18, <4>1
    <3>2. CASE i # l + 1
      <4>1. i \in 1 .. l /\ i - 1 \in 0 .. l /\ i \in 0 .. l
        BY <3>2
      <4>2. u[i] = t[i] /\ u[i - 1] = t[i - 1] /\ z[i] = q[i]
        BY <1>12, <2>3, <4>1
      <4>3. GoodCall(z[i], ram)'
        <5>1. GoodCall(q[i], ram)
          BY <1>2, <1>12, <4>1 DEF WordsRead
        <5> QED BY <1>1, <4>2, <5>1 DEF GoodCall, Collected, Slot, SpanBlock, cycles
      <4>4. t[i] = t[i - 1] + WordsLeft(q[i])'
        BY <2>1, <4>1 DEF WordsLeft, cycles
      <4>5. ASSUME NEW p \in t[i - 1] + 1 .. t[i]
            PROVE  Fits(p, q[i], q[i].k + (p - t[i - 1] - 1))'
        <5>1. p \in 1 .. e
          BY <2>1, <4>1, Places
        <5>2. Fits(p, q[i], q[i].k + (p - t[i - 1] - 1))
          BY <2>1, <4>1
        <5> QED BY <1>17, <5>1, <5>2
      <4> QED BY <4>2, <4>3, <4>4, <4>5
    <3> QED BY <3>1, <3>2
  <2>6. PICK y \in Nat : y = l + 1
    OBVIOUS
  <2>7. /\ Len(z) = y /\ u \in [0 .. y -> Nat] /\ u[0] = 0 /\ u[y] = Asked'
        /\ \A i, j \in 0 .. y : i < j => u[i] < u[j]
        /\ \A i \in 1 .. y : GoodCall(z[i], ram)'
        /\ \A i \in 1 .. y :
             /\ u[i] = u[i - 1] + WordsLeft(z[i])'
             /\ \A p \in u[i - 1] + 1 .. u[i] : Fits(p, z[i], z[i].k + (p - u[i - 1] - 1))'
    BY <1>12, <1>16, <2>2, <2>4, <2>5, <2>6
  <2> QED BY <1>12, <2>7 DEF WordsRead
<1>20. WordsOwed' /\ WordsLead'
  BY <1>1, <1>2, WritesRest
<1>21. DataRight'
  BY <1>1, <1>2 DEF DataRight
<1>22. AxTypes'
  <2>1. in_flight_operations' \in Int /\ ops_made' \in Nat
    BY <1>1, <1>2 DEF AxTypes
  <2> QED BY <1>1, <1>2, <1>7, <1>12, <2>1 DEF AxTypes, masterWrites, ramWrites
<1>23. Answered'
  <2>1. /\ int_write_resp_command_queue' = int_write_resp_command_queue
        /\ write_resp_queue' = write_resp_queue
    BY <1>1 DEF masterWrites
  <2>2. PICK a, b, d \in Nat : /\ a = Len(int_write_resp_command_queue) /\ b = Len(read_data_ops)
                               /\ d = Len(write_resp_queue)
    BY <1>2 DEF AxTypes
  <2>3. in_flight_operations = a + l /\ (d + b) + in_flight_operations = ops_made
    BY <1>2, <1>12, <2>2 DEF Answered
  <2>4. in_flight_operations + 1 = a + (l + 1)
        /\ (d + b) + (in_flight_operations + 1) = ops_made + 1
    BY <2>3
  <2> QED BY <1>1, <1>12, <2>1, <2>2, <2>4 DEF Answered
<1> QED BY <1>19, <1>20, <1>21, <1>22, <1>23 DEF AxInv

(* What a call has once it takes its next word.                            *)
BytesBetween(word, from, top) == [j \in 1 .. top - from |-> word[from + j - 1]]

LEMMA CollectWord ==
  ASSUME NEW c \in ReadCalls, NEW m, GoodCall(c, m), NEW word \in ReadWords,
         Serves(word, c, c.k), NEW from, from = start(c.addr, c.k),
         NEW top, top = stop(c.addr, c.length, c.k), NEW z,
         IsJoin(c.data, BytesBetween(word, from, top), z)
  PROVE  /\ z \in Seq(Int) /\ \A i \in 1 .. Len(z) : z[i] \in c.seen[i]
         /\ c.k < cycles(c.addr, c.length) => Len(z) = Slot(c.addr, c.k + 1) - c.addr
         /\ ~(c.k < cycles(c.addr, c.length)) => Len(z) = c.length
<1>1. PICK w \in Nat \ {0} : w = BusBytes
  BY AxShape
<1>2. PICK addr \in Nat, len \in Nat \ {0} : addr = c.addr /\ len = c.length
  BY DEF ReadCalls
<1>3. PICK n \in Nat \ {0} : n = cycles(addr, len)
  BY CallWords
<1>4. PICK k \in 1 .. n : k = c.k
  BY <1>2, <1>3 DEF GoodCall
<1>5. k \in 1 .. cycles(addr, len)
  BY <1>3
<1>6. PICK b \in Nat : b = Slot(addr, k)
  BY <1>5, WordSpan
<1>7. /\ b < addr + len /\ addr < b + w
      /\ start(addr, k) = IF addr > b THEN addr - b ELSE 0
      /\ stop(addr, len, k) = IF addr + len < b + w THEN addr + len - b ELSE w
      /\ k = n <=> addr + len <= b + w
      /\ Slot(addr, k + 1) = b + w
  BY <1>1, <1>3, <1>5, <1>6, WordSpan
<1>8. PICK f \in 0 .. w - 1 : f = from /\ f = IF addr > b THEN addr - b ELSE 0
  <2>1. (IF addr > b THEN addr - b ELSE 0) \in 0 .. w - 1
    BY <1>7
  <2>2. from = IF addr > b THEN addr - b ELSE 0
    BY <1>2, <1>4, <1>7
  <2> QED BY <2>1, <2>2
<1>9. PICK h \in 1 .. w : h = top /\ h = IF addr + len < b + w THEN addr + len - b ELSE w
  <2>1. (IF addr + len < b + w THEN addr + len - b ELSE w) \in 1 .. w
    BY <1>7
  <2>2. top = IF addr + len < b + w THEN addr + len - b ELSE w
    BY <1>2, <1>4, <1>7
  <2> QED BY <2>1, <2>2
<1>10. PICK d \in Nat : d = h - f
  <2>1. f <= h
    <3>1. CASE addr > b
      BY <1>7, <1>8, <1>9, <3>1
    <3>2. CASE ~(addr > b)
      BY <1>8, <1>9, <3>2
    <3> QED BY <3>1, <3>2
  <2>2. h - f \in Nat
    BY <2>1
  <2> QED BY <2>2
<1>11. PICK g : g = [j \in 1 .. d |-> word[f + j - 1]]
  OBVIOUS
<1>12. /\ g \in [1 .. d -> Int]
       /\ \A j \in 1 .. d : (f + j) - 1 \in 0 .. w - 1 /\ g[j] = word[(f + j) - 1]
  <2>1. ASSUME NEW j \in 1 .. d
        PROVE  /\ (f + j) - 1 \in 0 .. w - 1 /\ g[j] = word[(f + j) - 1]
               /\ word[f + j - 1] \in Int
    <3>1. PICK x \in 0 .. w - 1 : x = (f + j) - 1 /\ x = f + j - 1
      BY <1>9, <1>10
    <3>2. word[x] \in Int
      BY <1>1 DEF ReadWords
    <3> QED BY <1>11, <3>1, <3>2
  <2> QED BY <1>11, <2>1
<1>13. IsJoin(c.data, g, z)
  BY <1>8, <1>9, <1>10, <1>11 DEF BytesBetween
<1>14. c.data \in Seq(Int)
  BY DEF ReadCalls
<1>15. z \in Seq(Int) /\ JoinsUp(c.data, d, g, z)
  BY <1>12, <1>13, <1>14, JoinOf
<1>16. PICK l \in Nat : l = Len(c.data) /\ l = (b + f) - addr
  <2>1. c.addr \in Nat /\ c.length \in Nat \ {0} /\ c.k \in 1 .. cycles(c.addr, c.length)
    BY <1>2, <1>4, <1>5
  <2>2. Collected(c) \in Nat
        /\ Collected(c) = (Slot(c.addr, c.k) + start(c.addr, c.k)) - c.addr
    BY <2>1, CollectedSpan
  <2>3. Len(c.data) = Collected(c)
    BY DEF GoodCall
  <2>4. Slot(c.addr, c.k) = b /\ start(c.addr, c.k) = f
    BY <1>2, <1>4, <1>6, <1>8
  <2> QED BY <1>2, <2>2, <2>3, <2>4
<1>17. /\ Len(z) = l + d /\ \A i \in 1 .. l : z[i] = c.data[i]
       /\ \A i \in 1 .. l + d : ~(i <= l) => z[i] = g[i - l]
  BY <1>15, <1>16 DEF JoinsUp
<1>18. ASSUME NEW i \in 1 .. l + d PROVE z[i] \in c.seen[i]
  <2>1. CASE i <= l
    <3>1. i \in 1 .. l
      BY <2>1
    <3> QED BY <1>16, <1>17, <3>1 DEF GoodCall
  <2>2. CASE ~(i <= l)
    <3>1. PICK j \in 1 .. d : j = i - l
      BY <2>2
    <3>2. (addr + i) - 1 - b = (f + j) - 1
      BY <1>16, <3>1
    <3>3. i \in 1 .. len
      BY <1>7, <1>8, <1>9, <1>10, <1>16
    <3>4. (f + j) - 1 \in 0 .. BusBytes - 1 /\ g[j] = word[(f + j) - 1]
      BY <1>1, <1>12
    <3>5. word[(f + j) - 1] \in c.seen[i]
      BY <1>2, <1>4, <1>6, <3>2, <3>3, <3>4 DEF Serves
    <3> QED BY <1>17, <2>2, <3>1, <3>4, <3>5
  <2> QED BY <2>1, <2>2
<1>19. /\ k < n => l + d = (b + w) - addr
       /\ ~(k < n) => l + d = len
  <2>1. l + d = (b + h) - addr
    BY <1>10, <1>16
  <2>2. k < n => ~(addr + len <= b + w)
    BY <1>7
  <2>3. ~(k < n) => addr + len <= b + w
    <3>1. ~(k < n) => k = n
      OBVIOUS
    <3> QED BY <1>7, <3>1
  <2> QED BY <1>9, <2>1, <2>2, <2>3
<1> QED BY <1>2, <1>3, <1>4, <1>7, <1>15, <1>17, <1>18, <1>19

(* The master takes a word for its oldest read.                            *)
LEMMA ReadRespStep == ASSUME AxInv, read_resp_logic PROVE AxInv'
<1>1. /\ int_read_resp_command_queue # << >> /\ int_read_resp_queue # << >>
      /\ int_read_resp_queue' = Tail(int_read_resp_queue)
      /\ UNCHANGED <<int_read_addr_queue, rpc, raddr, rdata, pos, moved, ops_made>>
      /\ UNCHANGED <<masterWrites, ramWrites, ram, wanted_ram>>
  BY DEF read_resp_logic, ramReads
<1>2. AxTypes /\ Answered /\ WordsOwed /\ WordsLead /\ WordsRead /\ DataRight
  BY DEF AxInv
<1>3. PICK l \in Nat, q \in Seq(ReadCalls), c \in ReadCalls :
        /\ q = int_read_resp_command_queue /\ Len(q) = l + 1 /\ c = q[1] /\ c = Head(q)
        /\ GoodCall(c, ram)
  <2>1. PICK q \in Seq(ReadCalls) : q = int_read_resp_command_queue /\ q # << >>
    BY <1>1, <1>2 DEF AxTypes
  <2>2. Len(q) \in Nat \ {0} /\ Len(q) - 1 \in Nat /\ q[1] \in ReadCalls /\ Head(q) = q[1]
    BY <2>1
  <2>3. GoodCall(q[1], ram)
    BY <1>2, <2>1, <2>2 DEF WordsRead
  <2>4. PICK l \in Nat : l = Len(q) - 1 /\ Len(q) = l + 1
    <3>1. Len(q) = (Len(q) - 1) + 1
      BY <2>2
    <3> QED BY <2>2, <3>1, Zenon
  <2> QED BY <2>1, <2>2, <2>3, <2>4, SMTT(30)
<1>4. PICK word \in ReadWords, r \in Nat :
        /\ word = Head(int_read_resp_queue) /\ word = int_read_resp_queue[1]
        /\ Len(int_read_resp_queue) = r + 1 /\ Len(int_read_resp_queue') = r
        /\ int_read_resp_queue' \in Seq(ReadWords)
        /\ \A p \in 1 .. r : int_read_resp_queue'[p] = int_read_resp_queue[p + 1]
  <2>1. PICK u \in Seq(ReadWords) : u = int_read_resp_queue /\ u # << >>
    BY <1>1, <1>2 DEF AxTypes
  <2>2. Len(u) \in Nat \ {0} /\ Len(u) - 1 \in Nat /\ u[1] \in ReadWords /\ Head(u) = u[1]
        /\ Tail(u) \in Seq(ReadWords) /\ Len(Tail(u)) = Len(u) - 1
        /\ \A p \in 1 .. Len(u) - 1 : Tail(u)[p] = u[p + 1]
    BY <2>1
  <2>3. PICK r \in Nat : r = Len(u) - 1 /\ Len(u) = r + 1
    <3>1. Len(u) = (Len(u) - 1) + 1
      BY <2>2
    <3> QED BY <2>2, <3>1, Zenon
  <2> QED BY <1>1, <2>1, <2>2, <2>3
<1>5. PICK n, k \in Nat \ {0} : n = cycles(c.addr, c.length) /\ k = c.k /\ k <= n
  <2>1. cycles(c.addr, c.length) \in Nat \ {0}
    BY CallWords DEF ReadCalls
  <2>2. c.k \in Nat \ {0}
    BY DEF ReadCalls
  <2> QED BY <1>3, <2>1, <2>2 DEF GoodCall
<1>6. PICK h \in {0, 1}, m \in Nat : h = Reading /\ m = Len(int_read_addr_queue)
  <2>1. int_read_addr_queue \in Seq(Nat)
    BY <1>2 DEF AxTypes
  <2>2. Reading \in {0, 1}
    BY DEF Reading
  <2> QED BY <2>1, <2>2
<1>7. PICK e \in Nat : e = (r + h) + m /\ Asked = e + 1 /\ Asked' = e
  <2>1. Asked = ((r + 1) + h) + m
    BY <1>4, <1>6 DEF Asked
  <2>2. Asked' = (r + h) + m
    BY <1>1, <1>4, <1>6 DEF Asked, Reading
  <2> QED BY <2>1, <2>2
<1>8. PICK t \in [0 .. l + 1 -> Nat] :
        /\ t[0] = 0 /\ t[l + 1] = e + 1
        /\ \A i, j \in 0 .. l + 1 : i < j => t[i] < t[j]
        /\ \A i \in 1 .. l + 1 : /\ t[i] = t[i - 1] + WordsLeft(q[i])
                                 /\ \A p \in t[i - 1] + 1 .. t[i] :
                                      Fits(p, q[i], q[i].k + (p - t[i - 1] - 1))
  BY <1>2, <1>3, <1>7 DEF WordsRead
<1>9. t[1] = (n - k) + 1 /\ Fits(1, c, k)
  <2>1. 1 \in 1 .. l + 1 /\ 1 - 1 = 0
    OBVIOUS
  <2>2. t[1] = t[0] + WordsLeft(c) /\ \A p \in t[0] + 1 .. t[1] : Fits(p, c, c.k + (p - t[0] - 1))
    BY <1>3, <1>8, <2>1
  <2>3. WordsLeft(c) = (n - k) + 1
    BY <1>5 DEF WordsLeft
  <2>4. t[1] = (n - k) + 1
    BY <1>8, <2>2, <2>3
  <2>5. 1 \in 0 + 1 .. t[1] /\ c.k + (1 - 0 - 1) = k
    BY <1>5, <2>4
  <2>6. Fits(1, c, k)
    BY <1>8, <2>2, <2>5
  <2> QED BY <2>4, <2>6
<1>10. Serves(word, c, c.k)
  BY <1>4, <1>5, <1>9 DEF Fits
<1>11. PICK z :
         z = c.data \o [j \in 1 .. stop(c.addr, c.length, c.k) - start(c.addr, c.k) |->
                          Head(int_read_resp_queue)[start(c.addr, c.k) + j - 1]]
  OBVIOUS
<1>12. /\ z \in Seq(Int) /\ \A i \in 1 .. Len(z) : z[i] \in c.seen[i]
       /\ k < n => Len(z) = Slot(c.addr, k + 1) - c.addr
       /\ ~(k < n) => Len(z) = c.length
  <2>1. PICK from, top : from = start(c.addr, c.k) /\ top = stop(c.addr, c.length, c.k)
    OBVIOUS
  <2>2. IsJoin(c.data, BytesBetween(word, from, top), z)
    BY <1>4, <1>11, <2>1 DEF IsJoin, BytesBetween
  <2>3. /\ z \in Seq(Int) /\ \A i \in 1 .. Len(z) : z[i] \in c.seen[i]
        /\ c.k < cycles(c.addr, c.length) => Len(z) = Slot(c.addr, c.k + 1) - c.addr
        /\ ~(c.k < cycles(c.addr, c.length)) => Len(z) = c.length
    BY <1>3, <1>10, <2>1, <2>2, CollectWord
  <2> QED BY <1>5, <2>3
<1>13. ASSUME NEW p \in 1 .. e, NEW d, NEW o, NEW d1, Fits(p + 1, d, o),
              d1.addr = d.addr, d1.length = d.length, d1.seen = d.seen
       PROVE  Fits(p, d1, o)'
  <2>1. /\ p + 1 <= r + 1 => Serves(int_read_resp_queue[p + 1], d, o)
        /\ p + 1 = (r + 1) + 1 /\ rpc = "r" => Serves(rdata, d, o)
        /\ p + 1 = (r + 1) + 1 /\ rpc = "latency" => raddr = Slot(d.addr, o)
        /\ p + 1 > (r + 1) + h =>
             Aligned(int_read_addr_queue[(p + 1) - ((r + 1) + h)]) = Slot(d.addr, o)
    BY <1>4, <1>6, <1>13 DEF Fits
  <2>2. /\ p + 1 <= r + 1 <=> p <= r
        /\ p + 1 = (r + 1) + 1 <=> p = r + 1
        /\ p + 1 > (r + 1) + h <=> p > r + h
        /\ (p + 1) - ((r + 1) + h) = p - (r + h)
        /\ p <= r => p \in 1 .. r
    BY <1>6
  <2>3. /\ p <= r => Serves(int_read_resp_queue'[p], d, o)
        /\ p = r + 1 /\ rpc = "r" => Serves(rdata, d, o)
        /\ p = r + 1 /\ rpc = "latency" => raddr = Slot(d.addr, o)
        /\ p > r + h => Aligned(int_read_addr_queue[p - (r + h)]) = Slot(d.addr, o)
    BY <1>4, <2>1, <2>2
  <2>4. Reading' = h
    BY <1>1, <1>6 DEF Reading
  <2>5. \A v : Serves(v, d, o) => Serves(v, d1, o)
    BY <1>13 DEF Serves
  <2>6. /\ p <= r => Serves(int_read_resp_queue'[p], d1, o)
        /\ p = r + 1 /\ rpc = "r" => Serves(rdata, d1, o)
        /\ p = r + 1 /\ rpc = "latency" => raddr = Slot(d1.addr, o)
        /\ p > r + h => Aligned(int_read_addr_queue[p - (r + h)]) = Slot(d1.addr, o)
    BY <1>13, <2>3, <2>5
  <2> QED BY <1>1, <1>4, <2>4, <2>6 DEF Fits, Serves, Slot, SpanBlock, Aligned
<1>14. \A i \in 1 .. l + 1 : GoodCall(q[i], ram)
  BY <1>2, <1>3 DEF WordsRead
<1>15. WordsOwed' /\ WordsLead'
  BY <1>1, <1>2, WritesRest
<1>16. CASE k < n
  <2>1. /\ int_read_resp_command_queue' =
             [q EXCEPT ![1] = [c EXCEPT !.k = @ + 1, !.data = z]]
        /\ UNCHANGED <<read_data_ops, in_flight_operations>>
    BY <1>3, <1>5, <1>11, <1>16 DEF read_resp_logic
  <2>2. PICK d : d = [addr |-> c.addr, length |-> c.length, k |-> k + 1, data |-> z,
                      seen |-> c.seen]
    OBVIOUS
  <2>3. d = [c EXCEPT !.k = @ + 1, !.data = z]
    <3>1. PICK v : v = [c EXCEPT !.k = @ + 1, !.data = z]
      OBVIOUS
    <3>2. DOMAIN c = {"addr", "length", "k", "data", "seen"}
      BY DEF ReadCalls
    <3>3. /\ v = [x \in DOMAIN v |-> v[x]] /\ DOMAIN v = DOMAIN c
          /\ v.addr = c.addr /\ v.length = c.length /\ v.k = k + 1 /\ v.data = z
          /\ v.seen = c.seen
      BY <1>5, <3>1, <3>2
    <3> QED BY <2>2, <3>1, <3>2, <3>3
  <2>4. /\ d \in ReadCalls /\ d.addr = c.addr /\ d.length = c.length /\ d.k = k + 1
        /\ d.data = z /\ d.seen = c.seen
    <3>1. k + 1 \in Nat \ {0}
      OBVIOUS
    <3> QED BY <1>12, <2>2, <3>1 DEF ReadCalls
  <2>5. PICK y \in Seq(ReadCalls) : /\ y = int_read_resp_command_queue' /\ Len(y) = l + 1
                                    /\ y[1] = d /\ \A i \in 2 .. l + 1 : y[i] = q[i]
    <3>1. PICK y : y = [q EXCEPT ![1] = d]
      OBVIOUS
    <3>2. y \in Seq(ReadCalls) /\ Len(y) = l + 1 /\ y[1] = d
          /\ \A i \in 2 .. l + 1 : y[i] = q[i]
      BY <1>3, <2>4, <3>1
    <3> QED BY <2>1, <2>3, <3>1, <3>2
  <2>6. GoodCall(d, ram)' /\ WordsLeft(d)' = n - k
    <3>1. d.k \in 1 .. cycles(d.addr, d.length)
      BY <1>5, <1>16, <2>4
    <3>2. Len(d.data) = Collected(d)
      <4>1. k + 1 # 1
        OBVIOUS
      <4>2. Len(z) = Slot(c.addr, k + 1) - c.addr
        BY <1>12, <1>16
      <4> QED BY <2>4, <4>1, <4>2 DEF Collected
    <3>3. GoodCall(d, ram)
      BY <1>3, <1>12, <2>4, <3>1, <3>2 DEF GoodCall
    <3>4. WordsLeft(d) = n - (k + 1) + 1
      BY <1>5, <2>4 DEF WordsLeft
    <3>5. GoodCall(d, ram)'
      BY <1>1, <3>3 DEF GoodCall, Collected, Slot, SpanBlock, cycles
    <3>6. WordsLeft(d)' = WordsLeft(d)
      BY DEF WordsLeft, cycles
    <3>7. n - (k + 1) + 1 = n - k
      OBVIOUS
    <3> QED BY <3>4, <3>5, <3>6, <3>7
  <2> DEFINE u == [i \in 0 .. l + 1 |-> IF i = 0 THEN 0 ELSE t[i] - 1]
  <2>7. \A i \in 1 .. l + 1 : t[i] \in Nat /\ t[i] >= 2
    <3>1. t[1] >= 2
      BY <1>5, <1>9, <1>16
    <3>2. ASSUME NEW i \in 1 .. l + 1 PROVE t[i] \in Nat /\ t[i] >= 2
      <4>1. CASE i = 1
        BY <3>1, <4>1
      <4>2. CASE i # 1
        <5>1. 1 < i /\ 1 \in 0 .. l + 1 /\ i \in 0 .. l + 1
          BY <4>2
        <5>2. t[1] < t[i] /\ t[1] \in Nat /\ t[i] \in Nat
          BY <1>8, <5>1
        <5> QED BY <3>1, <5>2
      <4> QED BY <4>1, <4>2
    <3> QED BY <3>2
  <2>8. u \in [0 .. l + 1 -> Nat] /\ u[0] = 0 /\ \A i \in 1 .. l + 1 : u[i] = t[i] - 1
    BY <2>7
  <2> HIDE DEF u
  <2>9. u[l + 1] = e
    BY <1>8, <2>8
  <2>10. ASSUME NEW i \in 0 .. l + 1, NEW j \in 0 .. l + 1, i < j PROVE u[i] < u[j]
    <3>1. j \in 1 .. l + 1
      BY <2>10
    <3>2. CASE i = 0
      BY <2>7, <2>8, <3>1, <3>2
    <3>3. CASE i # 0
      <4>1. i \in 1 .. l + 1
        BY <3>3
      <4>2. t[i] < t[j] /\ t[i] \in Nat /\ t[j] \in Nat
        BY <1>8, <2>10
      <4> QED BY <2>8, <3>1, <4>1, <4>2
    <3> QED BY <3>2, <3>3
  <2>11. ASSUME NEW i \in 1 .. l + 1
         PROVE  /\ GoodCall(y[i], ram)' /\ u[i] = u[i - 1] + WordsLeft(y[i])'
                /\ \A p \in u[i - 1] + 1 .. u[i] : Fits(p, y[i], y[i].k + (p - u[i - 1] - 1))'
    <3>1. CASE i = 1
      <4>1. u[i - 1] = 0 /\ u[i] = n - k /\ y[i] = d
        BY <1>9, <2>5, <2>8, <3>1
      <4>2. ASSUME NEW p \in 0 + 1 .. n - k PROVE Fits(p, d, d.k + (p - 0 - 1))'
        <5>1. 1 \in 1 .. l + 1 /\ 1 - 1 = 0
          OBVIOUS
        <5>2. p + 1 \in 0 + 1 .. t[1]
          BY <1>9
        <5>3. Fits(p + 1, c, c.k + ((p + 1) - 0 - 1))
          BY <1>3, <1>8, <5>1, <5>2
        <5>4. PICK o : o = c.k + ((p + 1) - 0 - 1)
          OBVIOUS
        <5>5. o = d.k + (p - 0 - 1)
          BY <1>5, <2>4, <5>4
        <5>6. p \in 1 .. e
          <6>1. p + 1 \in t[1 - 1] + 1 .. t[1]
            BY <1>8, <5>2
          <6>2. p + 1 \in 1 .. t[l + 1]
            <7>1. l + 1 \in Nat
              OBVIOUS
            <7> QED BY <1>8, <5>1, <6>1, <7>1, Places
          <6> QED BY <1>8, <6>2
        <5>7. Fits(p, d, o)'
          BY <1>13, <2>4, <5>3, <5>4, <5>6
        <5> QED BY <5>5, <5>7
      <4>3. GoodCall(y[i], ram)' /\ WordsLeft(y[i])' = n - k
        BY <2>6, <4>1, Zenon
      <4>4. n - k = 0 + (n - k)
        OBVIOUS
      <4>5. u[i] = u[i - 1] + WordsLeft(y[i])'
        BY <4>1, <4>3, <4>4, Zenon
      <4>6. \A p \in u[i - 1] + 1 .. u[i] : Fits(p, y[i], y[i].k + (p - u[i - 1] - 1))'
        BY <4>1, <4>2, Zenon
      <4> QED BY <4>3, <4>5, <4>6
    <3>2. CASE i # 1
      <4>1. i \in 2 .. l + 1 /\ i - 1 \in 1 .. l + 1 /\ i - 1 \in 0 .. l + 1 /\ i \in 0 .. l + 1
        BY <3>2
      <4>2. PICK a, b \in Nat : /\ a = t[i - 1] /\ b = t[i] /\ a >= 2
                                /\ u[i - 1] = a - 1 /\ u[i] = b - 1
        BY <2>7, <2>8, <4>1
      <4>3. PICK f \in ReadCalls : f = q[i] /\ f = y[i]
        BY <1>3, <2>5, <4>1
      <4>4. GoodCall(f, ram)'
        BY <1>1, <1>14, <4>3 DEF GoodCall, Collected, Slot, SpanBlock, cycles
      <4>5. b = a + WordsLeft(f) /\ WordsLeft(f)' = WordsLeft(f)
        BY <1>8, <4>2, <4>3 DEF WordsLeft, cycles
      <4>6. PICK s \in Int : s = WordsLeft(f)
        <5>1. cycles(f.addr, f.length) \in Nat /\ f.k \in Nat
          BY CallWords DEF ReadCalls
        <5> QED BY <5>1 DEF WordsLeft
      <4>7. b - 1 = (a - 1) + s
        BY <4>5, <4>6
      <4>8. ASSUME NEW p \in (a - 1) + 1 .. b - 1
            PROVE  Fits(p, f, f.k + (p - (a - 1) - 1))'
        <5>1. p + 1 \in a + 1 .. b /\ p \in 1 .. e
          <6>1. p + 1 \in a + 1 .. b
            OBVIOUS
          <6>2. p + 1 \in 1 .. t[l + 1]
            <7>1. l + 1 \in Nat
              OBVIOUS
            <7>2. p + 1 \in t[i - 1] + 1 .. t[i]
              BY <4>2, <6>1
            <7> QED BY <1>8, <7>1, <7>2, Places
          <6>3. p >= 1
            <7>1. a >= 1
              BY <4>2
            <7> QED BY <7>1
          <6> QED BY <1>8, <6>1, <6>2, <6>3
        <5>2. PICK o : o = f.k + ((p + 1) - a - 1)
          OBVIOUS
        <5>3. Fits(p + 1, f, o)
          BY <1>8, <4>2, <4>3, <5>1, <5>2
        <5>4. o = f.k + (p - (a - 1) - 1)
          <6>1. (p + 1) - a - 1 = p - (a - 1) - 1
            OBVIOUS
          <6> QED BY <5>2, <6>1
        <5>5. Fits(p, f, o)'
          BY <1>13, <5>1, <5>3
        <5> QED BY <5>4, <5>5
      <4> QED BY <4>2, <4>3, <4>4, <4>5, <4>6, <4>7, <4>8
    <3> QED BY <3>1, <3>2
  <2>12. WordsRead'
    <3>1. PICK x \in Nat : x = l + 1
      OBVIOUS
    <3>2. /\ Len(y) = x /\ u \in [0 .. x -> Nat] /\ u[0] = 0 /\ u[x] = Asked'
          /\ \A i, j \in 0 .. x : i < j => u[i] < u[j]
          /\ \A i \in 1 .. x : GoodCall(y[i], ram)'
          /\ \A i \in 1 .. x :
               /\ u[i] = u[i - 1] + WordsLeft(y[i])'
               /\ \A p \in u[i - 1] + 1 .. u[i] : Fits(p, y[i], y[i].k + (p - u[i - 1] - 1))'
      BY <1>7, <2>5, <2>8, <2>9, <2>10, <2>11, <3>1
    <3> QED BY <2>5, <3>2 DEF WordsRead
  <2>13. DataRight'
    BY <1>2, <2>1 DEF DataRight
  <2>14. AxTypes'
    BY <1>1, <1>2, <1>4, <2>1, <2>5 DEF AxTypes, masterWrites, ramWrites
  <2>15. Answered'
    BY <1>1, <1>2, <1>3, <2>1, <2>5 DEF Answered, masterWrites
  <2> QED BY <1>15, <2>12, <2>13, <2>14, <2>15, ZenonT(40) DEF AxInv

<1>17. CASE ~(k < n)
  <2>1. /\ int_read_resp_command_queue' = Tail(q)
        /\ read_data_ops' = Append(read_data_ops, [data |-> z, seen |-> c.seen])
        /\ in_flight_operations' = in_flight_operations - 1
    BY <1>3, <1>5, <1>11, <1>17 DEF read_resp_logic
  <2>2. PICK y \in Seq(ReadCalls) : /\ y = int_read_resp_command_queue' /\ Len(y) = l
                                    /\ \A i \in 1 .. l : y[i] = q[i + 1]
    <3>1. PICK y : y = Tail(q)
      OBVIOUS
    <3>2. y \in Seq(ReadCalls) /\ Len(y) = l /\ \A i \in 1 .. l : y[i] = q[i + 1]
      BY <1>3, <3>1
    <3> QED BY <2>1, <3>1, <3>2
  <2> DEFINE u == [i \in 0 .. l |-> t[i + 1] - 1]
  <2>3. t[1] = 1
    <3>1. k = n
      BY <1>5, <1>17
    <3> QED BY <1>9, <3>1
  <2>4. \A i \in 0 .. l : t[i + 1] \in Nat /\ t[i + 1] >= 1
    <3>1. ASSUME NEW i \in 0 .. l PROVE t[i + 1] \in Nat /\ t[i + 1] >= 1
      <4>1. i + 1 \in 0 .. l + 1 /\ 0 \in 0 .. l + 1 /\ 0 < i + 1
        OBVIOUS
      <4>2. t[0] < t[i + 1] /\ t[i + 1] \in Nat
        BY <1>8, <4>1
      <4> QED BY <1>8, <4>2
    <3> QED BY <3>1
  <2>5. u \in [0 .. l -> Nat] /\ \A i \in 0 .. l : u[i] = t[i + 1] - 1
    BY <2>4
  <2> HIDE DEF u
  <2>6. u[0] = 0 /\ u[l] = e
    <3>1. 0 \in 0 .. l /\ l \in 0 .. l /\ 0 + 1 = 1
      OBVIOUS
    <3> QED BY <1>8, <2>3, <2>5, <3>1
  <2>7. ASSUME NEW i \in 0 .. l, NEW j \in 0 .. l, i < j PROVE u[i] < u[j]
    <3>1. i + 1 \in 0 .. l + 1 /\ j + 1 \in 0 .. l + 1 /\ i + 1 < j + 1
      BY <2>7
    <3>2. t[i + 1] < t[j + 1]
      BY <1>8, <3>1
    <3>3. PICK a, b \in Nat : a = t[i + 1] /\ b = t[j + 1]
      BY <2>4
    <3>4. u[i] = a - 1 /\ u[j] = b - 1
      BY <2>5, <3>3
    <3> QED BY <3>2, <3>3, <3>4
  <2>8. ASSUME NEW i \in 1 .. l
        PROVE  /\ GoodCall(y[i], ram)' /\ u[i] = u[i - 1] + WordsLeft(y[i])'
               /\ \A p \in u[i - 1] + 1 .. u[i] : Fits(p, y[i], y[i].k + (p - u[i - 1] - 1))'
    <3>1. /\ i + 1 \in 1 .. l + 1 /\ (i + 1) - 1 = i /\ i - 1 \in 0 .. l /\ i \in 0 .. l
          /\ (i - 1) + 1 = i
      OBVIOUS
    <3>2. PICK a, b \in Nat : /\ a = t[i] /\ b = t[i + 1] /\ a >= 1
                              /\ u[i - 1] = a - 1 /\ u[i] = b - 1
      BY <2>4, <2>5, <3>1
    <3>3. PICK f \in ReadCalls : f = q[i + 1] /\ f = y[i]
      BY <1>3, <2>2, <3>1
    <3>4. GoodCall(f, ram)'
      BY <1>1, <1>14, <3>1, <3>3 DEF GoodCall, Collected, Slot, SpanBlock, cycles
    <3>5. b = a + WordsLeft(f) /\ WordsLeft(f)' = WordsLeft(f)
      BY <1>8, <3>1, <3>2, <3>3 DEF WordsLeft, cycles
    <3>6. PICK s \in Int : s = WordsLeft(f)
      <4>1. cycles(f.addr, f.length) \in Nat /\ f.k \in Nat
        BY CallWords DEF ReadCalls
      <4> QED BY <4>1 DEF WordsLeft
    <3>7. b - 1 = (a - 1) + s
      BY <3>5, <3>6
    <3>8. ASSUME NEW p \in (a - 1) + 1 .. b - 1
          PROVE  Fits(p, f, f.k + (p - (a - 1) - 1))'
      <4>1. p + 1 \in a + 1 .. b /\ p \in 1 .. e
        <5>1. p + 1 \in a + 1 .. b
          OBVIOUS
        <5>2. p + 1 \in 1 .. t[l + 1]
          <6>1. PICK x, v : x = l + 1 /\ v = i + 1
            OBVIOUS
          <6>2. x \in Nat /\ v \in 1 .. x /\ v - 1 = i
            BY <3>1, <6>1
          <6>3. p + 1 \in t[v - 1] + 1 .. t[v]
            BY <3>2, <5>1, <6>1, <6>2
          <6>4. t \in [0 .. x -> Nat] /\ \A g, j \in 0 .. x : g < j => t[g] < t[j]
            BY <1>8, <6>1
          <6> QED BY <6>1, <6>2, <6>3, <6>4, Places
        <5>3. p >= 1
          <6>1. a >= 1
            BY <3>2
          <6> QED BY <6>1
        <5> QED BY <1>8, <5>1, <5>2, <5>3
      <4>2. PICK o : o = f.k + ((p + 1) - a - 1)
        OBVIOUS
      <4>3. Fits(p + 1, f, o)
        BY <1>8, <3>1, <3>2, <3>3, <4>1, <4>2
      <4>4. o = f.k + (p - (a - 1) - 1)
        <5>1. (p + 1) - a - 1 = p - (a - 1) - 1
          OBVIOUS
        <5> QED BY <4>2, <5>1
      <4>5. Fits(p, f, o)'
        BY <1>13, <4>1, <4>3
      <4> QED BY <4>4, <4>5
    <3> QED BY <3>2, <3>3, <3>4, <3>5, <3>6, <3>7, <3>8
  <2>9. WordsRead'
    <3>1. /\ Len(y) = l /\ u \in [0 .. l -> Nat] /\ u[0] = 0 /\ u[l] = Asked'
          /\ \A i, j \in 0 .. l : i < j => u[i] < u[j]
          /\ \A i \in 1 .. l : GoodCall(y[i], ram)'
          /\ \A i \in 1 .. l :
               /\ u[i] = u[i - 1] + WordsLeft(y[i])'
               /\ \A p \in u[i - 1] + 1 .. u[i] : Fits(p, y[i], y[i].k + (p - u[i - 1] - 1))'
      BY <1>7, <2>2, <2>5, <2>6, <2>7, <2>8
    <3> QED BY <2>2, <3>1 DEF WordsRead
  <2>10. PICK op \in [data : Seq(Int), seen : Seq(SUBSET Int)], b \in Nat :
           /\ op = [data |-> z, seen |-> c.seen] /\ b = Len(read_data_ops)
           /\ op.data = z /\ op.seen = c.seen
           /\ read_data_ops' \in Seq([data : Seq(Int), seen : Seq(SUBSET Int)])
           /\ Len(read_data_ops') = b + 1 /\ read_data_ops'[b + 1] = op
           /\ \A i \in 1 .. b : read_data_ops'[i] = read_data_ops[i]
    <3>1. PICK op : op = [data |-> z, seen |-> c.seen]
      OBVIOUS
    <3>2. op \in [data : Seq(Int), seen : Seq(SUBSET Int)] /\ op.data = z /\ op.seen = c.seen
      BY <1>12, <3>1 DEF ReadCalls
    <3> DEFINE S == [data : Seq(Int), seen : Seq(SUBSET Int)]
    <3>3. read_data_ops \in Seq(S) /\ op \in S
      BY <1>2, <3>2 DEF AxTypes
    <3> HIDE DEF S
    <3>4. /\ Append(read_data_ops, op) \in Seq(S)
          /\ Len(Append(read_data_ops, op)) = Len(read_data_ops) + 1
          /\ Append(read_data_ops, op)[Len(read_data_ops) + 1] = op
          /\ \A i \in 1 .. Len(read_data_ops) :
               Append(read_data_ops, op)[i] = read_data_ops[i]
      BY <3>3, AppendProperties
    <3>5. Len(read_data_ops) \in Nat
      BY <3>3
    <3>6. read_data_ops' = Append(read_data_ops, op)
      BY <2>1, <3>1
    <3> QED BY <3>1, <3>2, <3>4, <3>5, <3>6 DEF S
  <2>11. DataRight'
    <3>1. ASSUME NEW i \in 1 .. b + 1
          PROVE  /\ Len(read_data_ops'[i].data) = Len(read_data_ops'[i].seen)
                 /\ \A j \in 1 .. Len(read_data_ops'[i].data) :
                      read_data_ops'[i].data[j] \in read_data_ops'[i].seen[j]
      <4>1. CASE i = b + 1
        <5>1. Len(c.seen) = c.length
          BY <1>3 DEF GoodCall
        <5> QED BY <1>12, <1>17, <2>10, <4>1, <5>1
      <4>2. CASE i # b + 1
        <5>1. i \in 1 .. b
          BY <4>2
        <5> QED BY <1>2, <2>10, <5>1 DEF DataRight
      <4> QED BY <4>1, <4>2
    <3> QED BY <2>10, <3>1 DEF DataRight
  <2>12. AxTypes'
    <3>1. in_flight_operations' \in Int
      BY <1>2, <2>1 DEF AxTypes
    <3>2. /\ int_read_resp_command_queue' \in Seq(ReadCalls)
          /\ read_data_ops' \in Seq([data : Seq(Int), seen : Seq(SUBSET Int)])
          /\ int_read_resp_queue' \in Seq(ReadWords)
      BY <1>4, <2>2, <2>10
    <3> QED BY <1>1, <1>2, <3>1, <3>2, Zenon DEF AxTypes, masterWrites, ramWrites
  <2>13. Answered'
    <3>1. /\ int_write_resp_command_queue' = int_write_resp_command_queue
          /\ write_resp_queue' = write_resp_queue
      BY <1>1 DEF masterWrites
    <3>2. PICK a, d \in Nat :
            a = Len(int_write_resp_command_queue) /\ d = Len(write_resp_queue)
      <4>1. int_write_resp_command_queue \in Seq(Nat \ {0}) /\ write_resp_queue \in Seq({"OKAY"})
        BY <1>2 DEF AxTypes
      <4> QED BY <4>1
    <3>3. in_flight_operations = a + (l + 1) /\ (d + b) + in_flight_operations = ops_made
      BY <1>2, <1>3, <2>10, <3>2 DEF Answered
    <3>4. in_flight_operations - 1 = a + l
          /\ (d + (b + 1)) + (in_flight_operations - 1) = ops_made
      BY <3>3
    <3> QED BY <1>1, <2>1, <2>2, <2>10, <3>1, <3>2, <3>4 DEF Answered
  <2> QED BY <1>15, <2>9, <2>11, <2>12, <2>13 DEF AxInv
<1> QED BY <1>16, <1>17, <1>5

(* It starts so.                                                           *)
LEMMA AxStart == ASSUME AxilInit PROVE AxInv
<1>1. PICK size \in Nat \ {0} : size = RamSize
  BY AxShape
<1>2. ram \in Memories /\ wanted_ram = ram
  <2>1. ram = [a \in 0 .. RamSize - 1 |-> 0] /\ 0 \in Int
    BY DEF AxilInit
  <2> QED BY <2>1 DEF AxilInit, Memories
<1>3. AxTypes
  <2>1. \E q \in Nat : raddr = BusBytes * q
    <3>1. PICK w \in Nat \ {0} : w = BusBytes
      BY AxShape
    <3>2. 0 \in Nat /\ w * 0 = 0
      OBVIOUS
    <3> QED BY <3>1, <3>2 DEF AxilInit
  <2>2. \A S : << >> \in Seq(S)
    OBVIOUS
  <2>3. /\ int_write_addr_queue \in Seq(Nat) /\ int_write_data_queue \in Seq(WriteWords)
        /\ int_write_resp_queue \in Seq({"OKAY"}) /\ write_resp_queue \in Seq({"OKAY"})
        /\ int_write_resp_command_queue \in Seq(Nat \ {0})
        /\ int_read_addr_queue \in Seq(Nat) /\ int_read_resp_queue \in Seq(ReadWords)
        /\ int_read_resp_command_queue \in Seq(ReadCalls)
        /\ read_data_ops \in Seq([data : Seq(Int), seen : Seq(SUBSET Int)])
    <3>1. /\ int_write_addr_queue = << >> /\ int_write_data_queue = << >>
          /\ int_write_resp_queue = << >> /\ int_write_resp_command_queue = << >>
          /\ write_resp_queue = << >>
          /\ int_read_addr_queue = << >> /\ int_read_resp_queue = << >>
          /\ int_read_resp_command_queue = << >> /\ read_data_ops = << >>
      BY DEF AxilInit
    <3> QED BY <2>2, <3>1, Zenon
  <2>4. /\ in_flight_operations \in Int /\ ops_made \in Nat
        /\ wpc \in {"aw", "latency", "w", "b"} /\ waddr \in Nat
        /\ rpc \in {"ar", "latency", "r"} /\ raddr \in Nat /\ rpc # "r"
        /\ pos \in Nat /\ moved \in BOOLEAN
    <3>1. moved = FALSE
      BY DEF AxilInit
    <3>2. moved \in BOOLEAN
      BY <3>1, Zenon
    <3>3. /\ in_flight_operations = 0 /\ ops_made = 0 /\ wpc = "aw" /\ waddr = 0
          /\ rpc = "ar" /\ raddr = 0 /\ pos = 0
      BY DEF AxilInit
    <3> QED BY <3>2, <3>3
  <2> QED BY <1>2, <2>1, <2>3, <2>4 DEF AxTypes
<1>4. Answered
  BY DEF AxilInit, Answered
<1>5. Owed = 0 /\ HasAddress = 0 /\ Reading = 0 /\ Asked = 0
  BY DEF AxilInit, Owed, HasAddress, Reading, Asked
<1>6. WordsOwed
  <2>1. AddsUp(<< >>, 0)
    <3>1. PICK t : t = [i \in 0 .. 0 |-> 0]
      OBVIOUS
    <3>2. t \in [0 .. 0 -> Int] /\ t[0] = 0
      BY <3>1
    <3> QED BY <3>2 DEF AddsUp
  <2>2. Len(int_write_data_queue) = 0 /\ Len(int_write_addr_queue) = 0
        /\ int_write_resp_command_queue = << >>
    BY DEF AxilInit
  <2> QED BY <1>5, <2>1, <2>2 DEF WordsOwed
<1>7. WordsLead
  <2>1. PICK s : s = [i \in 0 .. 0 |-> ram]
    OBVIOUS
  <2>2. s \in [0 .. 0 -> Memories] /\ s[0] = ram
    BY <1>2, <2>1
  <2>3. Len(int_write_data_queue) = 0 /\ wpc # "w"
    BY DEF AxilInit
  <2> QED BY <1>2, <2>2, <2>3 DEF WordsLead
<1>8. WordsRead
  <2>1. PICK t : t = [i \in 0 .. 0 |-> 0]
    OBVIOUS
  <2>2. t \in [0 .. 0 -> Nat] /\ t[0] = 0
    BY <2>1
  <2>3. Len(int_read_resp_command_queue) = 0
    BY DEF AxilInit
  <2>4. \A i, j \in 0 .. 0 : i < j => t[i] < t[j]
    OBVIOUS
  <2> QED BY <1>5, <2>2, <2>3, <2>4 DEF WordsRead
<1>9. DataRight
  BY DEF AxilInit, DataRight
<1> QED BY <1>3, <1>4, <1>6, <1>7, <1>8, <1>9 DEF AxInv

(* What nothing moves stays.                                               *)
LEMMA AxStutter == ASSUME AxInv, UNCHANGED axilVars PROVE AxInv'
<1>1. UNCHANGED <<masterWrites, masterReads, in_flight_operations, ramWrites, ramReads,
                  pos, ram, wanted_ram, moved, ops_made>>
  BY DEF axilVars
<1>2. AxTypes /\ Answered /\ WordsOwed /\ WordsLead /\ WordsRead /\ DataRight
  BY DEF AxInv
<1>3. WordsOwed' /\ WordsLead'
  BY <1>1, <1>2, WritesRest
<1>4. WordsRead' /\ DataRight'
  BY <1>1, <1>2, ReadsRest
<1>5. AxTypes'
  BY <1>1, <1>2 DEF AxTypes, masterWrites, masterReads, ramWrites, ramReads
<1>6. Answered'
  BY <1>1, <1>2 DEF Answered, masterWrites, masterReads
<1> QED BY <1>3, <1>4, <1>5, <1>6 DEF AxInv

(* When nothing is in flight no word is owed.                              *)
LEMMA AxSettled == ASSUME AxInv PROVE RamAsCommanded
<1>1. AxTypes /\ Answered /\ WordsOwed /\ WordsLead /\ WordsRead /\ DataRight
  BY DEF AxInv
<1>2. PICK a, b, d, e \in Nat :
        /\ a = Len(int_write_resp_command_queue) /\ b = Len(int_read_resp_command_queue)
        /\ d = Len(write_resp_queue) /\ e = Len(read_data_ops)
  <2>1. /\ Len(int_write_resp_command_queue) \in Nat /\ Len(int_read_resp_command_queue) \in Nat
        /\ Len(write_resp_queue) \in Nat /\ Len(read_data_ops) \in Nat
    BY <1>1 DEF AxTypes
  <2> QED BY <2>1
<1>3. in_flight_operations = a + b /\ (d + e) + in_flight_operations = ops_made
  BY <1>1, <1>2 DEF Answered
<1>4. axil_idle => Len(write_resp_queue) + Len(read_data_ops) = ops_made
  BY <1>2, <1>3 DEF axil_idle
<1>5. ASSUME axil_idle, ~moved PROVE ram = wanted_ram
  <2>1. a = 0
    BY <1>2, <1>3, <1>5 DEF axil_idle
  <2>2. Owed = 0
    BY <1>1, <1>2, <2>1 DEF WordsOwed, AddsUp
  <2>3. Len(int_write_data_queue) = 0
    <3>1. PICK l, o, r \in Nat : /\ l = Len(int_write_data_queue)
                                 /\ o = (IF wpc = "b" THEN 1 ELSE 0)
                                 /\ r = Len(int_write_resp_queue)
      <4>1. Len(int_write_data_queue) \in Nat /\ Len(int_write_resp_queue) \in Nat
            /\ (IF wpc = "b" THEN 1 ELSE 0) \in Nat
        BY <1>1 DEF AxTypes
      <4> QED BY <4>1
    <3>2. l + o + r = 0
      BY <2>2, <3>1 DEF Owed
    <3> QED BY <3>1, <3>2
  <2> QED BY <1>1, <1>5, <2>3 DEF WordsLead
<1>6. ASSUME NEW i \in DOMAIN read_data_ops
      PROVE  /\ Len(read_data_ops[i].data) = Len(read_data_ops[i].seen)
             /\ \A j \in DOMAIN read_data_ops[i].data :
                  read_data_ops[i].data[j] \in read_data_ops[i].seen[j]
  <2>1. PICK op : op = read_data_ops[i]
    OBVIOUS
  <2>2. i \in 1 .. Len(read_data_ops) /\ op.data \in Seq(Int)
    <3> DEFINE S == [data : Seq(Int), seen : Seq(SUBSET Int)]
    <3>1. read_data_ops \in Seq(S)
      BY <1>1 DEF AxTypes
    <3> HIDE DEF S
    <3>2. i \in 1 .. Len(read_data_ops) /\ op \in S
      BY <2>1, <3>1
    <3> QED BY <3>2 DEF S
  <2>3. DOMAIN op.data = 1 .. Len(op.data)
    BY <2>2
  <2> QED BY <1>1, <2>1, <2>2, <2>3 DEF DataRight
<1> QED BY <1>4, <1>5, <1>6 DEF RamAsCommanded

(* The master of an AXI bus, whatever the pace of its channels: idle, it   *)
(* has had an answer to every call, and the RAM holds what was written     *)
(* (unless a read came between a seek and its word); what it has read was  *)
(* in the RAM (axil.py:161-375,459-544).                                   *)
THEOREM RamAsCommandedHolds == AxilSpec => []RamAsCommanded
<1>1. AxilInit => AxInv
  BY AxStart
<1>2. AxInv /\ [AxilNext]_axilVars => AxInv'
  BY InitWriteStep, InitReadStep, TakeAwStep, SeekStep, TakeWStep, GiveBStep, TakeArStep,
     SeekReadStep, GiveRStep, WriteRespStep, ReadRespStep, AxStutter DEF AxilNext
<1>3. AxInv => RamAsCommanded
  BY AxSettled
<1> QED BY <1>1, <1>2, <1>3, PTL DEF AxilSpec
=============================================================================
