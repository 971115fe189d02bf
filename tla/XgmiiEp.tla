------------------------------- MODULE XgmiiEp -------------------------------
(***************************************************************************)
(* The sources and sinks of the 10G testbenches, face to face:             *)
(* udp_alex/udp/tb/xgmii_ep.py with a word of 4 or 8 lanes, and the serial *)
(* lane models baser_serdes_ep.py (MyHDL) and baser.py (cocotb), which     *)
(* send 8 lanes as a block (BaseR).  The source turns frames into words,   *)
(* starts in lane 0 or 4, and keeps the gap between frames, with a deficit *)
(* counter where enable_dic is set; the sink finds the frames again.       *)
(* One step is one rising edge.                                            *)
(*                                                                         *)
(* A frame is its number, its length and where it has an error byte; its   *)
(* byte i is i, or i + 32 in frames with an odd number, modulo 256, so that*)
(* some bytes have the values of control characters.                       *)
(***************************************************************************)
EXTENDS BaseR, FiniteSetsExt

CONSTANTS
  Links,      \* of "xgmii32", "xgmii64", "myhdl" and "cocotb"
  FrameLens,  \* lengths of frames, with the eight bytes of the preamble
  ErrorAt,    \* positions of an error byte; 0 is none
  Ifg,        \* ifg: bytes between two frames (12)
  Corrupts    \* whether a block may be hit on the way

ASSUME XgmiiAssumption ==
  /\ Links \subseteq {"xgmii32", "xgmii64", "myhdl", "cocotb"}
  /\ (\A l \in FrameLens : l \in Nat /\ l >= 8) /\ ErrorAt \subseteq Nat \ {1}
  /\ Ifg \in Nat /\ Ifg >= 8 /\ Corrupts \subseteq BOOLEAN /\ FALSE \in Corrupts

VARIABLES
  link, enable_dic, force_offset_start,
  dl,         \* lanes of the frame left to send
  ifg_cnt, deficit_idle_cnt,
  wire,       \* the word or block on the wires
  receiving,  \* lanes of the frame in the sink, or << >>
  number,     \* number of the next frame, modulo 2
  pending,    \* history: undamaged frames started and not received
  gap_lanes,  \* history: idle lanes since the last terminate character, up to a bound
  slack       \* history: how far the gaps of some run of frames fell short of Ifg each

xgmiiConf == <<link, enable_dic, force_offset_start>>
xgmiiVars == <<xgmiiConf, dl, ifg_cnt, deficit_idle_cnt, wire, receiving, number,
               pending, gap_lanes, slack>>
-----------------------------------------------------------------------------
bw == IF link = "xgmii32" THEN 4 ELSE 8
Serial == link \in {"myhdl", "cocotb"}
IdleWord == [i \in 0 .. bw - 1 |-> Ctrl(IDLE)]

(* What is on the wires for a word, and back.                              *)
OnWire(w) == CASE link = "myhdl"  -> Encode(w)
               [] link = "cocotb" -> EncodeCocotb(w)
               [] OTHER           -> w
OffWire(x) == CASE link = "myhdl"  -> Decode(x)
                [] link = "cocotb" -> DecodeCocotb(x)
                [] OTHER           -> x

Frames == {f \in [no : {number}, len : FrameLens, err : ErrorAt] : f.err <= f.len}

(* XGMIIFrame.build: an error byte is replaced by the error character.     *)
Built(f) == [i \in 1 .. f.len |->
               IF i = f.err THEN Ctrl(ERROR)
               ELSE Byte8(IF i = 1 THEN ETH_PRE ELSE (i + 32 * f.no) % 256)]

(* The preamble's first byte becomes the start character.                  *)
Sent(f) == << Ctrl(START) >> \o Tail(Built(f)) \o << Ctrl(TERM) >>

XgmiiInit ==
  /\ link \in Links /\ enable_dic \in BOOLEAN /\ force_offset_start \in BOOLEAN
  /\ dl = << >> /\ ifg_cnt = 0 /\ deficit_idle_cnt = 0 /\ wire = OnWire(IdleWord)
  /\ receiving = << >>
  /\ number = 0 /\ pending = << >> /\ gap_lanes = 2 * Ifg /\ slack = 0
-----------------------------------------------------------------------------
From(w, i) == [j \in 1 .. bw - i |-> w[i + j - 1]]

(* Mutant: a start in lane 4 is not looked for.                            *)
StartLanesFirst(w) == {i \in {0} : w[i] = Ctrl(START)}

(* The lanes a sink looks for a start in.                                  *)
StartLanes(w) == {i \in 0 .. bw - 1 : w[i] = Ctrl(START)
                    /\ (link = "cocotb" \/ i = 0 \/ (bw = 8 /\ i = 4))}

Controls(s) == {i \in 1 .. Len(s) : s[i].c}

(* The frame that ends in word w, or << >>: a control character ends it,   *)
(* and is kept if it is not a terminate character.                         *)
Arrived(w) ==
  LET s == From(w, 0)
      e == Min(Controls(s))
  IN  IF receiving = << >> \/ Controls(s) = {} THEN << >>
      ELSE receiving \o SubSeq(s, 1, IF s[e] = Ctrl(TERM) THEN e - 1 ELSE e)

(* In the word with the start the MyHDL sinks look at no other control     *)
(* character, and in a block there is none.                                *)
Receive(w) ==
  receiving' = IF receiving # << >>
               THEN IF Controls(From(w, 0)) = {} THEN receiving \o From(w, 0) ELSE << >>
               ELSE IF StartLanes(w) = {} THEN << >>
               ELSE << Byte8(ETH_PRE) >> \o From(w, Min(StartLanes(w)) + 1)

XgmiiSink == Receive(OffWire(wire))

Clean(f) == \A i \in DOMAIN f : ~f[i].c
Arrives  == LET f == Arrived(OffWire(wire)) IN f # << >> /\ Clean(f)
Awaited    == IF Arrives /\ pending # << >> THEN Tail(pending) ELSE pending
-----------------------------------------------------------------------------
Cut(s) == [i \in 0 .. bw - 1 |-> IF i < Len(s) THEN s[i + 1] ELSE Ctrl(IDLE)]
Left(s) == IF Len(s) <= bw THEN << >> ELSE SubSeq(s, bw + 1, Len(s))
AtLeast0(n) == IF n < 0 THEN 0 ELSE n

(* The word on the wires, or a block the receiver cannot read; a frame     *)
(* hit is not waited for.                                                  *)
Drive(w, hit, waiting) ==
  /\ wire' = IF hit THEN Bad ELSE OnWire(w)
  /\ pending' = IF hit /\ w # IdleWord /\ waiting # << >>
                THEN SubSeq(waiting, 1, Len(waiting) - 1) ELSE waiting

(* Lanes of a gap up to the end of word w, whose frame ends with s.        *)
GapFrom(s) == IF Len(s) <= bw THEN bw - Len(s) + 1 ELSE 0

(* Mutant: the deficit is not carried from gap to gap.                     *)
GapLeftFresh(s, deficit) ==
  IF Len(s) > bw THEN 0
  ELSE IF link = "cocotb" THEN AtLeast0(Ifg - (bw - Len(s) + 1))
  ELSE Ifg - (bw - Len(s) + 1)

(* ifg_cnt after a word of s: the lane of the terminate character is the   *)
(* last of s.  A MyHDL block that is all control characters, because of an *)
(* error byte in it, does not show the lane.                               *)
GapLeft(s, deficit) ==
  IF Len(s) > bw THEN 0
  ELSE IF link = "cocotb" THEN AtLeast0(Ifg - (bw - Len(s) + 1))
  ELSE IF link = "myhdl" /\ TypeOf(Cut(s)).type # "TERM" THEN Ifg + deficit
  ELSE Ifg - (bw - Len(s) + 1) + deficit

(* In the gap: a word of idles.                                            *)
InGap ==
  IF link = "cocotb"
  THEN ifg_cnt + deficit_idle_cnt > bw - 1 \/ (~enable_dic /\ ifg_cnt > 4)
  ELSE ifg_cnt > bw - 1 \/ (~enable_dic /\ ifg_cnt > 0)

IfgWord(hit) ==
  /\ InGap
  /\ ifg_cnt' = AtLeast0(ifg_cnt - bw)
  /\ deficit_idle_cnt' =
       IF link = "cocotb" /\ enable_dic /\ ifg_cnt < bw
       THEN AtLeast0(deficit_idle_cnt + ifg_cnt - bw) ELSE deficit_idle_cnt
  /\ Drive(IdleWord, hit, Awaited)
  /\ gap_lanes' = Min({gap_lanes + bw, 2 * Ifg})
  /\ UNCHANGED <<dl, number, slack>>

FrameWord(hit) ==
  /\ ~InGap /\ dl # << >>
  /\ Drive(Cut(dl), hit, Awaited)
  /\ dl' = Left(dl) /\ ifg_cnt' = GapLeft(dl, deficit_idle_cnt)
  /\ gap_lanes' = GapFrom(dl)
  /\ UNCHANGED <<deficit_idle_cnt, number, slack>>

(* Whether the frame starts four lanes later.                              *)
Offset4 ==
  \/ force_offset_start
  \/ bw = 8 /\ IF link # "cocotb" THEN ifg_cnt >= 4
               ELSE ifg_cnt > IF enable_dic THEN 3 - deficit_idle_cnt ELSE 0

Deficit(offset) ==
  LET left == IF offset THEN ifg_cnt - 4 ELSE ifg_cnt
  IN  IF link # "cocotb" THEN AtLeast0(left)
      ELSE IF enable_dic THEN AtLeast0(deficit_idle_cnt + left) ELSE deficit_idle_cnt

StartWord(hit) ==
  /\ ~InGap /\ dl = << >>
  /\ \E f \in Frames :
       LET s == (IF Offset4 THEN [i \in 1 .. 4 |-> Ctrl(IDLE)] ELSE << >>) \o Sent(f)
       IN  /\ Drive(Cut(s), hit, IF f.err = 0 THEN Append(Awaited, Built(f)) ELSE Awaited)
           /\ dl' = Left(s)
           /\ ifg_cnt' = GapLeft(s, Deficit(Offset4))
           /\ gap_lanes' = GapFrom(s)
  /\ deficit_idle_cnt' = Deficit(Offset4)
  /\ slack' = Min({0, slack + gap_lanes + (IF Offset4 THEN 4 ELSE 0) - Ifg})
  /\ number' = 1 - number

(* No frame waits.                                                         *)
NoFrame(hit) ==
  /\ ~InGap /\ dl = << >>
  /\ ifg_cnt' = 0 /\ deficit_idle_cnt' = 0
  /\ Drive(IdleWord, hit, Awaited)
  /\ gap_lanes' = Min({gap_lanes + bw, 2 * Ifg})
  /\ UNCHANGED <<dl, number, slack>>

XgmiiSource == \E hit \in IF Serial THEN Corrupts ELSE {FALSE} :
                 IfgWord(hit) \/ FrameWord(hit) \/ StartWord(hit) \/ NoFrame(hit)
-----------------------------------------------------------------------------
XgmiiEdge == XgmiiSink /\ XgmiiSource /\ UNCHANGED xgmiiConf

(* An edge with rst, which the serial models do not have.                  *)
XgmiiReset ==
  /\ ~Serial
  /\ dl' = << >> /\ ifg_cnt' = 0 /\ deficit_idle_cnt' = 0 /\ wire' = IdleWord
  /\ receiving' = << >>
  /\ pending' = << >> /\ gap_lanes' = 2 * Ifg /\ slack' = 0
  /\ UNCHANGED <<xgmiiConf, number>>

XgmiiNext == XgmiiEdge \/ XgmiiReset

XgmiiSpec == XgmiiInit /\ [][XgmiiNext]_xgmiiVars
-----------------------------------------------------------------------------
(* A frame received without a control character in it is the next frame    *)
(* sent without an error byte, whole, although it may start in lane 4 and  *)
(* end in any lane, follow another as closely as the deficit allows, hold  *)
(* bytes with the values of control characters, or follow a block that was *)
(* hit; and once the wire is idle none is missing                          *)
(* (xgmii_ep.py:177-238,300-337, baser_serdes_ep.py:145-336,471-675,       *)
(* baser.py:154-322,477-626).                                              *)
FramesArrive ==
  /\ Arrives => pending # << >> /\ Arrived(OffWire(wire)) = Head(pending)
  /\ dl = << >> /\ receiving = << >> /\ wire = OnWire(IdleWord) => pending = << >>

(* However frames follow each other, the gaps of no run of frames are      *)
(* together more than three bytes shorter than Ifg each: what one gap      *)
(* saves, a later one pays (xgmii_ep.py:178,191,211-227).                  *)
MeanGap == slack >= -3
=============================================================================
