------------------------------- MODULE GmiiEp -------------------------------
(***************************************************************************)
(* The sources and sinks of the 10M to 1G testbenches, face to face:       *)
(* udp_alex/udp/tb/gmii_ep.py, with bytes or, in MII mode, nibbles;        *)
(* mii_ep.py with nibbles; rgmii_ep.py, the same as gmii_ep.py behind two  *)
(* double data rate stages.  Either end may be reset at any edge, so that  *)
(* a sink may begin in the middle of a frame, where it looks for the start *)
(* delimiter to find out how nibbles pair.  One step is one cycle of clk.  *)
(*                                                                         *)
(* A byte is its two nibbles, the low one first.  A symbol on the wires    *)
(* also holds, as history, the frame it is of and its place there.         *)
(***************************************************************************)
EXTENDS Integers, Sequences

LOCAL INSTANCE SequencesExt

CONSTANTS
  Phys,      \* of "gmii", "gmii_mii", "mii", "rgmii" and "rgmii_mii"
  Preambles, \* numbers of preamble bytes
  Payloads,  \* what comes after the delimiter, sequences of bytes
  Gap12      \* bytes of the gap between frames (12)

ASSUME GmiiAssumption ==
  /\ Phys \subseteq {"gmii", "gmii_mii", "mii", "rgmii", "rgmii_mii"}
  /\ Preambles \subseteq Nat \ {0} /\ Gap12 \in Nat \ {0}

VARIABLES
  phy,
  tx_d, gap_cnt,          \* source: symbols left, clocks of the gap left
  txd,                    \* the symbol the source drives
  tx_reg, rx_dat, rx_reg, \* RGMII: gmii_tx*_reg; dat, ctl1 and ctl2; gmii_rx*
  rx_d,                   \* sink: symbols of the frame, << >> if there is none
  serial,                 \* number of the next frame, modulo 4
  expected                \* history: number of the frame to come, or -1 after a reset

gmiiVars == <<phy, tx_d, gap_cnt, txd, tx_reg, rx_dat, rx_reg, rx_d, serial, expected>>
-----------------------------------------------------------------------------
SFD == <<5, 13>>
Bytes(f) == [i \in 1 .. f.pre |-> <<5, 5>>] \o << SFD >> \o f.payload

(* The bytes of a frame and their errors: error marks the last byte.       *)
Marked(f) == LET s == Bytes(f)
             IN  [i \in DOMAIN s |-> [b |-> s[i], er |-> f.err /\ i = Len(s)]]

Nibbles == phy \in {"mii", "gmii_mii", "rgmii_mii"}
Rgmii   == phy \in {"rgmii", "rgmii_mii"}
NoFrame0 == [no |-> -1, pre |-> 0, payload |-> << >>, err |-> FALSE]
Quiet == [en |-> FALSE, er |-> FALSE, b |-> <<0, 0>>, of |-> NoFrame0, at |-> 0]

(* GMIIFrame.build and MIIFrame.build: one symbol for a byte, or one for   *)
(* each nibble; MII marks the last nibble only, GMII both.                 *)
Symbols(f) ==
  LET m == Marked(f)
  IN  IF ~Nibbles
      THEN [i \in DOMAIN m |-> [en |-> TRUE, er |-> m[i].er, b |-> m[i].b, of |-> f, at |-> i]]
      ELSE [i \in 1 .. 2 * Len(m) |->
              LET byte == m[(i + 1) \div 2]
              IN  [en |-> TRUE,
                   er |-> byte.er /\ (phy # "mii" \/ i = 2 * Len(m)),
                   b  |-> <<byte.b[IF i % 2 = 1 THEN 1 ELSE 2], 0>>, of |-> f, at |-> i]]

GmiiInit ==
  /\ phy \in Phys
  /\ tx_d = << >> /\ gap_cnt = 0 /\ txd = Quiet
  /\ tx_reg = Quiet /\ rx_dat = Quiet /\ rx_reg = Quiet
  /\ rx_d = << >> /\ serial = 0 /\ expected = 0
-----------------------------------------------------------------------------
GapClock ==
  /\ gap_cnt > 0
  /\ gap_cnt' = gap_cnt - 1 /\ txd' = Quiet /\ UNCHANGED <<tx_d, serial>>

NextSymbol ==
  /\ gap_cnt = 0 /\ tx_d # << >>
  /\ txd' = Head(tx_d) /\ tx_d' = Tail(tx_d)
  /\ gap_cnt' = IF Len(tx_d) > 1 THEN 0 ELSE IF Nibbles THEN 2 * Gap12 ELSE Gap12
  /\ UNCHANGED serial

BeginFrame ==
  /\ gap_cnt = 0 /\ tx_d = << >>
  /\ \E p \in Preambles, d \in Payloads, e \in BOOLEAN :
       LET s == Symbols([no |-> serial, pre |-> p, payload |-> d, err |-> e])
       IN  txd' = Head(s) /\ tx_d' = Tail(s)
  /\ serial' = (serial + 1) % 4 /\ UNCHANGED gap_cnt

NothingToSend ==
  /\ gap_cnt = 0 /\ tx_d = << >>
  /\ txd' = Quiet /\ UNCHANGED <<tx_d, gap_cnt, serial>>

GmiiSource(rst) ==
  \/ rst /\ txd' = Quiet /\ tx_d' = << >> /\ gap_cnt' = 0 /\ UNCHANGED serial
  \/ ~rst /\ (GapClock \/ NextSymbol \/ BeginFrame \/ NothingToSend)

(* A byte crosses as its low nibble after the falling edge and its high    *)
(* one after the rising edge, which MII mode does not drive; the control   *)
(* line is tx_en and then tx_en xor tx_er.                                 *)
RgmiiSource(s) ==
  [s EXCEPT !.b  = IF Nibbles THEN <<s.b[1], s.b[1]>> ELSE s.b,
            !.er = s.en # s.er]

(* Mutant: the error is the second value of the control line.              *)
RgmiiSinkPlain(s) == s

RgmiiSink(s) == [s EXCEPT !.er = s.en # s.er]

RgmiiStages ==
  IF Rgmii
  THEN tx_reg' = txd /\ rx_dat' = RgmiiSource(tx_reg) /\ rx_reg' = RgmiiSink(rx_dat)
  ELSE UNCHANGED <<tx_reg, rx_dat, rx_reg>>
-----------------------------------------------------------------------------
(* Mutant: the delimiter is looked for where a byte is complete.           *)
PairNibbleAligned(acc, s) ==
  LET b   == <<acc.b[2], s.b[1]>>
      be  == acc.be \/ s.er
      odd == ~acc.odd
  IN  [odd |-> odd, sync |-> acc.sync \/ (odd /\ b = SFD), b |-> b, be |-> be /\ ~odd,
       out |-> IF odd THEN Append(acc.out, [b |-> b, er |-> be]) ELSE acc.out]

(* Pairing of nibbles: until the delimiter was seen, at any pair, they     *)
(* pair from the first; from the delimiter on, from the delimiter.         *)
PairNibble(acc, s) ==
  LET b     == <<acc.b[2], s.b[1]>>
      be    == acc.be \/ s.er
      finds == ~acc.sync /\ b = SFD
      odd   == finds \/ ~acc.odd
  IN  [odd |-> odd, sync |-> acc.sync \/ finds, b |-> b, be |-> be /\ ~odd,
       out |-> IF odd THEN Append(acc.out, [b |-> b, er |-> be]) ELSE acc.out]

(* parse of MIIFrame, which GMIISink repeats for MII mode.                 *)
Parsed(d) ==
  IF Nibbles
  THEN FoldLeft(LAMBDA acc, s : PairNibble(acc, s),
                [odd |-> TRUE, sync |-> FALSE, b |-> <<0, 0>>, be |-> FALSE, out |-> << >>],
                d).out
  ELSE [i \in DOMAIN d |-> [b |-> d[i].b, er |-> d[i].er]]

rxd == IF Rgmii THEN rx_reg ELSE txd

(* The sink at a clock where rx_dv is low has a frame.                     *)
FrameEnds == ~rxd.en /\ rx_d # << >>

GmiiSink(rst, either) ==
  /\ rx_d' = IF rst \/ ~rxd.en THEN << >> ELSE Append(rx_d, rxd)
  /\ expected' = IF either THEN -1
                 ELSE IF FrameEnds THEN (rx_d[1].of.no + 1) % 4 ELSE expected

(* Either end may be in reset.                                             *)
GmiiCycle ==
  /\ \E rst_tx, rst_rx \in BOOLEAN :
       /\ GmiiSource(rst_tx)
       /\ GmiiSink(rst_rx, rst_tx \/ rst_rx)
       /\ RgmiiStages
  /\ UNCHANGED phy

GmiiSpec == GmiiInit /\ [][GmiiCycle]_gmiiVars
-----------------------------------------------------------------------------
FromSfd(m) ==
  LET sfd == {i \in DOMAIN m : m[i].b = SFD}
      first == CHOOSE i \in sfd : \A j \in sfd : i <= j
  IN  IF sfd = {} THEN << >> ELSE SubSeq(m, first, Len(m))

SfdSymbol(f) == IF Nibbles THEN 2 * f.pre + 1 ELSE f.pre + 1

(* A sink hands over the symbols of one frame, none missing and none       *)
(* twice, and without a reset frame after frame; if it saw the delimiter,  *)
(* what follows it is right to the byte and its error mark, however many   *)
(* nibbles of the preamble a reset took away                               *)
(* (gmii_ep.py:238-272, mii_ep.py:80-105, rgmii_ep.py:59-69,97-106).       *)
FrameAsSent ==
  FrameEnds =>
    LET f == rx_d[1].of
    IN  /\ \A i \in DOMAIN rx_d : rx_d[i].of = f /\ rx_d[i].at = rx_d[1].at + i - 1
        /\ expected # -1 => f.no = expected /\ rx_d[1].at = 1
        /\ rx_d[1].at <= SfdSymbol(f) /\ rx_d[Len(rx_d)].at = Len(Symbols(f))
             => FromSfd(Parsed(rx_d)) = FromSfd(Marked(f))
=============================================================================
