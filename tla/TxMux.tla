------------------------------- MODULE TxMux -------------------------------
(***************************************************************************)
(* The way of a Delay_Req from the generator (rtl/ptp_gen.sv) to the MAC:  *)
(* the generator and the UDP stack share one stream through a fixed-       *)
(* priority, frame-holding multiplexer (rtl/axis_arb_mux.v, rtl/arbiter.v),*)
(* and glue logic (rtl/gmii_udp_loopback.v) announces a header for every   *)
(* frame that comes out of it.  The block that joins header and payload    *)
(* (udp_alex/udp/rtl/eth_axis_tx.v) takes no payload before a header.      *)
(*                                                                         *)
(* One step is one edge of logic_clk.  A beat is the byte `no' of a frame  *)
(* of `src'; None stands for tvalid = 0.  The MAC's FIFO (4096 bytes,      *)
(* emptied at line rate) always takes what eth_axis_tx sends.              *)
(***************************************************************************)
EXTENDS Integers, Sequences

CONSTANTS
  PtpLen,     \* bytes of a Delay_Req (44)
  UdpLens,    \* bytes of the frames of the UDP stack
  HeaderLen,  \* clocks eth_axis_tx takes for a header (14)
  MaxStarts,  \* bound: Delay_Req started
  MaxUdp      \* bound: frames of the UDP stack

ASSUME TxAssumption ==
  /\ PtpLen \in Nat /\ PtpLen > 3 /\ HeaderLen \in Nat \ {0}
  /\ UdpLens \subseteq Nat \ {0} /\ MaxStarts \in Nat /\ MaxUdp \in Nat

VARIABLES
  stb, gen_ctrl,           \* the bus strobe (clocks left) and gen_ctrl_reg
  state, byte_cnt, ptpOut, \* ptp_gen: the FSM and its output register
  udp,                     \* the beat the UDP stack offers, its frame's length, the beats of it so far
  sreg,                    \* s_axis_*_reg: the input register of either port
  grant,                   \* the port that holds the grant
  int_ready,               \* m_axis_tready_int_reg
  mreg, temp,              \* output register and its overflow register
  valid_int,               \* m_axis_tvalid_int of the glue logic
  eth,                     \* eth_axis_tx: phase, header clocks left, ethertype
  taken,                   \* the beat eth_axis_tx took last
  starts, udps,            \* frames started by either side
  made, left,              \* history: Delay_Req begun by the generator, and sent
  joined                   \* history: a frame has come out right behind another one

genVars == <<stb, gen_ctrl, state, byte_cnt, ptpOut, starts, made>>
udpVars == <<udp, udps>>
muxVars == <<sreg, grant, int_ready, mreg, temp, valid_int>>
vars    == <<genVars, udpVars, muxVars, eth, taken, left, joined>>
-----------------------------------------------------------------------------
Ports   == {"ptp", "udp"}
None    == [src |-> "none", no |-> 0, last |-> FALSE]
Beat(s, i, l) == [src |-> s, no |-> i, last |-> l]

Init ==
  /\ stb = 0 /\ gen_ctrl = 0
  /\ state = "IDLE" /\ byte_cnt = 0 /\ ptpOut = None
  /\ udp = [beat |-> None, len |-> 0, at |-> 0]
  /\ sreg = [p \in Ports |-> None]
  /\ grant = "none" /\ int_ready = FALSE
  /\ mreg = None /\ temp = None /\ valid_int = FALSE
  /\ eth = [phase |-> "idle", k |-> 0, src |-> "none"]
  /\ taken = None
  /\ starts = 0 /\ udps = 0 /\ made = 0 /\ left = 0 /\ joined = FALSE
-----------------------------------------------------------------------------
(***************************************************************************)
(* The multiplexer.                                                        *)
(***************************************************************************)
Offer == [ptp |-> ptpOut, udp |-> udp.beat]

tready(p) == sreg[p] = None \/ (int_ready /\ grant = p)

request(p) == Offer[p] # None \/ (sreg[p] # None /\ grant # p)

acknowledge == grant # "none" /\ int_ready /\ sreg[grant].last

(* Mutant: the grant is not held until the end of the frame.               *)
ArbiterFree ==
  grant' = IF request("ptp") THEN "ptp" ELSE IF request("udp") THEN "udp" ELSE "none"

(* The grant is held until the last beat; the Delay_Req comes first.       *)
Arbiter ==
  grant' = IF grant # "none" /\ ~acknowledge THEN grant
           ELSE IF request("ptp") THEN "ptp"
           ELSE IF request("udp") THEN "udp" ELSE "none"

IntBeat == IF grant # "none" /\ int_ready THEN sreg[grant] ELSE None

m_axis_tready == eth.phase = "payload"

(* Output register with one beat in reserve.                               *)
Output ==
  /\ int_ready' = (m_axis_tready \/ (temp = None /\ (mreg = None \/ IntBeat = None)))
  /\ IF int_ready
     THEN IF m_axis_tready \/ mreg = None
          THEN mreg' = IntBeat /\ temp' = temp
          ELSE temp' = IntBeat /\ mreg' = mreg
     ELSE IF m_axis_tready THEN mreg' = temp /\ temp' = None
          ELSE UNCHANGED <<mreg, temp>>

Mux ==
  /\ sreg' = [p \in Ports |-> IF tready(p) THEN Offer[p] ELSE sreg[p]]
  /\ Arbiter /\ Output
  /\ joined' = (joined \/ (m_axis_tready /\ mreg.last /\ mreg' # None))
-----------------------------------------------------------------------------
(***************************************************************************)
(* The glue logic and eth_axis_tx.                                         *)
(***************************************************************************)

(* A header is announced where tvalid rises.                               *)
tx_eth_hdr_valid == mreg # None /\ ~valid_int

Header ==
  /\ valid_int' = (mreg # None)
  /\ eth' = CASE eth.phase = "idle" /\ tx_eth_hdr_valid ->
                   [phase |-> "header", k |-> HeaderLen, src |-> mreg.src]
              [] eth.phase = "header" ->
                   IF eth.k = 1 THEN [eth EXCEPT !.phase = "payload"]
                   ELSE [eth EXCEPT !.k = eth.k - 1]
              [] eth.phase = "payload" /\ mreg.last -> [eth EXCEPT !.phase = "idle"]
              [] OTHER -> eth
  /\ taken' = IF m_axis_tready /\ mreg # None THEN mreg ELSE taken
  /\ left' = IF m_axis_tready /\ mreg.last /\ mreg.src = "ptp" THEN left + 1 ELSE left
-----------------------------------------------------------------------------
(***************************************************************************)
(* The generator.                                                          *)
(***************************************************************************)

(* Mutant: LAST is entered one byte late.                                  *)
LastNextLate == byte_cnt = PtpLen - 1

LastNext == byte_cnt = PtpLen - 2

(* Mutant: the last byte does not raise tlast.                             *)
LastBeatOpen == Beat("ptp", byte_cnt + 1, FALSE)

LastBeat == Beat("ptp", byte_cnt + 1, TRUE)

(* In IDLE the output is cleared whether or not the last beat was taken.   *)
Sender ==
  CASE state = "IDLE" ->
         /\ state' = IF gen_ctrl = 1 THEN "SEND" ELSE "IDLE"
         /\ ptpOut' = IF gen_ctrl = 1 THEN Beat("ptp", byte_cnt + 1, FALSE) ELSE None
         /\ byte_cnt' = IF gen_ctrl = 1 THEN byte_cnt + 1 ELSE 0
         /\ made' = made + gen_ctrl
    [] state = "SEND" /\ tready("ptp") ->
         /\ state' = IF LastNext THEN "LAST" ELSE "SEND"
         /\ ptpOut' = Beat("ptp", byte_cnt + 1, FALSE)
         /\ byte_cnt' = byte_cnt + 1
         /\ UNCHANGED made
    [] state = "LAST" /\ tready("ptp") ->
         /\ state' = "IDLE" /\ ptpOut' = LastBeat
         /\ UNCHANGED <<byte_cnt, made>>
    [] OTHER -> UNCHANGED <<state, byte_cnt, ptpOut, made>>

(* Mutant: gen_ctrl_reg keeps its value.                                   *)
ControlKept == gen_ctrl' = IF stb > 0 THEN 1 ELSE gen_ctrl

(* gen_ctrl_reg holds what is written while the strobe lasts.              *)
Control == gen_ctrl' = IF stb > 0 THEN 1 ELSE 0

(* issueDelayReq writes PTP_GEN_CTRL, when the stamp of the request before *)
(* has been seen; the strobe of a bus access lasts two clocks.             *)
Write == /\ starts < MaxStarts /\ left = starts /\ stb = 0
         /\ starts' = starts + 1 /\ stb' = 2

NoWrite == stb' = (IF stb > 0 THEN stb - 1 ELSE 0) /\ UNCHANGED starts
-----------------------------------------------------------------------------
(***************************************************************************)
(* The UDP stack: a command for the TSS or an answer to an ARP request, at *)
(* any time; it may pause between two beats.  Its own multiplexer of IP    *)
(* and ARP (eth_arb_mux.v:155-190) hands on a frame that waits right behind*)
(* the last beat of another, so there may be no pause between two frames.  *)
(***************************************************************************)
UdpOffer(l, i) == udp' = [beat |-> Beat("udp", i, i = l), len |-> l, at |-> i]

UdpMoves == udp.beat = None \/ tready("udp")

UdpBegin == /\ UdpMoves /\ udp.at = udp.len /\ udps < MaxUdp
            /\ udps' = udps + 1
            /\ \E l \in UdpLens : UdpOffer(l, 1)

UdpBeat == UdpMoves /\ udp.at < udp.len /\ UdpOffer(udp.len, udp.at + 1) /\ UNCHANGED udps

UdpWait == /\ udp' = IF UdpMoves THEN [udp EXCEPT !.beat = None] ELSE udp
           /\ UNCHANGED udps

Next ==
  /\ Mux /\ Header /\ Sender /\ Control
  /\ Write \/ NoWrite
  /\ UdpBegin \/ UdpBeat \/ UdpWait

(* The clock runs, and the UDP stack finishes the frames it begins.        *)
Spec == Init /\ [][Next]_vars /\ WF_vars(Next) /\ WF_vars(Next /\ UdpBeat)
-----------------------------------------------------------------------------
Beats == [src : Ports, no : Nat, last : BOOLEAN] \cup {None}

TypeOK ==
  /\ stb \in 0 .. 2 /\ gen_ctrl \in 0 .. 1
  /\ state \in {"IDLE", "SEND", "LAST"} /\ byte_cnt \in 0 .. PtpLen - 1
  /\ {ptpOut, udp.beat, sreg["ptp"], sreg["udp"], mreg, temp, taken} \subseteq Beats
  /\ grant \in Ports \cup {"none"}
  /\ eth \in [phase : {"idle", "header", "payload"}, k : 0 .. HeaderLen,
              src : Ports \cup {"none"}]

(* What leaves is whole frames: every beat is the first of a frame or the  *)
(* successor of the one before it, a frame ends with its last beat, and    *)
(* the header before it is that of its own source, however the two sources *)
(* meet (axis_arb_mux.v:150-208, ptp_gen.sv:115-145).                      *)
WholeFrames ==
  [][m_axis_tready /\ mreg # None =>
       /\ mreg.src = eth.src
       /\ IF taken = None \/ taken.last THEN mreg.no = 1
          ELSE mreg.src = taken.src /\ mreg.no = taken.no + 1
       /\ mreg.src = "ptp" => (mreg.last <=> mreg.no = PtpLen)]_vars

(* A write of PTP_GEN_CTRL makes one Delay_Req, although gen_ctrl_reg is   *)
(* set for more than one clock (ptp_gen.sv:39-70,115-128).                 *)
OnePerWrite ==
  /\ made \in {starts - 1, starts}
  /\ left <= made
  /\ state = "IDLE" /\ stb = 0 /\ gen_ctrl = 0 => made = starts

(* As long as no frame comes out of the multiplexer right behind another,  *)
(* every frame that is offered leaves: no beat is dropped and nothing      *)
(* stalls, however the sources meet and pause.  A frame right behind       *)
(* another, of whichever source, gets no header (gmii_udp_loopback.v:382). *)
FramesLeave ==
  /\ starts > left ~> (starts = left \/ joined)
  /\ (\E p \in Ports : Offer[p] # None) ~> (joined \/ (eth.phase = "idle" /\ mreg = None))

(* A Delay_Req that was asked for is sent (ptp_gen.sv:27-30).              *)
DelayReqSent == starts > left ~> starts = left
=============================================================================
