-------------------------------- MODULE BaseR --------------------------------
(***************************************************************************)
(* The 64b/66b block code of 10GBASE-R as the models of the serial lane    *)
(* encode and decode it: udp_alex/udp/tb/baser_serdes_ep.py (MyHDL) and    *)
(* baser.py (cocotb).  A word is eight lanes, each a control flag c and a  *)
(* value v; a block is a type, and for each lane what the type has room    *)
(* for there: a data byte, the 7-bit code of a control character, or the   *)
(* 4-bit code of an ordered set.                                           *)
(***************************************************************************)
EXTENDS Integers, Sequences

ETH_PRE  == 85
IDLE     == 7
LPI      == 6
START    == 251
TERM     == 253
ERROR    == 254
SEQ_OS   == 156
SIG_OS   == 92
Reserved == <<28, 60, 124, 188, 220, 247>>

CTRL_ERROR == 30
(* Control characters and their codes.                                     *)
Codes == {<<IDLE, 0>>, <<LPI, 6>>, <<ERROR, CTRL_ERROR>>}
         \cup {<<Reserved[i], <<45, 51, 75, 85, 102, 120>>[i]>> : i \in 1 .. 6}

Lanes == 0 .. 7
Ctrl(v) == [c |-> TRUE, v |-> v]
Byte8(v) == [c |-> FALSE, v |-> v]
ErrorWord == [i \in Lanes |-> Ctrl(ERROR)]

(* The code of a lane.  MyHDL has none for a data byte; cocotb looks up    *)
(* the value of the byte as if it were a control character.                *)
CodeOf(l, cocotb) ==
  IF \E p \in Codes : p[1] = l.v /\ (l.c \/ cocotb)
  THEN (CHOOSE p \in Codes : p[1] = l.v)[2] ELSE CTRL_ERROR

CharOf(code) ==
  IF \E p \in Codes : p[2] = code THEN (CHOOSE p \in Codes : p[2] = code)[1] ELSE ERROR

DataFrom(w, i, j) == \A k \in i .. j : ~w[k].c
StartAt(w, i) == w[i] = Ctrl(START) /\ DataFrom(w, i + 1, 7)
OrderedSet(w, i) == w[i] \in {Ctrl(SEQ_OS), Ctrl(SIG_OS)} /\ DataFrom(w, i + 1, i + 3)
TermAt(w, i) == w[i] = Ctrl(TERM) /\ DataFrom(w, 0, i - 1)

(* The first type that fits.                                               *)
TypeOf(w) ==
  CASE DataFrom(w, 0, 7)                    -> [type |-> "DATA", at |-> 0]
    [] StartAt(w, 0)                        -> [type |-> "START", at |-> 0]
    [] StartAt(w, 4) /\ OrderedSet(w, 0)    -> [type |-> "OS_START", at |-> 4]
    [] StartAt(w, 4) /\ ~OrderedSet(w, 0)   -> [type |-> "START", at |-> 4]
    [] OrderedSet(w, 0) /\ OrderedSet(w, 4) -> [type |-> "OS_04", at |-> 0]
    [] OrderedSet(w, 0) /\ ~OrderedSet(w, 4) /\ ~StartAt(w, 4) -> [type |-> "OS", at |-> 0]
    [] OrderedSet(w, 4) /\ ~OrderedSet(w, 0) -> [type |-> "OS", at |-> 4]
    [] (\E i \in Lanes : TermAt(w, i)) /\ ~StartAt(w, 4) /\ ~OrderedSet(w, 4) ->
         [type |-> "TERM", at |-> CHOOSE i \in Lanes : TermAt(w, i)]
    [] OTHER                                -> [type |-> "CTRL", at |-> 0]

DataLanes(b) ==
  CASE b.type = "DATA"                 -> Lanes
    [] b.type = "START"                -> b.at + 1 .. 7
    [] b.type \in {"OS_START", "OS_04"} -> Lanes \ {0, 4}
    [] b.type = "OS"                   -> b.at + 1 .. b.at + 3
    [] b.type = "TERM"                 -> 0 .. b.at - 1
    [] OTHER                           -> {}

SetLanes(b) == CASE b.type = "OS_START" -> {0}
                 [] b.type = "OS_04"    -> {0, 4}
                 [] b.type = "OS"       -> {b.at}
                 [] OTHER               -> {}

CtrlLanes(b) == CASE b.type = "TERM"  -> b.at + 1 .. 7
                  [] b.type = "START" -> 0 .. b.at - 1
                  [] b.type = "OS"    -> IF b.at = 0 THEN 4 .. 7 ELSE 0 .. 3
                  [] b.type = "CTRL"  -> Lanes
                  [] OTHER            -> {}

(* Where an ordered set is in lane 0, the codes of lanes 0 to 3 are put in *)
(* the place of those of lanes 4 to 7, and four bits too far.              *)
Misplaced(w, i, cocotb) ==
  (CodeOf(w[i - 4], cocotb) % 8) * 16
    + IF i = 4 THEN 0 ELSE CodeOf(w[i - 5], cocotb) \div 8

(* The content of a block for word w.                                      *)
Content(w, b, cocotb) ==
  [i \in Lanes |->
     IF i \in DataLanes(b) THEN w[i].v
     ELSE IF i \in SetLanes(b) THEN IF w[i].v = SIG_OS THEN 15 ELSE 0
     ELSE IF i \in CtrlLanes(b)
          THEN IF b.type = "OS" /\ b.at = 0 THEN Misplaced(w, i, cocotb) ELSE CodeOf(w[i], cocotb)
     ELSE 0]

Block(w, cocotb) == [kind |-> TypeOf(w), lane |-> Content(w, TypeOf(w), cocotb)]
Encode(w)        == Block(w, FALSE)
EncodeCocotb(w)  == Block(w, TRUE)

(* Both decoders take a signal ordered set in lane 0 for a sequence        *)
(* ordered set, unless there is another set or a start in lane 4.          *)
SetOf(b, i) ==
  IF b.lane[i] = 0 \/ (b.kind.type = "OS" /\ b.kind.at = 0) THEN SEQ_OS ELSE SIG_OS

(* A block with an invalid header or type is one of errors.                *)
Decode(b) ==
  IF b.kind.type = "BAD" THEN ErrorWord
  ELSE [i \in Lanes |->
          IF i \in DataLanes(b.kind) THEN Byte8(b.lane[i])
          ELSE IF i \in SetLanes(b.kind) THEN Ctrl(SetOf(b, i))
          ELSE IF i \in CtrlLanes(b.kind) THEN Ctrl(CharOf(b.lane[i]))
          ELSE Ctrl(IF b.kind.type = "TERM" THEN TERM ELSE START)]
DecodeCocotb(b) == Decode(b)

Bad == [kind |-> [type |-> "BAD", at |-> 0], lane |-> [i \in Lanes |-> 0]]
=============================================================================
