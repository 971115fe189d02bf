---------------------------- MODULE TxMuxProofs ----------------------------
(***************************************************************************)
(* What leaves the multiplexer is whole frames under headers of their own, *)
(* and a write makes one Delay_Req, for every length of the frames and of  *)
(* the header and every way the two sources can meet.                      *)
(***************************************************************************)
EXTENDS TxMux, TLAPS

(* A beat after which its frame goes on, and the beats that may follow.    *)
Open(b) == b # None /\ ~b.last

Follows(a, b) == IF Open(a) THEN b.src = a.src /\ b.no = a.no + 1 ELSE b.no = 1

(* The last beat that has passed the arbiter, and the last one that port p *)
(* has taken of the frame it is in.                                        *)
Passed    == IF temp # None THEN temp ELSE IF mreg # None THEN mreg ELSE taken
Ahead(p)  == IF grant = p THEN Passed ELSE None
Before(p) == IF sreg[p] # None THEN sreg[p] ELSE Ahead(p)
-----------------------------------------------------------------------------
(* A beat of a Delay_Req is the last one when it is byte PtpLen.           *)
PtpBeats == {b \in [src : {"ptp"}, no : Nat, last : BOOLEAN] : b.last <=> b.no = PtpLen}
UdpBeats == [src : {"udp"}, no : Nat, last : BOOLEAN]

BeatTypes ==
  /\ sreg \in [Ports -> PtpBeats \cup UdpBeats \cup {None}]
  /\ \A p \in Ports : sreg[p] = None \/ sreg[p].src = p
  /\ {mreg, temp, taken} \subseteq PtpBeats \cup UdpBeats \cup {None}
  /\ grant \in Ports \cup {"none"}
  /\ int_ready \in BOOLEAN /\ valid_int \in BOOLEAN

Middle(i) == Beat("ptp", i, FALSE)
End       == Beat("ptp", PtpLen, TRUE)

(* The generator, from the strobe to the clock after the last beat.        *)
GenIdle ==
  /\ state = "IDLE" /\ ptpOut = None /\ byte_cnt = 0
  /\ \/ stb = 0 /\ gen_ctrl = 0 /\ made = starts /\ left \in {made - 1, made}
     \/ stb = 2 /\ gen_ctrl = 0 /\ made = starts - 1 /\ left = made
     \/ stb = 1 /\ gen_ctrl = 1 /\ made = starts - 1 /\ left = made

GenBusy ==
  /\ stb = 0 /\ made = starts /\ left = made - 1
  /\ \/ /\ state = "SEND" /\ byte_cnt \in 1 .. PtpLen - 2
        /\ gen_ctrl = 0 \/ (gen_ctrl = 1 /\ byte_cnt = 1)
        /\ ptpOut = Middle(byte_cnt)
     \/ /\ state = "LAST" /\ byte_cnt = PtpLen - 1 /\ gen_ctrl = 0
        /\ ptpOut = Middle(byte_cnt)
     \/ /\ state = "IDLE" /\ byte_cnt = PtpLen - 1 /\ gen_ctrl = 0
        /\ ptpOut = End

GenInv == starts \in Nat /\ left \in Nat /\ (GenIdle \/ GenBusy)

(* The last beat of a Delay_Req is the last of its kind on the way, and    *)
(* when all have been sent there is none.                                  *)
Sealed ==
  /\ sreg["ptp"].last => GenIdle
  /\ temp.src = "ptp" /\ temp.last => GenIdle /\ sreg["ptp"] = None
  /\ mreg.src = "ptp" /\ mreg.last => GenIdle /\ sreg["ptp"] = None /\ temp.src # "ptp"
  /\ left = made => /\ ptpOut = None /\ sreg["ptp"] = None
                    /\ temp.src # "ptp" /\ mreg.src # "ptp"
                    /\ taken.src = "ptp" => taken.last

UdpAt(l, i) == Beat("udp", i, i = l)

(* The beat the UDP stack offers, and where it goes on when it offers none.*)
UdpInv ==
  /\ udp \in [beat : UdpBeats \cup {None}, len : Nat, at : Nat] /\ udp.at <= udp.len
  /\ \/ udp.beat = UdpAt(udp.len, udp.at) /\ udp.at >= 1
     \/ /\ udp.beat = None
        /\ IF Open(Before("udp")) THEN udp.at = Before("udp").no /\ udp.at < udp.len
           ELSE udp.at = udp.len

(* Every register holds the beat that follows the one ahead of it.         *)
Chain ==
  /\ temp # None => mreg # None /\ ~int_ready
  /\ mreg # None => Follows(taken, mreg)
  /\ temp # None => Follows(mreg, temp)
  /\ \A p \in Ports : /\ sreg[p] # None => Follows(Ahead(p), sreg[p])
                      /\ Offer[p] # None => Follows(Before(p), Offer[p])
  /\ Open(Passed) => grant = Passed.src

(* The header is that of the frame that waits for it, or is being sent.    *)
EthInv ==
  /\ eth \in [phase : {"idle", "header", "payload"}, k : 0 .. HeaderLen,
              src : Ports \cup {"none"}]
  /\ eth.phase = "header" => mreg # None /\ mreg.src = eth.src /\ eth.k >= 1
  /\ eth.phase = "payload" =>
       IF mreg # None THEN mreg.src = eth.src ELSE Open(taken) /\ taken.src = eth.src

MuxInv == BeatTypes /\ GenInv /\ Sealed /\ UdpInv /\ Chain /\ EthInv
-----------------------------------------------------------------------------
(* What the arms of the two case distinctions say, one at a time.          *)
LEMMA SenderArms ==
  ASSUME Sender
  PROVE  /\ state = "IDLE" =>
              /\ state' = IF gen_ctrl = 1 THEN "SEND" ELSE "IDLE"
              /\ ptpOut' = IF gen_ctrl = 1 THEN Middle(byte_cnt + 1) ELSE None
              /\ byte_cnt' = IF gen_ctrl = 1 THEN byte_cnt + 1 ELSE 0
              /\ made' = made + gen_ctrl
         /\ state = "SEND" /\ tready("ptp") =>
              /\ state' = IF LastNext THEN "LAST" ELSE "SEND"
              /\ ptpOut' = Middle(byte_cnt + 1)
              /\ byte_cnt' = byte_cnt + 1
              /\ made' = made
         /\ state = "LAST" /\ tready("ptp") =>
              /\ state' = "IDLE" /\ ptpOut' = LastBeat
              /\ byte_cnt' = byte_cnt /\ made' = made
         /\ state # "IDLE" /\ ~tready("ptp") =>
              /\ state' = state /\ byte_cnt' = byte_cnt
              /\ ptpOut' = ptpOut /\ made' = made
<1>1. CASE state = "IDLE"
  BY <1>1, Zenon DEF Sender, Middle
<1>2. CASE state = "SEND" /\ tready("ptp")
  BY <1>2, Zenon DEF Sender, Middle
<1>3. CASE state = "LAST" /\ tready("ptp")
  BY <1>3, Zenon DEF Sender, Middle
<1>4. CASE state # "IDLE" /\ ~tready("ptp")
  BY <1>4, Zenon DEF Sender, Middle
<1> QED  BY <1>1, <1>2, <1>3, <1>4

LEMMA HeaderArms ==
  ASSUME Header
  PROVE  /\ eth.phase = "idle" /\ tx_eth_hdr_valid =>
              eth' = [phase |-> "header", k |-> HeaderLen, src |-> mreg.src]
         /\ eth.phase = "idle" /\ ~tx_eth_hdr_valid => eth' = eth
         /\ eth.phase = "header" /\ eth.k = 1 => eth' = [eth EXCEPT !.phase = "payload"]
         /\ eth.phase = "header" /\ eth.k # 1 => eth' = [eth EXCEPT !.k = eth.k - 1]
         /\ eth.phase = "payload" /\ mreg.last => eth' = [eth EXCEPT !.phase = "idle"]
         /\ eth.phase = "payload" /\ ~mreg.last => eth' = eth
BY Zenon DEF Header
-----------------------------------------------------------------------------
(* Beats and the lack of one.                                              *)
Wires == PtpBeats \cup UdpBeats \cup {None}

LEMMA NoBeat == None.src = "none" /\ None.no = 0 /\ ~None.last
BY DEF None

LEMMA Kinds ==
  ASSUME NEW b \in Wires
  PROVE  /\ b.no \in Nat /\ b.last \in BOOLEAN
         /\ b # None => b.src \in Ports
         /\ b.src = "ptp" => b \in PtpBeats /\ (b.last <=> b.no = PtpLen)
         /\ b.src = "udp" => b \in UdpBeats
<1>1. CASE b \in PtpBeats
  BY <1>1 DEF PtpBeats, Ports
<1>2. CASE b \in UdpBeats
  BY <1>2 DEF UdpBeats, Ports
<1>3. CASE b = None
  BY <1>3 DEF None
<1> QED  BY <1>1, <1>2, <1>3 DEF Wires

LEMMA MiddleBeat ==
  ASSUME NEW i \in Nat
  PROVE  /\ i # PtpLen => Middle(i) \in PtpBeats
         /\ Middle(i) # None /\ Middle(i).src = "ptp" /\ Middle(i).no = i /\ ~Middle(i).last
BY DEF Middle, Beat, PtpBeats, None

LEMMA EndBeat == /\ End \in PtpBeats /\ End # None /\ End.src = "ptp"
                 /\ End.no = PtpLen /\ End.last
BY TxAssumption DEF End, Beat, PtpBeats, None

LEMMA UdpBeatIs ==
  ASSUME NEW i \in Nat, NEW l \in Nat
  PROVE  LET b == UdpAt(l, i)
         IN  b \in UdpBeats /\ b # None /\ b.src = "udp" /\ b.no = i /\ (b.last <=> i = l)
BY DEF UdpAt, Beat, UdpBeats, None

LEMMA Offers ==
  ASSUME GenInv, UdpInv
  PROVE  /\ Offer["ptp"] = ptpOut /\ Offer["udp"] = udp.beat
         /\ ptpOut \in Wires /\ udp.beat \in Wires
         /\ ptpOut # None => ptpOut.src = "ptp"
         /\ udp.beat # None => udp.beat.src = "udp"
<1>1. Offer["ptp"] = ptpOut /\ Offer["udp"] = udp.beat
  BY DEF Offer
<1>2. ptpOut = None \/ (ptpOut \in PtpBeats /\ ptpOut.src = "ptp")
  <2>1. PtpLen \in Nat /\ PtpLen > 3
    BY TxAssumption
  <2>2. CASE GenIdle
    BY <2>2 DEF GenIdle
  <2>3. CASE state \in {"SEND", "LAST"} /\ GenBusy
    <3>1. byte_cnt \in Nat /\ byte_cnt # PtpLen /\ ptpOut = Middle(byte_cnt)
      BY <2>1, <2>3 DEF GenBusy
    <3> QED  BY <3>1, MiddleBeat
  <2>4. CASE state = "IDLE" /\ GenBusy
    BY <2>1, <2>4, EndBeat DEF GenBusy
  <2> QED  BY <2>2, <2>3, <2>4 DEF GenInv, GenBusy
<1>3. udp.beat = None \/ (udp.beat \in UdpBeats /\ udp.beat.src = "udp")
  BY UdpBeatIs DEF UdpInv
<1> QED  BY <1>1, <1>2, <1>3 DEF Wires

LEMMA OnTheWay ==
  ASSUME BeatTypes
  PROVE  /\ \A p \in Ports : sreg[p] \in Wires /\ (sreg[p] # None => sreg[p].src = p)
         /\ mreg \in Wires /\ temp \in Wires /\ taken \in Wires /\ Passed \in Wires
         /\ IntBeat \in Wires
         /\ IntBeat # None => /\ int_ready /\ grant \in Ports
                              /\ IntBeat = sreg[grant] /\ IntBeat.src = grant
         /\ \A p \in Ports : Ahead(p) \in Wires /\ Before(p) \in Wires
<1>1. /\ \A p \in Ports : sreg[p] \in Wires /\ (sreg[p] # None => sreg[p].src = p)
      /\ mreg \in Wires /\ temp \in Wires /\ taken \in Wires /\ None \in Wires
  BY DEF BeatTypes, Wires
<1>2. Passed \in Wires
  BY <1>1 DEF Passed
<1>3. /\ IntBeat \in Wires
      /\ IntBeat # None => /\ int_ready /\ grant \in Ports
                           /\ IntBeat = sreg[grant] /\ IntBeat.src = grant
  BY <1>1 DEF IntBeat, BeatTypes
<1> QED  BY <1>1, <1>2, <1>3 DEF Ahead, Before
-----------------------------------------------------------------------------
(* One edge of the clock at the arbiter and the output register.           *)
LEMMA Passing ==
  ASSUME Chain, Mux, Header
  PROVE  Passed' = IF IntBeat # None THEN IntBeat ELSE Passed
<1>1. (int_ready => temp = None) /\ (temp # None => mreg # None)
  BY DEF Chain
<1>2. ~int_ready => IntBeat = None
  BY DEF IntBeat
<1>3. taken' = IF m_axis_tready /\ mreg # None THEN mreg ELSE taken
  BY DEF Header
<1>4. Passed' = IF temp' # None THEN temp' ELSE IF mreg' # None THEN mreg' ELSE taken'
  BY DEF Passed, None
<1>5. CASE int_ready /\ (m_axis_tready \/ mreg = None)
  BY <1>1, <1>3, <1>4, <1>5 DEF Mux, Output, Passed
<1>6. CASE int_ready /\ ~m_axis_tready /\ mreg # None
  BY <1>1, <1>3, <1>4, <1>6 DEF Mux, Output, Passed
<1>7. CASE ~int_ready
  BY <1>1, <1>2, <1>3, <1>4, <1>7 DEF Mux, Output, Passed
<1> QED  BY <1>5, <1>6, <1>7

(* A port keeps the grant until its last beat has passed.                  *)
LEMMA Holding ==
  ASSUME BeatTypes, Mux
  PROVE  /\ grant \in Ports /\ ~(IntBeat # None /\ IntBeat.last) => grant' = grant
         /\ grant' \in Ports \cup {"none"}
<1>1. grant \in Ports => (acknowledge <=> IntBeat # None /\ IntBeat.last)
  BY NoBeat DEF acknowledge, IntBeat, Ports
<1>2. grant' \in Ports \cup {"none"}
  BY DEF Mux, Arbiter, BeatTypes, Ports
<1> QED  BY <1>1, <1>2 DEF Mux, Arbiter, Ports

(* What a port finds ahead of its register: the beat it gave last while    *)
(* its frame is open, and no open frame of another port's.                 *)
LEMMA AheadMoves ==
  ASSUME BeatTypes, Chain, Mux, Header, NEW p \in Ports
  PROVE  /\ grant # p => ~Open(Ahead(p)')
         /\ grant = p /\ IntBeat = None => Ahead(p)' = Ahead(p)
         /\ grant = p /\ IntBeat # None /\ (Open(IntBeat) \/ Open(Ahead(p)')) => Ahead(p)' = IntBeat
<1>1. Passed' = IF IntBeat # None THEN IntBeat ELSE Passed
  BY Passing
<1>2. grant \in Ports /\ ~(IntBeat # None /\ IntBeat.last) => grant' = grant
  BY Holding
<1>3. Ahead(p)' = IF grant' = p THEN Passed' ELSE None
  BY DEF Ahead, None
<1>4. IntBeat # None => grant \in Ports
  BY OnTheWay
<1>5. Open(Passed) => grant \in Ports
  <2>1. Passed \in Wires
    BY OnTheWay
  <2> QED  BY <2>1, Kinds DEF Chain, Open
<1>6. ASSUME grant # p PROVE ~Open(Ahead(p)')
  BY <1>1, <1>2, <1>3, <1>4, <1>5, <1>6 DEF Open
<1>7. ASSUME grant = p, IntBeat = None PROVE Ahead(p)' = Ahead(p)
  BY <1>1, <1>2, <1>3, <1>7 DEF Ahead
<1>8. ASSUME grant = p, IntBeat # None, Open(IntBeat) \/ Open(Ahead(p)')
      PROVE  Ahead(p)' = IntBeat
  BY <1>1, <1>2, <1>3, <1>8 DEF Open
<1> QED  BY <1>6, <1>7, <1>8

LEMMA BeforeMoves ==
  ASSUME BeatTypes, Chain, Mux, Header, NEW p \in Ports
  PROVE  /\ sreg'[p] = IF tready(p) THEN Offer[p] ELSE sreg[p]
         /\ tready(p) /\ Offer[p] # None => Before(p)' = Offer[p]
         /\ tready(p) /\ (Open(Before(p)) \/ Open(Ahead(p)')) => Ahead(p)' = Before(p)
         /\ tready(p) /\ Offer[p] = None => Before(p)' = Ahead(p)'
         /\ ~tready(p) => sreg[p] # None /\ Before(p)' = Before(p)
<1>1. sreg'[p] = IF tready(p) THEN Offer[p] ELSE sreg[p]
  BY DEF Mux
<1>2. Before(p)' = IF sreg'[p] # None THEN sreg'[p] ELSE Ahead(p)'
  BY DEF Before, None
<1>3. ASSUME tready(p), Open(Before(p)) \/ Open(Ahead(p)')
      PROVE  Ahead(p)' = Before(p)
  <2>1. CASE sreg[p] = None /\ grant = p
    <3>1. IntBeat = None
      BY <2>1 DEF IntBeat
    <3> QED  BY <2>1, <3>1, AheadMoves DEF Before
  <2>2. CASE sreg[p] = None /\ grant # p
    <3>1. ~Open(Before(p))
      BY <2>2 DEF Before, Ahead, Open
    <3> QED  BY <1>3, <2>2, <3>1, AheadMoves
  <2>3. CASE sreg[p] # None
    <3>1. grant = p /\ IntBeat = sreg[p]
      BY <1>3, <2>3 DEF IntBeat, tready, Ports
    <3> QED  BY <1>3, <2>3, <3>1, AheadMoves DEF Before
  <2> QED  BY <2>1, <2>2, <2>3
<1>4. ~tready(p) => sreg[p] # None
  BY DEF tready
<1> QED  BY <1>1, <1>2, <1>3, <1>4 DEF Before
-----------------------------------------------------------------------------
(* The conjuncts of the invariant, one lemma each.                         *)
LEMMA BeatTypesStep ==
  ASSUME BeatTypes, GenInv, UdpInv, Chain, Mux, Header
  PROVE  BeatTypes'
<1>1. \A p \in Ports : Offer[p] \in Wires /\ (Offer[p] # None => Offer[p].src = p)
  BY Offers DEF Ports
<1>2. sreg' \in [Ports -> Wires]
  BY <1>1, OnTheWay DEF Mux
<1>3. \A p \in Ports : sreg'[p] = None \/ sreg'[p].src = p
  BY <1>1, OnTheWay DEF Mux
<1>4. mreg' \in Wires /\ temp' \in Wires
  <2>1. None \in Wires
    BY DEF Wires
  <2> QED  BY <2>1, OnTheWay DEF Mux, Output
<1>5. taken' \in Wires
  BY OnTheWay DEF Header
<1>6. grant' \in Ports \cup {"none"}
  BY Holding
<1>7. int_ready' \in BOOLEAN
  BY Zenon DEF Mux, Output
<1>8. valid_int' \in BOOLEAN
  BY Zenon DEF Header
<1>9. Wires' = Wires /\ None' = None
  BY DEF Wires, PtpBeats, UdpBeats, None
<1> QED  BY <1>2, <1>3, <1>4, <1>5, <1>6, <1>7, <1>8, <1>9 DEF BeatTypes, Wires

(* What leaves while a Delay_Req is on the way.                            *)
LEMMA LeftMoves ==
  ASSUME Sealed, BeatTypes, Header
  PROVE  \/ left' = left
         \/ /\ left' = left + 1 /\ left # made
            /\ GenIdle /\ m_axis_tready
            /\ mreg.src = "ptp" /\ mreg.last /\ sreg["ptp"] = None /\ temp.src # "ptp"
BY DEF Sealed, Header

LEMMA GenInvStep ==
  ASSUME BeatTypes, GenInv, Sealed, Header, Sender, Control, Write \/ NoWrite
  PROVE  GenInv'
<1>1. PtpLen \in Nat /\ PtpLen > 3
  BY TxAssumption
<1>2. starts \in Nat /\ left \in Nat
  BY DEF GenInv
<1>3. left' = left \/ (left' = left + 1 /\ left # made /\ GenIdle)
  BY LeftMoves
<1>4. starts' = starts \/ (starts' = starts + 1 /\ left = starts /\ stb = 0)
  BY DEF Write, NoWrite
<1>5. starts' \in Nat /\ left' \in Nat
  BY <1>2, <1>3, <1>4
<1>6. GenIdle /\ GenBusy => FALSE
  BY EndBeat, MiddleBeat, <1>1 DEF GenIdle, GenBusy
<1>7. CASE GenIdle /\ stb = 0
  <2>1. /\ state = "IDLE" /\ ptpOut = None /\ byte_cnt = 0
        /\ gen_ctrl = 0 /\ made = starts /\ left \in {made - 1, made}
    BY <1>7 DEF GenIdle
  <2>2. state' = "IDLE" /\ ptpOut' = None /\ byte_cnt' = 0 /\ made' = made /\ gen_ctrl' = 0
    BY <1>2, <1>7, <2>1, SenderArms DEF Control, None
  <2>3. CASE Write
    <3>1. starts' = starts + 1 /\ stb' = 2 /\ left = starts /\ left' = left
      BY <1>3, <2>1, <2>3 DEF Write
    <3> QED  BY <1>2, <1>5, <2>1, <2>2, <3>1 DEF GenInv, GenIdle, None
  <2>4. CASE NoWrite
    <3>1. starts' = starts /\ stb' = 0
      BY <1>7, <2>4 DEF NoWrite
    <3> QED  BY <1>2, <1>3, <1>5, <2>1, <2>2, <3>1 DEF GenInv, GenIdle, None
  <2> QED  BY <2>3, <2>4
<1>8. CASE GenIdle /\ stb # 0
  <2>1. /\ state = "IDLE" /\ ptpOut = None /\ byte_cnt = 0
        /\ made = starts - 1 /\ left = made
        /\ (stb = 2 /\ gen_ctrl = 0) \/ (stb = 1 /\ gen_ctrl = 1)
    BY <1>8 DEF GenIdle
  <2>2. starts' = starts /\ stb' = stb - 1 /\ gen_ctrl' = 1 /\ left' = left
    BY <1>3, <2>1 DEF Write, NoWrite, Control
  <2>3. CASE stb = 2
    <3>1. state' = "IDLE" /\ ptpOut' = None /\ byte_cnt' = 0 /\ made' = made
      BY <1>2, <2>1, <2>3, SenderArms
    <3> QED  BY <1>5, <2>1, <2>2, <2>3, <3>1 DEF GenInv, GenIdle, None
  <2>4. CASE stb = 1
    <3>1. state' = "SEND" /\ ptpOut' = Middle(1) /\ byte_cnt' = 1 /\ made' = made + 1
      BY <2>1, <2>4, SenderArms
    <3>2. GenBusy'
      BY <1>1, <1>2, <2>1, <2>2, <2>4, <3>1 DEF GenBusy, Middle, Beat
    <3> QED  BY <1>5, <3>2 DEF GenInv
  <2> QED  BY <2>1, <2>3, <2>4
<1>9. CASE GenBusy
  <2>1. left' = left /\ stb' = 0 /\ starts' = starts /\ gen_ctrl' = 0
    BY <1>2, <1>3, <1>6, <1>9 DEF GenBusy, Write, NoWrite, Control
  <2>2. stb = 0 /\ made = starts /\ left = made - 1
    BY <1>9 DEF GenBusy
  <2>3. CASE state = "SEND" /\ tready("ptp")
    <3>1. byte_cnt \in 1 .. PtpLen - 2
      BY <1>9, <2>3 DEF GenBusy
    <3>2. /\ ptpOut' = Middle(byte_cnt + 1) /\ byte_cnt' = byte_cnt + 1 /\ made' = made
          /\ state' = IF LastNext THEN "LAST" ELSE "SEND"
      BY <2>3, SenderArms
    <3>3. GenBusy'
      BY <1>1, <2>1, <2>2, <3>1, <3>2 DEF GenBusy, LastNext, Middle, Beat
    <3> QED  BY <1>5, <3>3 DEF GenInv
  <2>4. CASE state = "LAST" /\ tready("ptp")
    <3>1. byte_cnt = PtpLen - 1
      BY <1>9, <2>4 DEF GenBusy
    <3>2. ptpOut' = End /\ byte_cnt' = byte_cnt /\ made' = made /\ state' = "IDLE"
      BY <1>1, <2>4, <3>1, SenderArms DEF LastBeat, End
    <3>3. GenBusy'
      BY <1>1, <2>1, <2>2, <3>1, <3>2 DEF GenBusy, End, Beat
    <3> QED  BY <1>5, <3>3 DEF GenInv
  <2>5. CASE state # "IDLE" /\ ~tready("ptp")
    <3>1. UNCHANGED <<state, byte_cnt, ptpOut, made>>
      BY <2>5, SenderArms
    <3>2. GenBusy'
      BY <1>9, <2>1, <2>2, <2>5, <3>1 DEF GenBusy, Middle, Beat
    <3> QED  BY <1>5, <3>2 DEF GenInv
  <2>6. CASE state = "IDLE"
    <3>1. gen_ctrl = 0
      BY <1>9, <2>6 DEF GenBusy
    <3>2. state' = "IDLE" /\ ptpOut' = None /\ byte_cnt' = 0 /\ made' = made
      BY <1>2, <2>2, <2>6, <3>1, SenderArms
    <3> QED  BY <1>2, <1>5, <2>1, <2>2, <3>2 DEF GenInv, GenIdle, None
  <2> QED  BY <1>9, <2>3, <2>4, <2>5, <2>6 DEF GenBusy
<1> QED  BY <1>7, <1>8, <1>9 DEF GenInv

LEMMA SealedStep ==
  ASSUME BeatTypes, GenInv, UdpInv, Sealed, Chain, Mux, Header, Sender, GenInv'
  PROVE  Sealed'
<1>1. PtpLen \in Nat /\ PtpLen > 3 /\ starts \in Nat /\ left \in Nat
  BY TxAssumption DEF GenInv
<1>2. None' = None /\ None.src = "none" /\ ~None.last
  BY NoBeat DEF None
<1>3. sreg'["ptp"] = IF tready("ptp") THEN ptpOut ELSE sreg["ptp"]
  BY Offers DEF Mux, Ports
<1>4. \/ int_ready /\ temp' = temp /\ mreg' = IntBeat
      \/ int_ready /\ temp' = IntBeat /\ mreg' = mreg
      \/ ~int_ready /\ temp' = None /\ mreg' = temp
      \/ ~int_ready /\ temp' = temp /\ mreg' = mreg
  BY DEF Mux, Output
<1>5. IntBeat.src = "ptp" => grant = "ptp" /\ int_ready /\ IntBeat = sreg["ptp"] /\ sreg["ptp"] # None
  BY <1>2, OnTheWay
<1>6. ptpOut' = None => GenIdle'
  BY <1>2, EndBeat, MiddleBeat, <1>1 DEF GenInv, GenIdle, GenBusy, Middle, End, Beat
<1>7. ASSUME GenIdle, left # made
      PROVE  /\ GenIdle' /\ ptpOut = None /\ ptpOut' = None /\ made' = made /\ left = made - 1
             /\ sreg["ptp"] = None => sreg'["ptp"] = None
  <2>1. state = "IDLE" /\ gen_ctrl = 0 /\ ptpOut = None /\ left = made - 1 /\ made = starts
    BY <1>7, <1>1 DEF GenIdle
  <2>2. ptpOut' = None /\ made' = made
    BY <1>1, <2>1, SenderArms
  <2> QED  BY <1>3, <1>6, <2>1, <2>2
<1>8. sreg'["ptp"].last => GenIdle'
  <2>1. CASE tready("ptp") /\ sreg'["ptp"].last
    <3>1. ptpOut.last
      BY <1>3, <2>1
    <3>2. state = "IDLE" /\ gen_ctrl = 0
      BY <1>1, <1>2, <3>1, MiddleBeat DEF GenInv, GenIdle, GenBusy
    <3> QED  BY <1>6, <3>2, SenderArms
  <2>2. CASE ~tready("ptp") /\ sreg'["ptp"].last
    <3>1. sreg["ptp"].last /\ sreg["ptp"] # None
      BY <1>2, <1>3, <2>2
    <3>2. GenIdle /\ left # made
      BY <3>1 DEF Sealed
    <3> QED  BY <1>7, <3>2
  <2> QED  BY <2>1, <2>2
<1>9. ASSUME grant = "ptp", int_ready, sreg["ptp"].last
      PROVE  GenIdle' /\ sreg'["ptp"] = None
  <2>1. GenIdle /\ left # made
    BY <1>2, <1>9 DEF Sealed
  <2>2. tready("ptp")
    BY <1>9 DEF tready
  <2> QED  BY <1>3, <1>7, <2>1, <2>2
<1>10. temp'.src = "ptp" /\ temp'.last => GenIdle' /\ sreg'["ptp"] = None
  <2>1. CASE temp' = IntBeat
    BY <1>5, <1>9, <2>1
  <2>2. CASE temp' = temp /\ temp.src = "ptp" /\ temp.last
    <3>1. GenIdle /\ sreg["ptp"] = None /\ left # made
      BY <2>2 DEF Sealed
    <3> QED  BY <1>7, <3>1
  <2> QED  BY <1>2, <1>4, <2>1, <2>2
<1>11. mreg'.src = "ptp" /\ mreg'.last => GenIdle' /\ sreg'["ptp"] = None /\ temp'.src # "ptp"
  <2>1. CASE int_ready /\ mreg' = IntBeat /\ temp' = temp /\ IntBeat.src = "ptp" /\ IntBeat.last
    <3>1. temp.src # "ptp"
      BY <1>2, <2>1 DEF Chain
    <3> QED  BY <1>5, <1>9, <2>1, <3>1
  <2>2. CASE mreg' = temp /\ temp' = None /\ temp.src = "ptp" /\ temp.last
    BY <1>2, <1>10, <2>2, <1>7 DEF Sealed
  <2>3. CASE mreg' = mreg /\ (temp' = IntBeat \/ temp' = temp) /\ mreg.src = "ptp" /\ mreg.last
    <3>1. GenIdle /\ sreg["ptp"] = None /\ temp.src # "ptp" /\ left # made
      BY <2>3 DEF Sealed
    <3> QED  BY <1>5, <1>7, <2>3, <3>1
  <2> QED  BY <1>4, <2>1, <2>2, <2>3
<1>12. ASSUME left' = made'
       PROVE  /\ ptpOut' = None /\ sreg'["ptp"] = None
              /\ temp'.src # "ptp" /\ mreg'.src # "ptp"
              /\ taken'.src = "ptp" => taken'.last
  <2>1. taken' = IF m_axis_tready /\ mreg # None THEN mreg ELSE taken
    BY DEF Header
  <2>2. CASE left' = left
    <3>1. made' = made + gen_ctrl \/ made' = made
      BY SenderArms DEF GenInv, GenIdle, GenBusy
    <3>2. left = made /\ made' = made /\ GenIdle /\ gen_ctrl = 0
      BY <1>1, <1>12, <2>2, <3>1, SenderArms DEF GenInv, GenIdle, GenBusy
    <3>3. /\ ptpOut = None /\ sreg["ptp"] = None /\ temp.src # "ptp" /\ mreg.src # "ptp"
          /\ taken.src = "ptp" => taken.last
      BY <3>2 DEF Sealed
    <3>4. ptpOut' = None
      BY <3>2, SenderArms DEF GenIdle
    <3> QED  BY <1>2, <1>3, <1>4, <1>5, <2>1, <3>3, <3>4
  <2>3. CASE left' # left
    <3>1. /\ GenIdle /\ left # made /\ m_axis_tready
          /\ mreg.src = "ptp" /\ mreg.last /\ sreg["ptp"] = None /\ temp.src # "ptp"
      BY <2>3, LeftMoves
    <3>2. ptpOut' = None /\ sreg'["ptp"] = None
      BY <1>7, <3>1
    <3>3. taken' = mreg
      BY <1>2, <2>1, <3>1
    <3>4. temp'.src # "ptp" /\ (mreg' = IntBeat \/ mreg' = temp)
      BY <1>2, <1>4, <1>5, <3>1 DEF Mux, Output
    <3> QED  BY <1>5, <3>1, <3>2, <3>3, <3>4
  <2> QED  BY <2>2, <2>3
<1> QED  BY <1>8, <1>10, <1>11, <1>12 DEF Sealed, None

(* The UDP stack goes on where its last beat is, wherever that is.         *)
LEMMA UdpInvStep ==
  ASSUME BeatTypes, GenInv, UdpInv, Chain, Mux, Header,
         UdpBegin \/ UdpBeat \/ UdpWait
  PROVE  UdpInv'
<1>0. None' = None
  BY DEF None
<1>1. udp.len \in Nat /\ udp.at \in 0 .. udp.len
  BY DEF UdpInv
<1>2. /\ tready("udp") /\ udp.beat # None => Before("udp")' = udp.beat
      /\ udp.beat = None /\ (Open(Before("udp")) \/ Open(Before("udp")'))
           => Before("udp")' = Before("udp")
  BY BeforeMoves, Offers DEF Ports
<1>3. ASSUME NEW l \in Nat, NEW i \in 1 .. l, UdpOffer(l, i)
      PROVE  UdpInv'
  <2>1. udp' = [beat |-> UdpAt(l, i), len |-> l, at |-> i]
    BY <1>3 DEF UdpOffer, UdpAt
  <2>2. /\ udp' \in [beat : UdpBeats \cup {None}, len : Nat, at : Nat]
        /\ udp'.at <= udp'.len /\ udp'.at >= 1
    BY <2>1, UdpBeatIs
  <2>3. udp'.beat = UdpAt(udp'.len, udp'.at)
    BY <2>1
  <2> QED  BY <2>2, <2>3, <1>0 DEF UdpInv, UdpAt, Beat, UdpBeats
<1>4. CASE UdpBegin
  <2>1. PICK l \in UdpLens : UdpOffer(l, 1)
    BY <1>4 DEF UdpBegin
  <2>2. l \in Nat /\ 1 \in 1 .. l
    BY <2>1, TxAssumption
  <2> QED  BY <1>3, <2>1, <2>2
<1>5. CASE UdpBeat
  BY <1>1, <1>3, <1>5 DEF UdpBeat
<1>6. CASE UdpWait /\ UdpMoves
  <2>1. /\ udp'.beat = None /\ udp'.len = udp.len /\ udp'.at = udp.at
        /\ udp' \in [beat : UdpBeats \cup {None}, len : Nat, at : Nat]
    BY <1>6 DEF UdpWait, UdpInv
  <2>2. IF Open(Before("udp")') THEN udp.at = Before("udp")'.no /\ udp.at < udp.len
        ELSE udp.at = udp.len
    <3>1. CASE udp.beat = None
      BY <1>2, <3>1, UdpBeatIs DEF UdpInv
    <3>2. CASE udp.beat # None
      <4>1. Before("udp")' = udp.beat /\ udp.beat = UdpAt(udp.len, udp.at)
        BY <1>2, <1>6, <3>2 DEF UdpMoves, UdpInv
      <4>2. udp.beat.no = udp.at /\ (udp.beat.last <=> udp.at = udp.len)
        BY <1>1, <4>1, UdpBeatIs
      <4> QED  BY <1>1, <3>2, <4>1, <4>2 DEF Open
    <3> QED  BY <3>1, <3>2
  <2> QED  BY <1>0, <1>1, <2>1, <2>2 DEF UdpInv, UdpBeats, Open
<1>7. CASE UdpWait /\ ~UdpMoves
  <2>1. udp' = udp /\ udp.beat # None
    BY <1>7 DEF UdpWait, UdpMoves
  <2> QED  BY <1>0, <2>1 DEF UdpInv, UdpAt, Beat, UdpBeats
<1> QED  BY <1>4, <1>5, <1>6, <1>7

LEMMA ChainStep ==
  ASSUME BeatTypes, GenInv, Sealed, UdpInv, Chain, Mux, Header, Sender,
         UdpBegin \/ UdpBeat \/ UdpWait, BeatTypes'
  PROVE  Chain'
<1>1. None' = None /\ None.src = "none" /\ ~None.last
  BY NoBeat DEF None
<1>2. Passed' = IF IntBeat # None THEN IntBeat ELSE Passed
  BY Passing
<1>3. taken' = IF m_axis_tready /\ mreg # None THEN mreg ELSE taken
  BY DEF Header
<1>4. IntBeat # None => /\ int_ready /\ grant \in Ports /\ IntBeat = sreg[grant]
                        /\ IntBeat.src = grant /\ Follows(Passed, IntBeat)
  BY OnTheWay DEF Chain, Ahead
<1>5. temp' # None => mreg' # None /\ ~int_ready'
  BY DEF Mux, Output, Chain, IntBeat
<1>6. mreg' # None => Follows(taken', mreg')
  BY <1>3, <1>4 DEF Mux, Output, Chain, Passed, IntBeat
<1>7. temp' # None => Follows(mreg', temp')
  BY <1>4 DEF Mux, Output, Chain, Passed, IntBeat
<1>8. ASSUME NEW p \in Ports, sreg'[p] # None
      PROVE  Follows(Ahead(p)', sreg'[p])
  <2>1. CASE tready(p)
    <3>1. sreg'[p] = Offer[p] /\ Follows(Before(p), Offer[p])
      BY <1>8, <2>1, BeforeMoves DEF Chain
    <3> QED  BY <2>1, <3>1, BeforeMoves DEF Follows
  <2>2. CASE ~tready(p)
    <3>1. sreg'[p] = sreg[p] /\ sreg[p] # None /\ Follows(Ahead(p), sreg[p])
      BY <2>2, BeforeMoves DEF Chain
    <3>2. CASE grant = p
      <4>1. IntBeat = None
        BY <2>2, <3>2 DEF tready, IntBeat
      <4> QED  BY <3>1, <3>2, <4>1, AheadMoves
    <3>3. CASE grant # p
      BY <3>1, <3>3, AheadMoves DEF Follows, Ahead, Open
    <3> QED  BY <3>2, <3>3
  <2> QED  BY <2>1, <2>2
<1>9. Open(Passed') => grant' = Passed'.src
  <2>1. Open(Passed) => grant = Passed.src /\ grant \in Ports
    BY OnTheWay, Kinds DEF Chain, Open
  <2> QED  BY <1>2, <1>4, <2>1, Holding DEF Open
<1>10. ptpOut' # None => Follows(Before("ptp")', ptpOut')
  <2>1. /\ "ptp" \in Ports /\ Offer["ptp"] = ptpOut
        /\ PtpLen \in Nat /\ PtpLen > 3
    BY Offers, TxAssumption DEF Ports
  <2>2. CASE GenIdle /\ ptpOut' # None
    <3>1. state = "IDLE" /\ byte_cnt = 0 /\ ptpOut = None /\ left = made
      BY <2>1, <2>2, SenderArms DEF GenIdle
    <3>2. ptpOut' = Middle(1)
      BY <2>2, <3>1, SenderArms
    <3>3. /\ sreg["ptp"] = None /\ temp.src # "ptp" /\ mreg.src # "ptp"
          /\ taken.src = "ptp" => taken.last
      BY <3>1 DEF Sealed
    <3>4. ~Open(Before("ptp"))
      BY <3>3 DEF Before, Ahead, Passed, Chain, Open
    <3>5. ~Open(Before("ptp")')
      BY <2>1, <3>1, <3>4, BeforeMoves
    <3> QED  BY <3>2, <3>5, MiddleBeat DEF Follows
  <2>3. CASE GenBusy /\ state # "IDLE" /\ tready("ptp")
    <3>1. byte_cnt \in 1 .. PtpLen - 1 /\ ptpOut = Middle(byte_cnt)
      BY <2>1, <2>3 DEF GenBusy
    <3>2. Before("ptp")' = ptpOut
      BY <2>1, <2>3, <3>1, BeforeMoves, MiddleBeat
    <3>3. ptpOut'.src = "ptp" /\ ptpOut'.no = byte_cnt + 1
      <4>1. CASE state = "SEND"
        BY <2>3, <3>1, <4>1, SenderArms, MiddleBeat
      <4>2. CASE state = "LAST"
        BY <2>3, <3>1, <4>2, SenderArms DEF LastBeat, Beat
      <4> QED  BY <2>3, <4>1, <4>2 DEF GenBusy
    <3> QED  BY <3>1, <3>2, <3>3, MiddleBeat DEF Follows, Open
  <2>4. CASE GenBusy /\ state # "IDLE" /\ ~tready("ptp")
    BY <2>1, <2>4, SenderArms, BeforeMoves DEF GenBusy, Chain
  <2>5. CASE GenBusy /\ state = "IDLE"
    BY <2>5, SenderArms DEF GenBusy
  <2> QED  BY <2>2, <2>3, <2>4, <2>5 DEF GenInv
<1>11. udp'.beat # None => Follows(Before("udp")', udp'.beat)
  <2>1. "udp" \in Ports /\ Offer["udp"] = udp.beat
    BY Offers DEF Ports
  <2>2. udp.len \in Nat /\ udp.at \in Nat /\ udp.at <= udp.len
    BY DEF UdpInv
  <2>3. Open(Before("udp")) => Before("udp").src = "udp"
    BY OnTheWay, <2>1 DEF Before, Ahead, Chain, Open
  <2>4. CASE UdpBegin
    <3>1. udp'.beat.no = 1
      BY <2>4 DEF UdpBegin, UdpOffer, Beat
    <3>2. ~Open(Before("udp")')
      <4>1. CASE udp.beat = None
        <5>1. ~Open(Before("udp"))
          BY <2>2, <2>4, <4>1, UdpBeatIs DEF UdpBegin, UdpInv
        <5> QED  BY <2>1, <4>1, <5>1, BeforeMoves
      <4>2. CASE udp.beat # None
        <5>1. udp.beat.last
          BY <2>2, <2>4, <4>2, UdpBeatIs DEF UdpInv, UdpBegin
        <5> QED  BY <2>1, <2>4, <4>2, <5>1, BeforeMoves DEF UdpBegin, UdpMoves, Open
      <4> QED  BY <4>1, <4>2
    <3> QED  BY <3>1, <3>2 DEF Follows
  <2>5. CASE UdpBeat
    <3>1. udp'.beat.no = udp.at + 1 /\ udp'.beat.src = "udp"
      BY <2>5 DEF UdpBeat, UdpOffer, Beat
    <3>2. Open(Before("udp")') /\ Before("udp")'.no = udp.at /\ Before("udp")'.src = "udp"
      <4>1. CASE udp.beat = None
        <5>1. Open(Before("udp")) /\ Before("udp").no = udp.at
          BY <2>2, <2>5, <4>1, UdpBeatIs DEF UdpInv, UdpBeat
        <5> QED  BY <2>1, <2>3, <4>1, <5>1, BeforeMoves
      <4>2. CASE udp.beat # None
        <5>1. udp.beat.no = udp.at /\ udp.beat.src = "udp" /\ Open(udp.beat)
          BY <2>2, <2>5, <4>2, UdpBeatIs DEF UdpInv, UdpBeat, Open
        <5> QED  BY <2>1, <2>5, <4>2, <5>1, BeforeMoves DEF UdpBeat, UdpMoves
      <4> QED  BY <4>1, <4>2
    <3> QED  BY <3>1, <3>2 DEF Follows
  <2>6. CASE UdpWait /\ ~UdpMoves
    BY <2>1, <2>6, BeforeMoves DEF UdpWait, UdpMoves, Chain
  <2>7. CASE UdpWait /\ UdpMoves
    BY <2>7 DEF UdpWait, UdpInv
  <2> QED  BY <2>4, <2>5, <2>6, <2>7
<1>12. ASSUME NEW p \in Ports, Offer'[p] # None
       PROVE  Follows(Before(p)', Offer'[p])
  <2>1. Offer'["ptp"] = ptpOut' /\ Offer'["udp"] = udp'.beat
    BY DEF Offer
  <2> QED  BY <1>10, <1>11, <1>12, <2>1 DEF Ports
<1> QED  BY <1>1, <1>5, <1>6, <1>7, <1>8, <1>9, <1>12 DEF Chain, Follows, Open
-----------------------------------------------------------------------------
LEMMA EthInvStep ==
  ASSUME BeatTypes, Chain, EthInv, Mux, Header, Chain', BeatTypes'
  PROVE  EthInv'
<1>1. HeaderLen \in Nat \ {0}
  BY TxAssumption
<1>2. None' = None /\ None.src = "none" /\ ~None.last
  BY NoBeat DEF None
<1>3. /\ eth \in [phase : {"idle", "header", "payload"}, k : 0 .. HeaderLen,
                 src : Ports \cup {"none"}]
      /\ mreg # None => mreg.src \in Ports
  BY OnTheWay, Kinds DEF EthInv
<1>4. ~m_axis_tready /\ mreg # None => mreg' = mreg
  BY DEF Mux, Output
<1>5. mreg' # None => Follows(taken', mreg')
  BY <1>2 DEF Chain, Follows, Open
<1>6. taken' = IF m_axis_tready /\ mreg # None THEN mreg ELSE taken
  BY DEF Header
<1>7. CASE eth.phase = "idle" /\ tx_eth_hdr_valid
  <2>1. eth' = [phase |-> "header", k |-> HeaderLen, src |-> mreg.src]
    BY <1>7, HeaderArms
  <2>2. mreg # None /\ mreg' = mreg
    BY <1>4, <1>7 DEF tx_eth_hdr_valid, m_axis_tready
  <2> QED  BY <1>1, <1>2, <1>3, <2>1, <2>2 DEF EthInv
<1>8. CASE eth.phase = "header"
  <2>1. mreg # None /\ mreg.src = eth.src /\ eth.k >= 1 /\ mreg' = mreg
    BY <1>4, <1>8 DEF EthInv, m_axis_tready
  <2>2. CASE eth.k = 1
    BY <1>1, <1>2, <1>3, <1>8, <2>1, <2>2, HeaderArms DEF EthInv
  <2>3. CASE eth.k # 1
    BY <1>1, <1>2, <1>3, <1>8, <2>1, <2>3, HeaderArms DEF EthInv
  <2> QED  BY <2>2, <2>3
<1>9. CASE eth.phase = "payload" /\ mreg.last
  BY <1>3, <1>9, HeaderArms DEF EthInv
<1>10. CASE eth.phase = "payload" /\ ~mreg.last
  <2>1. Open(taken') /\ taken'.src = eth.src
    BY <1>6, <1>10 DEF EthInv, Open, m_axis_tready
  <2>2. mreg' # None => mreg'.src = eth.src
    BY <1>5, <2>1 DEF Follows
  <2> QED  BY <1>2, <1>3, <1>10, <2>1, <2>2, HeaderArms DEF EthInv, Open
<1>11. CASE eth.phase = "idle" /\ ~tx_eth_hdr_valid
  BY <1>3, <1>11, HeaderArms DEF EthInv
<1> QED  BY <1>3, <1>7, <1>8, <1>9, <1>10, <1>11
-----------------------------------------------------------------------------
(* The invariant holds, with the bounds of the runs or without.            *)
THEOREM MuxInvariant == Spec => []MuxInv
<1>1. Init => MuxInv
  <2> SUFFICES ASSUME Init PROVE MuxInv
    OBVIOUS
  <2>1. BeatTypes
    BY DEF Init, BeatTypes
  <2>2. GenInv
    BY DEF Init, GenInv, GenIdle
  <2>3. Sealed
    BY NoBeat, <2>2 DEF Init, Sealed, Ports
  <2>4. Chain
    BY NoBeat DEF Init, Chain, Passed, Open, Offer, Ports
  <2>5. UdpInv
    BY NoBeat DEF Init, UdpInv, Before, Ahead, Open, Ports
  <2>6. EthInv
    BY TxAssumption DEF Init, EthInv
  <2> QED  BY <2>1, <2>2, <2>3, <2>4, <2>5, <2>6 DEF MuxInv
<1>2. MuxInv /\ [Next]_vars => MuxInv'
  <2>1. ASSUME MuxInv, Next PROVE MuxInv'
    <3>1. /\ BeatTypes /\ GenInv /\ Sealed /\ UdpInv /\ Chain /\ EthInv
      BY <2>1 DEF MuxInv
    <3>2. /\ Mux /\ Header /\ Sender /\ Control
          /\ Write \/ NoWrite
          /\ UdpBegin \/ UdpBeat \/ UdpWait
      BY <2>1 DEF Next
    <3>3. BeatTypes' /\ GenInv'
      BY <3>1, <3>2, BeatTypesStep, GenInvStep
    <3>4. Sealed' /\ UdpInv' /\ Chain'
      BY <3>1, <3>2, <3>3, SealedStep, UdpInvStep, ChainStep
    <3>5. EthInv'
      BY <3>1, <3>2, <3>3, <3>4, EthInvStep
    <3> QED  BY <3>3, <3>4, <3>5 DEF MuxInv
  <2>2. ASSUME MuxInv, UNCHANGED vars PROVE MuxInv'
    BY <2>2 DEF vars, genVars, udpVars, muxVars, MuxInv, BeatTypes, GenInv, GenIdle, GenBusy,
                Sealed, UdpInv, Chain, EthInv, Passed, Ahead, Before, Follows, Open, Offer,
                Middle, End, UdpAt, Beat, None, PtpBeats, UdpBeats
  <2> QED  BY <2>1, <2>2
<1> QED  BY <1>1, <1>2, PTL DEF Spec

(* Every register of the way holds a beat or none, and the counters keep   *)
(* their ranges (ptp_gen.sv:88-145, axis_arb_mux.v:150-208).               *)
THEOREM TypeCorrect == Spec => []TypeOK
<1>1. MuxInv => TypeOK
  <2> SUFFICES ASSUME MuxInv PROVE TypeOK
    OBVIOUS
  <2>1. /\ BeatTypes /\ GenInv /\ UdpInv /\ EthInv
    BY DEF MuxInv
  <2>2. Wires \subseteq Beats
    BY DEF Wires, PtpBeats, UdpBeats, Beats, Ports
  <2>3. {ptpOut, udp.beat, sreg["ptp"], sreg["udp"], mreg, temp, taken} \subseteq Wires
    BY <2>1, Offers, OnTheWay DEF Ports
  <2>4. stb \in 0 .. 2 /\ gen_ctrl \in 0 .. 1 /\ state \in {"IDLE", "SEND", "LAST"}
    BY <2>1 DEF GenInv, GenIdle, GenBusy
  <2>5. byte_cnt \in 0 .. PtpLen - 1
    BY <2>1, TxAssumption DEF GenInv, GenIdle, GenBusy
  <2> QED  BY <2>1, <2>2, <2>3, <2>4, <2>5 DEF TypeOK, BeatTypes, EthInv
<1> QED  BY <1>1, MuxInvariant, PTL

(* A write makes one Delay_Req, although gen_ctrl_reg is set for two       *)
(* clocks (ptp_gen.sv:39-70,115-128), for every length of the request.     *)
THEOREM OneRequestPerWrite == Spec => []OnePerWrite
<1>1. MuxInv => OnePerWrite
  <2> SUFFICES ASSUME MuxInv PROVE OnePerWrite
    OBVIOUS
  <2>1. starts \in Nat /\ left \in Nat /\ (GenIdle \/ GenBusy)
    BY DEF MuxInv, GenInv
  <2>2. /\ made \in {starts - 1, starts} /\ left <= made
        /\ stb = 0 /\ gen_ctrl = 0 => made = starts
    BY <2>1 DEF GenIdle, GenBusy
  <2> QED  BY <2>2 DEF OnePerWrite
<1> QED  BY <1>1, MuxInvariant, PTL

(* Whole frames leave, each under its own header, however the two sources  *)
(* meet, also where a Delay_Req is cut off (axis_arb_mux.v:150-208,        *)
(* gmii_udp_loopback.v:431-450).                                           *)
THEOREM FramesStayWhole == Spec => WholeFrames
<1> DEFINE Whole == m_axis_tready /\ mreg # None =>
                      /\ mreg.src = eth.src
                      /\ IF taken = None \/ taken.last THEN mreg.no = 1
                         ELSE mreg.src = taken.src /\ mreg.no = taken.no + 1
                      /\ mreg.src = "ptp" => (mreg.last <=> mreg.no = PtpLen)
<1>1. MuxInv => Whole
  <2> SUFFICES ASSUME MuxInv, m_axis_tready, mreg # None PROVE Whole
    OBVIOUS
  <2>1. mreg.src = eth.src
    BY DEF MuxInv, EthInv, m_axis_tready
  <2>2. Follows(taken, mreg)
    BY DEF MuxInv, Chain
  <2>3. mreg.src = "ptp" => (mreg.last <=> mreg.no = PtpLen)
    BY OnTheWay, Kinds DEF MuxInv
  <2> QED  BY <2>1, <2>2, <2>3 DEF Follows, Open
<1>2. MuxInv /\ [Next]_vars => [Whole]_vars
  BY <1>1
<1> HIDE DEF Whole
<1>3. Spec => [][Whole]_vars
  BY <1>2, MuxInvariant, PTL DEF Spec
<1> QED  BY <1>3 DEF WholeFrames, Whole
=============================================================================
