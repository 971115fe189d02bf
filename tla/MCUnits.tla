------------------------------ MODULE MCUnits ------------------------------
(* The units that share no state with the rest of the system, in one check:*)
(* a behaviour is one of exactly one of them, the others stand still.      *)
EXTENDS TssTx, PtpTd, FrameEp, XgmiiEp, GmiiEp, FrameCodec, I2cBus, AxilBus, WbBus

VARIABLE unit

(* PtpTd: a second of 20 ns that ends within a few messages.               *)
MCDrifts == {<<0, 0>>, <<2, 3>>}
MCDays   == {<<1, 17, 3>>}
MCRels   == {<<62, 1>>}

(* XgmiiEp: every lane a frame can end in, an error in the first block and *)
(* later ones.                                                             *)
MCFrameLens == (8 .. 15) \cup {72}

(* GmiiEp: a payload with the nibbles of the delimiter in and out of step. *)
MCPhys     == {"gmii", "gmii_mii", "mii", "rgmii", "rgmii_mii"}
MCPayloads == {<< <<13, 5>>, <<13, 5>>, <<5, 13>> >>}

(* FrameCodec: words whose sums carry twice, payloads odd, even and empty. *)
MCMacs  == {<<0, 1, 65535>>}
MCIps   == {<<49320, 356>>, <<65535, 65535>>}
MCTos   == {<<0, 0>>, <<63, 3>>}
MCFrags == {<<2, 0>>, <<7, 8191>>}
MCTtls  == {<<64, 17>>}
MCDatas == {<< >>, <<255>>, <<1, 2, 254>>, [i \in 1 .. 24 |-> 255]}

MCFrame == CHOOSE f \in NewFrames : TRUE

(* I2cBus: a memory without and one with a latency and an address where    *)
(* there is none; a write of the pointer alone.                            *)
MCI2cWrites == {<<1, <<2, 5>>>>, <<2, <<1, 6, 3>>>>, <<2, <<1>>>>}
MCI2cReads  == {<<1, 1>>, <<2, 2>>, <<3, 1>>}

(* AxilBus and WbBus: calls that begin or end inside a word, and share one.*)
MCAxilWrites == {<<1, <<7, 8>>>>, <<0, <<5>>>>, <<2, <<6, 9>>>>}
MCAxilReads  == {<<1, 2>>, <<2, 1>>}
MCShapes     == {<<2, 1>>, <<1, 2>>, <<2, 2>>}
MCWbWrites   == {<<1, <<7, 8>>>>, <<0, <<5>>>>, <<2, <<6, 9, 4, 3, 1, 2>>>>}
MCWbReads    == {<<1, 2>>, <<2, 6>>}

vars == <<unit, tssVars, tdVars, epVars, xgmiiVars, gmiiVars, codecVars,
          i2cVars, axilVars, wbVars>>

Init ==
  /\ unit \in {"tss", "td", "ep", "xgmii", "gmii", "codec", "i2c", "axil", "wb"}
  /\ TssInit
  /\ TdInit    /\ (unit # "td" => source.period = 3 /\ source.num = 0)
  /\ EpInit    /\ (unit # "ep" => layer = "eth")
  /\ XgmiiInit /\ (unit # "xgmii" => link = "xgmii32" /\ ~enable_dic /\ ~force_offset_start)
  /\ GmiiInit  /\ (unit # "gmii" => phy = "gmii")
  /\ CodecInit /\ (unit # "codec" => frame = MCFrame)
  /\ I2cInit
  /\ AxilInit
  /\ WbInit    /\ (unit # "wb" => shape = <<2, 1>> /\ ~asynchronous /\ latency = 0)

Next ==
  /\ UNCHANGED unit
  /\ IF unit = "tss"   THEN TssNext   ELSE UNCHANGED tssVars
  /\ IF unit = "td"    THEN TdNext    ELSE UNCHANGED tdVars
  /\ IF unit = "ep"    THEN EpNext    ELSE UNCHANGED epVars
  /\ IF unit = "xgmii" THEN XgmiiNext ELSE UNCHANGED xgmiiVars
  /\ IF unit = "gmii"  THEN GmiiCycle ELSE UNCHANGED gmiiVars
  /\ IF unit = "codec" THEN CodecNext ELSE UNCHANGED codecVars
  /\ IF unit = "i2c"   THEN I2cNext   ELSE UNCHANGED i2cVars
  /\ IF unit = "axil"  THEN AxilNext  ELSE UNCHANGED axilVars
  /\ IF unit = "wb"    THEN WbNext    ELSE UNCHANGED wbVars

(* The clock of the TSS path runs.                                         *)
Spec == Init /\ [][Next]_vars /\ WF_tssVars(unit = "tss" /\ Next)
=============================================================================
