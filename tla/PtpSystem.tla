------------------------------ MODULE PtpSystem ------------------------------
(***************************************************************************)
(* The slave of PtpSlave with the master clock it follows and the wire     *)
(* between them.  The master and the switch are not in this repository:    *)
(* they are modelled from what the handlers of fw/main.c expect of them,   *)
(* a two-step end-to-end master that sends Sync and Follow_Up and answers  *)
(* a Delay_Req with a Delay_Resp of the same sequence number.              *)
(***************************************************************************)
EXTENDS PtpSlave

CONSTANTS
  MaxSync,   \* bound: number of exchanges the master starts
  MaxNet,    \* bound: frames in flight towards the slave
  MaxFaults, \* bound: frames lost, duplicated or overtaken on the wire
  MaxNoise,  \* bound: frames of other nodes
  Paced,     \* the master starts an exchange only when the last one is over
  Spaced     \* no two frames arrive within one turn of the main loop

ASSUME SystemAssumption ==
  {MaxSync, MaxNet, MaxFaults, MaxNoise} \subseteq Nat /\ Paced \in BOOLEAN /\ Spaced \in BOOLEAN

VARIABLES
  sent,     \* Syncs sent
  followed, \* Follow_Ups sent
  net,      \* frames in flight to the slave, oldest first
  up,       \* Delay_Reqs in flight to the master
  faults, noise

netVars == <<sent, followed, net, up, faults, noise>>
sysVars == <<vars, netVars>>

SystemInit ==
  /\ Init
  /\ sent = 0 /\ followed = 0 /\ net = << >> /\ up = << >>
  /\ faults = 0 /\ noise = 0
-----------------------------------------------------------------------------
Send(f) == Len(net) < MaxNet /\ net' = Append(net, f)

(* Nothing of the previous exchange is on its way or waits to be handled.  *)
Quiet == /\ followed = sent /\ net = << >> /\ up = << >>
         /\ rxq = << >> /\ gen = 0 /\ pc \in {"uart", "poll"}

MasterSync ==
  /\ sent < MaxSync /\ followed = sent
  /\ Paced => Quiet
  /\ sent' = sent + 1
  /\ Send([id |-> "SYNC", seq |-> sent' % SeqMod, of |-> sent'])
  /\ UNCHANGED <<vars, followed, up, faults, noise>>

MasterFollowUp ==
  /\ followed < sent
  /\ followed' = sent
  /\ Send([id |-> "FOLLOW_UP", seq |-> sent % SeqMod, of |-> sent])
  /\ UNCHANGED <<vars, sent, up, faults, noise>>

MasterDelayResp ==
  /\ up # << >>
  /\ up' = Tail(up)
  /\ Send([id |-> "DELAY_RESP", seq |-> Head(up).seq, of |-> Head(up).of])
  /\ UNCHANGED <<vars, sent, followed, faults, noise>>

(* A frame of another node: an Announce, the Delay_Req of another slave or *)
(* the answer to it, which is multicast and carries any sequence number.   *)
OtherNode ==
  /\ noise < MaxNoise
  /\ noise' = noise + 1
  /\ \E id \in {"ANNOUNCE", "DELAY_REQ", "DELAY_RESP"}, q \in 0 .. SeqMod - 1 :
       Send([id |-> id, seq |-> q, of |-> 0])
  /\ UNCHANGED <<vars, sent, followed, up, faults>>

Deliver ==
  /\ net # << >>
  /\ Spaced => rxq = << >>
  /\ net' = Tail(net)
  /\ Arrive(Head(net))
  /\ UNCHANGED <<sent, followed, up, faults, noise>>

(* PTP_GEN_INFO carries sync_seq_id into the Delay_Req; issueDelayReq does *)
(* not return before the frame has left, so the register still holds it.   *)
TransmitUp ==
  /\ Transmit
  /\ up' = Append(up, [seq |-> sync_seq_id, of |-> gen])
  /\ UNCHANGED <<sent, followed, net, faults, noise>>

Fault == faults < MaxFaults /\ faults' = faults + 1

Lose ==
  /\ Fault
  /\ \/ net # << >> /\ net' = Tail(net) /\ UNCHANGED up
     \/ up # << >> /\ up' = Tail(up) /\ UNCHANGED net
  /\ UNCHANGED <<vars, sent, followed, noise>>

Duplicate ==
  /\ Fault
  /\ net # << >> /\ Send(Head(net))
  /\ UNCHANGED <<vars, sent, followed, up, noise>>

Overtake ==
  /\ Fault
  /\ Len(net) >= 2
  /\ net' = <<net[2], net[1]>> \o SubSeq(net, 3, Len(net))
  /\ UNCHANGED <<vars, sent, followed, up, noise>>

-----------------------------------------------------------------------------
CPU == Firmware /\ UNCHANGED netVars

SystemNext ==
  \/ CPU
  \/ MasterSync \/ MasterFollowUp \/ MasterDelayResp \/ OtherNode
  \/ Deliver \/ TransmitUp
  \/ Lose \/ Duplicate \/ Overtake

SystemSpec == SystemInit /\ [][SystemNext]_sysVars

(* The CPU runs, the wire delivers, the master sends its Syncs regularly,  *)
(* follows up each and answers every Delay_Req, and an operator who starts *)
(* a dialogue finishes it.  Nothing has to fail, and nobody has to type a  *)
(* command.  Nothing makes a Delay_Req leave: the way to the MAC may stall *)
(* for ever (gmii_udp_loopback.v:382, see TxMux).                          *)
Fairness ==
  /\ WF_sysVars(CPU /\ pc # "uart")
  /\ WF_sysVars(UartIdle /\ UNCHANGED netVars)
  /\ WF_sysVars(Deliver)
  /\ WF_sysVars(MasterSync)
  /\ WF_sysVars(MasterFollowUp)
  /\ WF_sysVars(MasterDelayResp)

FairSystemSpec == SystemSpec /\ Fairness
-----------------------------------------------------------------------------
(* The main loop hangs on nothing but a Delay_Req that never leaves: it    *)
(* comes back to the UART for ever, whatever the wire loses, duplicates or *)
(* reorders and other nodes send, or else stands in issueDelayReq with its *)
(* own frame still on the way to the MAC (ptp_drv.c:79).                   *)
MainLoopTurns == []<>(pc = "uart") \/ <>[](pc = "wait" /\ gen = dreq)

(* Once the disturbances are over, frames come no faster than the loop     *)
(* turns and every Delay_Req leaves, the second exchange measures right:   *)
(* from then on all offsets handed to setTime or applyOffset are the error,*)
(* with the true path delay, of the clock they are handed on for.  This    *)
(* promises the measurement.  setTime takes just this off the clock, but   *)
(* applyOffset does not (runs servo_direct, rtc_offset).                   *)
Undisturbed == /\ ready /\ keys = MaxKeys /\ faults = MaxFaults
               /\ noise = MaxNoise
MeasuresForGood ==
  []<>(gen = 0) => (Undisturbed /\ sent + 1 < MaxSync ~> [](handed = "error"))

(* The receive queue is served until it is empty (main.c:103 compares the  *)
(* packet count with 0).                                                   *)
QueueDrains == rxq # << >> ~> rxq = << >>

(* A path delay is computed from the four times of one exchange (the       *)
(* sequence check of ptp_drv.c:86-101).                                    *)
DelayOfOneExchange == delay # "junk"
=============================================================================
