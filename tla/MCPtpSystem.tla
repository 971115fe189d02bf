----------------------------- MODULE MCPtpSystem -----------------------------
(* The slave with its master, frames kept apart by at least one turn of    *)
(* the main loop.  Every frame the master and the other nodes can send is  *)
(* a frame of the network.                                                 *)
EXTENDS PtpSystem

MCFrames == [id : MsgId, seq : 0 .. SeqMod - 1, of : 0 .. MaxSync + MaxNoise]
=============================================================================
