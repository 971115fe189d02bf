------------------------------ MODULE MCTxMux ------------------------------
(* Frames longer than the registers of the way, at every distance.         *)
EXTENDS TxMux

MCUdpLens == {5, 7}
=============================================================================
