----------------------------- MODULE MCPtpSlave -----------------------------
(* The firmware and its queues against every order of a small set of       *)
(* frames: two exchanges, a Follow_Up out of sequence, a Delay_Resp to the *)
(* second request and frames of other nodes.                               *)
EXTENDS PtpSlave

F(id, seq, of) == [id |-> id, seq |-> seq, of |-> of]

MCFrames ==
  { F("SYNC", 0, 1), F("FOLLOW_UP", 0, 1), F("DELAY_RESP", 0, 1),
    F("SYNC", 1, 2), F("FOLLOW_UP", 1, 2), F("DELAY_RESP", 1, 2),
    F("DELAY_REQ", 1, 0), F("ANNOUNCE", 0, 0) }
=============================================================================
