------------------------------- MODULE MCTsu -------------------------------
(* Short frames, close together, whose writes come after 4, 5 and 6 clocks *)
(* of the gap.                                                             *)
EXTENDS Tsu

MCLens == 10 .. 12
=============================================================================
