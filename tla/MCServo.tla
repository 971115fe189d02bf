------------------------------ MODULE MCServo ------------------------------
(* A second of 10 nanoseconds and integers up to 21: errors of less than a *)
(* second, of one and of more, on both sides; path delays whose sum is less*)
(* than a second, an odd and an even number of seconds and a part.         *)
EXTENDS Servo

MCPaths    == {3, 7, 12}
MCStarts   == {-25, -20, -13, -11, -10, -9, -4, 0, 1, 6, 7, 9, 10, 16, 21}
MCErrors   == -40 .. 40
MCInstants == {0, 6, 9, 14, 17, 25, 30, 38, 41}
=============================================================================
