--------------------------- MODULE MCFrameStream ----------------------------
(* An instance of FrameStream for TLC: a type of one length, a type of     *)
(* several, and a payload that reads as a header.                          *)
EXTENDS FrameStream

Table == [t \in {1, 2} |-> IF t = 1 THEN <<2, 2>> ELSE <<1, 3>>]
Sample == {<<2, 1, 0>>, <<2, 1, 2>>, <<3, 2, 0, 0>>}
=============================================================================
