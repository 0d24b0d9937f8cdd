------------------------------ MODULE MCFrames ------------------------------
(* Small instance of Frames for TLC: numbers wrap around at 32, every size  *)
(* that the code tells apart is there, with one octet less and more.        *)
EXTENDS Frames

AllLengths == 0 .. 13
SomePads == {0, 1, 2, 5, 12}
=============================================================================
