---------------------------- MODULE MCStreamWrite ----------------------------
(* Responses of several frames, of one frame, and without a body. *)
EXTENDS StreamWrite, TLC

CONSTANTS s1, s2
TwoStreams == {s1, s2}
OneStream == {s1}
NoStream == {}
MixedBodies == {s1 :> 4 @@ s2 :> 0, s1 :> 1 @@ s2 :> 2}
FrameAndEmpty == {s1 :> 2 @@ s2 :> 0}
TwoFrames == {s1 :> 3}
TwoOrThree == {2, 3}
JustThree == {3}
================================================================================
