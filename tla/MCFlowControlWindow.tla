------------------------- MODULE MCFlowControlWindow -------------------------
(***************************************************************************)
(* A stream's window of at most 3 bytes shared by three senders, under a   *)
(* peer that may overrun the limit by one byte.                            *)
(***************************************************************************)
EXTENDS FlowControlWindow

CONSTANTS s1, s2, s3

MCSenders == {s1, s2, s3}
MCDemands == 1..2
MCInitialSizes == 0..2
===============================================================================
