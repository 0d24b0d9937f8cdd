---------------------------- MODULE MCRequestBody ----------------------------
(***************************************************************************)
(* Two requests with bodies on one connection, small windows.              *)
(***************************************************************************)
EXTENDS RequestBody

CONSTANTS s1, s2, conn

TwoStreams == {s1, s2}
OneStream == {s1}
OtherStream == {s2}
NoStream == {}
NoPadding == {0}
===============================================================================
