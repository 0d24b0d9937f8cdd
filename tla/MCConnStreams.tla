---------------------------- MODULE MCConnStreams ----------------------------
(***************************************************************************)
(* Three streams, two at a time.                                           *)
(***************************************************************************)
EXTENDS ConnStreams
===============================================================================
