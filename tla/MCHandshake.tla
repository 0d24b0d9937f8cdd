----------------------------- MODULE MCHandshake -----------------------------
(* Small instance of Handshake for TLC.                                     *)
EXTENDS Handshake

AnyError == {"graceful", "fatal"}
=============================================================================
